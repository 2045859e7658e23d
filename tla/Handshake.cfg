SPECIFICATION FairHandshakeSpec
CONSTANTS
    N = 2
    SS_SWITCH_THRESHOLD = 6
    UINT32_MAX = 99
    s1 = s1
    Clients <- OneSession
    UINT64_MAX = 1
    Scores = {1}
    MayFail <- AllServers
    MayAnswer <- AllServers
    LocalErrors = TRUE
    RequestLen = 2
    TFO = TRUE
CHECK_DEADLOCK FALSE
INVARIANTS
    NoReplay
    AttemptsAreSound
PROPERTIES
    ImplementsSelector
    HandshakeEnds
