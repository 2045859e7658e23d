SPECIFICATION HandshakeSpec
CONSTANTS
    N = 3
    SS_SWITCH_THRESHOLD = 6
    UINT32_MAX = 99
    s1 = s1
    Clients <- OneSession
    UINT64_MAX = 1
    Scores = {1}
    MayFail <- AllButLast
    MayAnswer <- AllServers
    LocalErrors = FALSE
    RequestLen = 2
    TFO = TRUE
CHECK_DEADLOCK FALSE
INVARIANTS
    ReliableServerFound
