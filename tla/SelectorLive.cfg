SPECIFICATION FairSelectorSpec
CONSTANTS
    N = 2
    SS_SWITCH_THRESHOLD = 6
    UINT32_MAX = 99
    c1 = c1
    Clients <- OneClient
    UINT64_MAX = 1
    Scores = {1, 8}
    MayFail <- AllServers
    MayAnswer <- AllServers
    LocalErrors = TRUE
PROPERTIES
    RoundCompletes
    Convergence
