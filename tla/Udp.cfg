SPECIFICATION UdpSpec
CONSTANTS
    N = 2
    SS_SWITCH_THRESHOLD = 6
    UINT32_MAX = 99
    c1 = c1
    c2 = c2
    f1 = f1
    r1 = r1
    r2 = r2
    Clients <- TwoClients
    FakeTargets <- OneFake
    Remotes <- TwoRemotes
    base_size = 1
    SYMMETRIC_SIZE_MULTIPLIER = 2
    TPROXY_SIZE_MULTIPLIER = 4
    UINT16_MAX = 2
    UDP_BATCH_SIZE = 2
    g_udp_idletimeout_sec = 2
    GC_INTERVAL_SEC = 1
SYMMETRY AddressSymmetry
CHECK_DEADLOCK FALSE
INVARIANTS
    IndexMatchesSessions
    PoolsSuffice
    QueuedSendsAreGood
    NoSocketLeaks
    IdleIsCollected
PROPERTIES
    ReplacementLeavesFailed
