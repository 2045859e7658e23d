SPECIFICATION PersistSpec
CONSTANTS
    Domains = {"a", "b"}
    PoolSize = 2
    FAKEDNS_MAX_PROBES = 2
    Offset <- MCOffset
    Step <- MCStep
    FAKEDNS_ENTRY_LIFETIME = 4
    FAKEDNS_DNS_TTL = 1
    FAKEDNS_MRU_SIZE = 1
    TimeMod = 32
    Threads = {"dns"}
    DnsThread = "dns"
    LastTime = 5
    StartTime = 0
    MaxVersion = 2
    MaxBehind = 1
CHECK_DEADLOCK FALSE
INVARIANTS
    FileIsWhole
    RestartKeepsAnswers
