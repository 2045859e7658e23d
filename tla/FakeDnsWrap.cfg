SPECIFICATION PersistSpec
CONSTANTS
    Domains = {"a"}
    PoolSize = 2
    FAKEDNS_MAX_PROBES = 2
    Offset <- MCOffset
    Step <- MCStep
    FAKEDNS_ENTRY_LIFETIME = 4
    FAKEDNS_DNS_TTL = 1
    FAKEDNS_MRU_SIZE = 1
    TimeMod = 10
    Threads = {"dns"}
    DnsThread = "dns"
    LastTime = 4
    StartTime = 6
    MaxVersion = 2
    MaxBehind = 1
CHECK_DEADLOCK FALSE
INVARIANTS
    SaveSkipsOnlyExpired
