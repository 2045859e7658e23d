SPECIFICATION Spec
CONSTANTS
    Domains = {"a", "b", "c"}
    PoolSize = 2
    FAKEDNS_MAX_PROBES = 2
    Offset <- MCOffset
    Step <- MCStep
    FAKEDNS_ENTRY_LIFETIME = 4
    FAKEDNS_DNS_TTL = 1
    FAKEDNS_MRU_SIZE = 2
    TimeMod = 10
    Threads = {"dns", "worker"}
    DnsThread = "dns"
    LastTime = 2
    StartTime = 6
    MaxVersion = 2
CHECK_DEADLOCK FALSE
INVARIANTS
    FreshAnswerResolves
    MruIsCurrent
PROPERTIES
    OneAddressPerDomain
