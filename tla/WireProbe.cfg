SPECIFICATION FairProbeSpec
CONSTANTS
    SendLen = 2
    HeaderSize = 3
    TAG = 1
    UINT16_MAX = 2
    TCP_PROBE_STATUS_LEN = 2
    Responses <- MCResponses
CHECK_DEADLOCK FALSE
INVARIANTS
    ProbeTypeOK
    NothingLeftOver
    VerdictIsTheAnswer
    NeverWaitsForNothing
PROPERTY
    ProbesEnd
