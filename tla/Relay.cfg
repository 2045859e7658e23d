SPECIFICATION FairSpec
CONSTANTS
    TCP_SS2022_MAX_PAYLOAD_LEN = 2
    TCP_SS2022_LEN_FIELD_LEN = 1
    TCP_SS2022_TAG_LEN = 1
    TCP_SS2022_RESP_READ_SLACK = 1
    TCP_SS_PLAIN_BUFSIZ = 2
    ResponseHeaderLen = 3
    Streams <- UpToTwoChunks
    ClientBytes = 3
CHECK_DEADLOCK FALSE
INVARIANTS
    RelayTypeOK
    ClientGetsPrefix
    EndIsTheEnd
    SealedIsSent
PROPERTIES
    RelayEnds
