SPECIFICATION FairLifeSpec
CONSTANTS
    W = 3
CHECK_DEADLOCK FALSE
INVARIANTS
    NobodyLeftBehind
    FailureIsReported
    JoinedIsTold
PROPERTIES
    StopEnds
