SPECIFICATION PoolSpec
CONSTANTS
    total_size = 2
    EXPAND_BATCH_SIZE = 2
    SIZE_MAX = 5
    InitialBlocks = {0, 1, 3}
    MaxBlocks = {0, 3, 4}
INVARIANTS
    PoolIsConsistent
PROPERTIES
    ImplementsAllocator
