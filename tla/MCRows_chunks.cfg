INIT FilterInit
NEXT FilterNext
CONSTANTS
    Morsel = 2
    Dense = 1
    RangeRows = 4
    RangeFrac = 2
    Chunk = 2
    Threshold = 2
    ChunkRows = 1
    MaxTasks = 2
    MaxBits = 5
    MaxRows = 4
    MaxPair = 3
    MaxParted = 5
CHECK_DEADLOCK FALSE
INVARIANTS
    ChunksSoundNulls
