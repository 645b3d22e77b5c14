INIT Init
NEXT Next
CONSTANTS
    Morsel = 2
    Dense = 1
    RangeRows = 4
    RangeFrac = 2
    Chunk = 2
    Threshold = 2
    ChunkRows = 1
    MaxTasks = 2
    MaxBits = 5
    MaxRows = 4
    MaxPair = 2
    MaxParted = 4
INVARIANTS FiltersRight  VectorsRight
CHECK_DEADLOCK FALSE
