CONSTANTS
    Names <- Some
    Literals <- Lits
    Bulk <- Csv
    Builtins <- Lang
    HashOf <- Hashes
    Cap0 = 4
    LazyMin = 7
    None = None
    MaxSyms = 11
    MaxSaves = 2
    MaxBoots = 2
    NHandles = 3
    NBlocks = 14
    MaxLen = 3
    MaxSteps = 5
    IndexStrings = FALSE
    WriteSlices = FALSE
SPECIFICATION MCSpec
INVARIANTS SymsRight VecsRight
CHECK_DEADLOCK FALSE
