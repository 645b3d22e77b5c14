CONSTANTS
    Modes = {"async", "sync"}
    Verbs = {"snapshot", "roll", "sync", "close", "purge"}
    FaultSets = {{}, {"write", "sync", "close", "rename", "open", "dir"}}
    Crashes = {"process", "machine"}
    FsyncEntry = TRUE
    DistinctStamps = TRUE
    MaxMsgs = 3
    MaxCrashes = 2
    MaxRolls = 2
    MaxClock = 1
    FewMsgs = 2
    FewCrashes = 1
    FewRolls = 1
SPECIFICATION MCSpec
INVARIANTS AckedKept ReplayOrder
