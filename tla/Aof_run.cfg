CONSTANTS
    SegLimit = 2
    Worlds = {{"close", "open", "machine"}, {"write", "process"}, {"flush", "sync", "close", "open", "dir", "process"}}
    MaxAppends = 3
    MaxCrashes = 1
    MaxLosses = 2
    MaxScans = 2
    MaxTorn = 1
SPECIFICATION Spec
INVARIANTS ScansComplete ReadersRight
PROPERTY LogKept
