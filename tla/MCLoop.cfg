\* The constants are those of the worlds pair and fire.
CONSTANTS
    Procs = {"p", "q"}
    Links <- OneLink
    Opened = {}
    NSlots = 1
    Secured = {"q"}
    Calls = {"open", "close", "post", "send"}
    CloseCalls = {"post"}
    Faults = {"version", "big", "poll"}
    MaxMsgs = 2
    MaxCalls = 5
    MaxCancels = 1
    InitCap = 8
    Kinds <- MixedKinds
    InCallback = {"add", "del", "self"}
    AllocFails = FALSE
    MaxTimers = 3
    MaxNow = 2
SPECIFICATION MCSpec
INVARIANTS  NoUseAfterFree TimersRight
  
CHECK_DEADLOCK FALSE
