CONSTANTS
  Main = main
  Workers = {w1}
  PoolOrder = 2
  SlabMax = 0
  SlabCap = 1
  NPools = 2
  MaxRc = 2
  MaxOut = 2
  MaxRounds = 2
  GcInTasks = TRUE
  Gap = FALSE
SPECIFICATION Spec
CHECK_DEADLOCK FALSE
INVARIANTS  Accounted
