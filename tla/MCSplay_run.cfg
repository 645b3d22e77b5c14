CONSTANTS
  p = p
  q = q
  a = a
  b = b
  c = c
  Procs = {p, q}
  Tables = {"t1", "t2"}
  Worlds <- Sound
  Syms = {a, b, c}
  Contents <- Few
  None = None
  Torn = Torn
  MaxGen = 2
  MaxLoads = 1
  MaxCrash = 1
SPECIFICATION Spec
CHECK_DEADLOCK FALSE
INVARIANTS SymCovers TablesHonest Durable
