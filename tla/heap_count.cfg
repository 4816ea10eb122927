SPECIFICATION Spec
CONSTANTS
  Threads = {t1, t2, t3}
  Blocks = {b1, b2}
  NULL = NULL
  MaxDrift = 1
  NESTED = TRUE
CHECK_DEADLOCK FALSE
INVARIANTS
  CountExact
  NoFalseDoubleFree
  PointersReady
PROPERTIES
  CallsReturn
