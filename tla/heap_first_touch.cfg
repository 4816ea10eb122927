SPECIFICATION Spec
CONSTANTS
  Threads = {t1, t2}
  Blocks = {b1, b2}
  NULL = NULL
  MaxDrift = 1
  NESTED = TRUE
CHECK_DEADLOCK FALSE
INVARIANTS
  NoAssertFails
