SPECIFICATION Spec
CONSTANTS
  c1 = c1
  c2 = c2
  t1 = t1
  t2 = t2
  t3 = t3
  NULL = NULL
  INFINITE = INFINITE
  Clients <- TwoClients
  Tasks <- ThreeTasks
  Calls <- AllCalls
  TPOOL_MAX_THREADS = 2
  TPOOL_MAX_TASKS = 2
  SEC = 2
  Clock = {0, 1}
  Timeouts = {0, 1, 2, INFINITE}
  CreateFails = TRUE
SYMMETRY Interchangeable
CHECK_DEADLOCK FALSE
INVARIANTS
  TypeOK
  SinglePlace
  RingWindow
  CountersExact
  NoDanglingTask
  ResultFresh
  NoMissedBroadcast
  WorkConserving
  IdleWhenFinished
  PoolGoneQuiet
PROPERTIES
  ImplementsFifo
