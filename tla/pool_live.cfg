SPECIFICATION FairSpec
CONSTANTS
  c1 = c1
  c2 = c2
  t1 = t1
  t2 = t2
  t3 = t3
  NULL = NULL
  INFINITE = INFINITE
  Clients <- TwoClients
  Tasks <- TwoTasks
  Calls <- AllCalls
  TPOOL_MAX_THREADS = 1
  TPOOL_MAX_TASKS = 2
  SEC = 4
  Clock = {0}
  Timeouts = {0, 1}
  CreateFails = FALSE
PROPERTIES
  PushedFinishes
  CallsReturn
  DetachedPendingFreed
