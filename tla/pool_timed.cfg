SPECIFICATION FairSpec
CONSTANTS
  c1 = c1
  c2 = c2
  t1 = t1
  t2 = t2
  t3 = t3
  NULL = NULL
  INFINITE = INFINITE
  Clients <- OneClient
  Tasks <- TwoTasks
  Calls = {"push", "timed_join"}
  TPOOL_MAX_THREADS = 1
  TPOOL_MAX_TASKS = 1
  SEC = 4
  Clock = {0, 1, 2, 3}
  Timeouts = {1, INFINITE}
  CreateFails = FALSE
CHECK_DEADLOCK FALSE
PROPERTIES
  TimedJoinReturns
