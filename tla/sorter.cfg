SPECIFICATION SorterSpec
CONSTANTS
  SCHED = SCHED
  PoolSize = 3
  FileCount = 4
  Missing = {4}
  MAX_NUMBERS_LOADED = 2
  Inputs <- SomeInputs
  Junk = {0, 2}
CHECK_DEADLOCK FALSE
INVARIANTS
  RunsLiveCoro
  NoCriticalError
  OneSorterPerFile
  AllFilesFinished
  OutputSorted
  OutputComplete
PROPERTIES
  Terminates
  EveryCoroRuns
