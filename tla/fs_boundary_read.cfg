SPECIFICATION Spec
CONSTANTS
  f1 = f1
  f2 = f2
  NULL = NULL
  Names = {"a"}
  Files <- OneFile
  Buffers <- TwoBytes
  ReadSizes = {2}
  NewSizes = {0}
  OpenFlags <- PlainFlags
  MaxFds = 2
  BLOCK_SIZE = 2
  MAX_FILE_SIZE = 4
  AllocFails = FALSE
  BoundaryReads = TRUE
CHECK_DEADLOCK FALSE
PROPERTIES
  ImplementsFlatFS
