SPECIFICATION Spec
CONSTANTS
  f1 = f1
  f2 = f2
  NULL = NULL
  Names = {"a"}
  Files <- TwoFiles
  Buffers <- ByteBuffers
  ReadSizes = {1}
  NewSizes = {0}
  OpenFlags <- SomeFlags
  MaxFds = 2
  BLOCK_SIZE = 2
  MAX_FILE_SIZE = 1
  AllocFails = FALSE
  BoundaryReads = FALSE
CHECK_DEADLOCK FALSE
SYMMETRY Addresses
PROPERTIES
  ImplementsFlatFS
