SPECIFICATION Spec
CONSTANTS
  f1 = f1
  f2 = f2
  NULL = NULL
  Names = {"a"}
  Files <- TwoFiles
  Buffers <- OneByte
  ReadSizes = {1}
  NewSizes = {0, 1}
  OpenFlags <- PlainFlags
  MaxFds = 3
  BLOCK_SIZE = 1
  MAX_FILE_SIZE = 1
  AllocFails = TRUE
  BoundaryReads = TRUE
CHECK_DEADLOCK FALSE
SYMMETRY Addresses
INVARIANTS
  RefsExact
  OneFilePerName
  FdTable
