SPECIFICATION Spec
CONSTANTS
  f1 = f1
  f2 = f2
  NULL = NULL
  Names = {"a"}
  Files <- OneFile
  Buffers <- ThreeBuffers
  ReadSizes = {0, 1, 3}
  NewSizes = {0, 1, 3, 4, 5}
  OpenFlags <- PlainFlags
  MaxFds = 2
  BLOCK_SIZE = 2
  MAX_FILE_SIZE = 4
  AllocFails = FALSE
  BoundaryReads = FALSE
CHECK_DEADLOCK FALSE
INVARIANTS
  BlocksCover
  CursorOnBlock
  NoCrash
PROPERTIES
  ImplementsFlatFS
