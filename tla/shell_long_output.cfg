SPECIFICATION Spec
CONSTANTS
  INITIAL_SEQUENCE_SIZE = 5
  EXTENSION_SIZE = 2
  Behaviour <- MCBehaviour
  CD <- MCCD
  FileNames <- MCFiles
  Dirs <- MCDirs
  HOME <- MCHome
  PIPE_CAPACITY = 1
  MaxProcs = 4
  MaxReads <- MCEndless
  STDIN = STDIN
  Scripts <- MCLongOutput
CHECK_DEADLOCK FALSE
PROPERTY
  LineEnds
