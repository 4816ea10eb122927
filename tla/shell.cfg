SPECIFICATION Spec
CONSTANTS
  INITIAL_SEQUENCE_SIZE = 5
  EXTENSION_SIZE = 2
  Behaviour <- MCBehaviour
  CD <- MCCD
  FileNames <- MCFiles
  Dirs <- MCDirs
  HOME <- MCHome
  PIPE_CAPACITY = 2
  MaxProcs = 4
  MaxReads <- MCEndless
  STDIN = STDIN
  Scripts <- MCScripts
INVARIANTS
  NobodyForgotten
  PrintsMeaning
  RoundTrip
  NoCrash
PROPERTIES
  LineEnds
  StragglersEnd
