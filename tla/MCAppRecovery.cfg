SPECIFICATION SessionsSpec
CONSTANTS
  Parts = {"sessions"}
  SessionMax = 3
  AuthSlots = 2
  SwitchMax = 2
  QueueMax = 1
  CacheMax = 1
  MaxAsks = 1
  MaxTyped = 3
  ProgramFiles <- MCProgramFiles
  StorePaths = {"d"}
  BufferCells = 3
  DepthMax = 2
INVARIANT AppsAreRecoverable
CHECK_DEADLOCK FALSE
