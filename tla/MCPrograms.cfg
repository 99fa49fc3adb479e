CONSTANTS
  Parts = {"gfx", "text", "input", "clock", "nic", "net", "files", "sort",
           "ctext", "calls", "sosh", "words", "edit", "win"}
  HwWidth = 2
  HwHeight = 1
  CursorHalf = 0
  Extents = {1, 2}
  VfbSizes <- MCVfbSizes
  VfbDefault <- MCVfbDefault
  Origins <- MCOrigins
  Cols = 2
  Rows = 2
  Glyphs = {"A"}
  PaperMax = 4
  PadKeys = {"a"}
  Packets <- MCPackets
  Modes <- MCModes
  TextWidth = 1
  TextScale = 2
  EventMax = 1
  DrainMax = 4
  PortMax = 3
  Hours = 4
  Minutes = 2
  Seconds = 2
  RtcModes <- MCRtcModes
  RtcStarts <- MCRtcStarts
  RtcRun = 2
  Asked <- MCAsked
  TickBound = 1
  VringSize = 2
  IdxMod = 4
  NetFrames = {"f", "g", "runt"}
  TxOwedMax = 2
  Hosts = {"a", "b", "l", "n"}
  Literals = {"l"}
  LongNames = {"n"}
  Attempts = 2
  RxMax = 2
  WireMax = 2
  NetRequests = 2
  FdSlots = 1
  PoolSize = 1
  FileCap = 2
  BufCap = 1
  FilePaths = {"p"}
  FileBytes = {1, 2}
  SortInputs <- MCSortInputs
  SearchKeys = {0, 1, 2, 3}
  Threshold = 3
  StackDepth = 1
  NumTexts <- MCNumTexts
  NumBases = {0, 1, 8, 10, 16}
  UlongMax = 15
  UllMax = 255
  IntMax = 3
  MemSize = 5
  MemBytes = {0, 1, 2}
  Delim = {2}
  CallPaths = {"p"}
  SizeMax = 2
  OutSize = 2
  JoinMax = 1
  ExitCodes = {0, 5}
  NestMax = 3
  CallBytes <- MCCallBytes
  ArgLists <- MCArgLists
  ScriptMax = 4
  SoshNesting = 2
  LogMax = 5
  Starts = {0, 1, 2}
  LineKinds = {"if", "elif", "else", "while", "for", "end", "set", "echo", "exit", "source", "run", "export"}
  VarNames <- MCVarNames
  VarValues <- MCVarValues
  VarMax = 2
  ValueMax = 5
  TokenMax = 2
  TokenLenMax = 5
  ArgMax = 3
  ArgTexts <- MCArgTexts
  CommandOut <- MCCommandOut
  TokenLists <- MCTokenLists
  Exprs <- MCExprs
  DiskNames = {"f", "g"}
  TextChars = {1}
  TextMax = 2
  LineCap = 2
  LinesCap = 2
  FileMax = 3
  FileStarts <- MCFileStarts
  FailBound = 1
  ScreenW = 5
  ScreenH = 4
  VfbW = 2
  VfbH = 1
  TitleH = 2
  CloseW = 3
  QuitX = 4
  QuitH = 1
  DialogBox <- MCDialog
  Buttons <- MCButtons
  EchoCols = 1
  EchoRows = 1
SPECIFICATION ProgramsSpec
INVARIANTS
    ResponsesBelongToRequests
   LibraryContracts  
CHECK_DEADLOCK FALSE
