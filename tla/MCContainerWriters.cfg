CONSTANTS
  Parts = {"sof"}
  LineMax = 3
  HistoryMax = 2
  Chars = {"A"}
  EnvMax = 3
  EnvKeys = {"PWD", "PATH", "K", "L"}
  Dirs = {"/", "/a", "/b"}
  LoadedMax = 2
  Libraries = {"p", "q"}
  HandleBound = 4
  RefBound = 2
  SpawnMax = 2
  ProcMax = 2
  HandleMax = 3
  AppSubjects = {1, 2}
  FsApps = {a1, a2}
  FsPaths = {p1, p2, p3}
  FsContents = {c1, c2}
  TooLong = TooLong
  FilesPerApp = 2
  CommandNames <- MCCommandNames
  BuiltinStems = {"ls"}
  PathTexts <- MCPathTexts
  CwdDir <- MCCwd
  OsDir <- MCOs
  LibDir <- MCLib
  FileSets <- MCFileSets
  ArgStrings <- MCArgStrings
  ScriptPieces <- MCScriptPieces
  ArgsSize = 6
  ArgvMax = 2
  OutSizeMax = 6
  Tails <- MCTails
  SofParams <- MCSofParams
  MetaCount = 2
  BufferSizes = {5, 20}
  ValueWireMax = 4
  MetaValueMax = 3
  EntryMax = 2
  SignKeys = {7, 8}
  BakedRoot = 1
  OtherRoot = 2
  RuleCalls <- MCRuleCalls
  WorkflowCaps = {1}
  RuleMax = 1
  AuditMax = 2
  CallBound = 3
  KArena = 14
  KHeader = 1
  KRequests = {1, 2, 3}
  Pool = 30
  Programs <- MCNested
  Requests = {1, 3, 5}
  AddressMax = 63
  StackBytes = 8
  PayloadMax = 3
  HeaderBytes = 4
  AlignBytes = 4
  ArenaBase = 5
  ArenaSize = 51
  WindowCount = 3
  ModProcMax = 2
  ModHandleMax = 2
  GrantBound = 2
SPECIFICATION ServicesSpec
INVARIANT WritersAgree
CHECK_DEADLOCK FALSE
