CONSTANTS
  P = 3
  GenMod = 4
  CloseCap = 3
  Owners = {o1, o2}
  Msgs <- Handles
  NoMsg = NoMsg
  NoOwner = NoOwner
  RowMax = 4
  MaxCluster = 5
  FatPer = 4
  BlockBytes = 2
  DirEntries = 1
  Names = {a, b}
  Texts <- FsTexts
  MaxDepth = 2
  MaxSize = 4
  EventMax = 3
  CheckInterval = 2
  CheckMax = 2
  AuditEvents = {e1, e2}
  MaxRecorded = 7
  BusSubjects = {s1}
  Topics = {t1, t2}
  QueueCapacity = 2
  MaxPublished = 4
SPECIFICATION Spec
INVARIANTS
  ClosedHandlesRefused RevokesSubtree StaysSound
  AuditRetainsNewest CheckpointsCoverWindows TopicsInOrder
PROPERTIES Returns ImplementsFileStore
CHECK_DEADLOCK FALSE
