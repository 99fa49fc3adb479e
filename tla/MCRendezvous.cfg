CONSTANTS
  N = 4
  MaxGen = 2
  Subjects = {"a", "b", "c", "d"}
  Tokens = {0, 1, 2}
  NoToken = NoToken
  PortSlots = 3
  MaxPortGen = 2
  Subj <- MCSubj
  Holders <- MCHolders
  Scripts = {"pair", "churn"}
  Paired = {"pair"}
  FirstPorts <- MCFirstPorts
  Ops <- MCOps
  Quota = 4
  NoMsg = NoMsg
  NoOwner = NoOwner
SPECIFICATION FairSpec
PROPERTIES DeliveredOnceInOrder AllComplete
CHECK_DEADLOCK FALSE
