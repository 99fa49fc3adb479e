CONSTANTS
  N = 3
  MaxGen = 1
  Subjects = {"a", "b", "c"}
  Tokens = {0}
  NoToken = NoToken
  PortSlots = 1
  MaxPortGen = 1
  Subj <- MCSubj
  Holders <- MCHolders
  Scripts = {"crowd"}
  Paired = {"pair"}
  FirstPorts <- MCFirstPorts
  Ops <- MCOps
  Quota = 3
  NoMsg = NoMsg
  NoOwner = NoOwner
SPECIFICATION Spec
INVARIANT NoLostWakeup
CHECK_DEADLOCK FALSE
