CONSTANTS
  N = 3
  MaxGen = 2
  Subjects = {s1}
  Tokens = {t1}
  NoToken = NoToken
SPECIFICATION FairSchedSpec
INVARIANTS QueueMatchesStates
PROPERTIES DispatchIsRight EveryQueuedEntryIsServed
CHECK_DEADLOCK FALSE
