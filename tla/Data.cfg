SPECIFICATION FairSpec
CONSTANTS
  None = None
  x = x
  y = y
  c1 = c1
  c2 = c2
  c3 = c3
  m = m
  n = n
  Addr = {x, y}
  Conn = {c1, c2, c3}
  Topic <- MixedTopic
  Tasks <- MixedTasks
  BlockEnd <- MixedEnd
  TaskCap = 1
  PublishCap = 1
  ConnPoolSize = 2
  MaxCrashes = 1
INVARIANTS
  TypeOK
  EntriesFollowChain
  SubscribersServed
PROPERTIES
  ChainStored
CHECK_DEADLOCK FALSE
