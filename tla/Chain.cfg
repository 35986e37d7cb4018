SPECIFICATION FairSpec
CONSTANTS
  Nil = Nil
  g = g
  h = h
  a1 = a1
  a2 = a2
  b1 = b1
  Block <- TreeBlock
  Prev <- TreePrev
  Height <- TreeHeight
  Tasks <- TreeTasks
  Offers <- FaultOffers
  MaxHeight = 2
  BufferChanCap = 1
  TaskChanCap = 1
  CacheCap = 2
  MaxCrashes = 1
  MaxReads = 1
INVARIANTS
  TypeOK
  TasksOrdered
PROPERTIES
  PoppedDecided
  ImplementsLedger
CHECK_DEADLOCK FALSE
