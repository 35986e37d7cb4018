SPECIFICATION FairSpec
CONSTANTS
  a = a
  b = b
  Node = {a, b}
  GenesisNode = {a}
  Skew <- AheadSkew
  availableThreshold = 2
  confirmThreshold = 2
  SendCap = 1
  RecvCap = 1
  StatusTicks <- FewTicks
  MaxOpen = 2
INVARIANTS
  TypeOK
  ClockAgrees
PROPERTIES
  RequestsServed
  StopNoticed
CHECK_DEADLOCK FALSE
