SPECIFICATION FairSpec
CONSTANTS
  p = p
  q = q
  Peer = {p, q}
  MaxHeight = 2
  Lag = 1
  StatusCap = 1
  InitEnd <- AheadEnd
  FinalEnd <- GrownEnd
  StartHeight <- Fresh
  MayStop = {q}
  MaySetSynced = TRUE
INVARIANTS
  TypeOK
  HandedOver
PROPERTIES
  HeightsFetched
CHECK_DEADLOCK FALSE
