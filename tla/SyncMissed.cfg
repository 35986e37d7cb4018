SPECIFICATION FairSpec
CONSTANTS
  p = p
  q = q
  Peer = {p}
  MaxHeight = 4
  Lag = 1
  StatusCap = 1
  InitEnd <- LoneEnd
  FinalEnd <- LoneGrown
  StartHeight <- Fresh
  MayStop = {}
  MaySetSynced = FALSE
PROPERTIES
  TargetReached
CHECK_DEADLOCK FALSE
