SPECIFICATION ManagerFairSpec
CONSTANTS
  p1 = p1
  p2 = p2
  good = good
  late = late
  forged = forged
  zero = zero
  t1 = t1
  t2 = t2
  Peer = {p1, p2}
  streamLimit = 2
  Block = {good, late, forged, zero}
  Verified = {good, late}
  AtZero = {zero}
  Tx = {t1, t2}
  InboxCap = 2
  BlockQueueCap = 1
  TxQueueCap = 1
  maxKnownBlock = 3
  maxKnownTx = 1
  Plans <- TestPlans
INVARIANTS
  ManagerTypeOK
  TablesAgree
PROPERTIES
  Redialled
  OwnBlockPublished
  BlockHeard
  TransactionSpread
CHECK_DEADLOCK FALSE
