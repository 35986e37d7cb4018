SPECIFICATION FairSpec
CONSTANTS
  t = t
  u = u
  Tx = {t, u}
  MaxTxPackage = 2
  MaxTxPoolSize = 1
  QueueCap = 2
  KnownCap = 1
  Scenarios <- TwoScenarios
INVARIANTS
  TypeOK
  PackagedOnce
  StoredNotPackaged
PROPERTIES
  TxDecided
