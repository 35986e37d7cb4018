SPECIFICATION FairSpec
CONSTANTS
  MaxSeed = 2
  MaxBlocks = 2
  ChanCap = 4
  ResultCap = 4
  Restarted = TRUE
PROPERTIES
  ComputationStarts
