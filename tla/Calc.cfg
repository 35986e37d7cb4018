SPECIFICATION FairSpec
CONSTANTS
  MaxSeed = 4
  MaxBlocks = 4
  ChanCap = 4
  ResultCap = 5
  Restarted = FALSE
INVARIANTS
  TypeOK
  ChannelsAgree
PROPERTIES
  SeedAdvances
  SeedTaken
