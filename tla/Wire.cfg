SPECIFICATION WireSpec
CONSTANTS
  Garbage = Garbage
  CurveOrder = 13
  ConsensusFloor = 400
  Requests <- MCRequests
  Genesis <- MCGenesis
  NodeKey = 7
  Contract <- MCContract
  Seeds = {3, 6}
  Proof <- MCProof
  Randoms = {9}
  udpBufferSize = 400
  MaxMade = 2
  MaxBlocks = 2
INVARIANTS
  RoundTrip
  ServedAsSigned
  
  MerkleFirstHalf
CHECK_DEADLOCK FALSE
