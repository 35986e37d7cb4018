SPECIFICATION FairSpec
CONSTANTS
  Nil = Nil
  g = g
  a1 = a1
  a2 = a2
  a3 = a3
  a4 = a4
  a5 = a5
  b1 = b1
  b2 = b2
  c2 = c2
  c5 = c5
  Base = g
  Block <- RootBlock
  Prev <- RootPrev
  Height <- RootHeight
  Txs <- RootTxs
  Timestamp <- RootTimestamp
  Rejectable <- RootRejectable
  Copies <- RootCopies
  MaxHeight = 5
  MaxBufferSize = 3
  BlockQueueCap = 1
  SecondQueueCap = 5
  PopQueueCap = 1
  KnownCap = 8
  ProcessedCap = 8
INVARIANTS
  TypeOK
  WindowLinked
  WindowBounded
  SelectedIsBest
  SecondQueueHasRoom
PROPERTIES
  ImplementsPopStream
  OrphansResolved
