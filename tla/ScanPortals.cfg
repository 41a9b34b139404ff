SPECIFICATION FairSpec
CONSTANTS
  p1 = p1
  p2 = p2
  t1 = t1
  NoPortal = NoPortal
  Orphan = Orphan
  Portals <- MCPortals
  Tables <- MCTables
  Rows = 3
  MaxChunk = 2
  MaxSub = 1
  MaxHold = 1
INVARIANTS
  TypeOK
  HoldoffBalanced
  RowsInOrder
  RangedReadsContained
  FailedScanIsClean
  RelationsBelongToTransaction
PROPERTY
  CancelStopsQuery
