CONSTANTS
  Capacity = 3
  FirstBatchSize = 2
  BatchCap = 5
  InitialRows = 1
  MaxPuts = 8

SPECIFICATION Spec

INVARIANTS
  TypeOK
  DropsAccountForLosses
  ArrivalOrder
  IndexNamesTheRow
  JoinMeansStored
  NoDropLoggedTwice

PROPERTY
  JoinReturns
