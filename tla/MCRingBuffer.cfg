CONSTANTS
  Capacity = 3
  MaxPuts = 5
  a = a
  b = b
  patient = patient
  timed = timed
  NoItem = NoItem
  Items <- MCItems
  Consumers <- MCConsumers
  Timed <- MCTimed
  BatchSizes <- MCBatchSizes

SPECIFICATION Spec

INVARIANTS
  TypeOK
  RingShape
  NeverAllAsleep

PROPERTIES
  ImplementsLossyQueue
  CloseReleases
