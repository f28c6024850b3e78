CONSTANTS
  Clients = {c1, c2, c3}
  Workers = {w1, w2}
  Backlog = 1
  Sentinel = none
  MaxRequests = 2
SPECIFICATION Spec
INVARIANTS
  TypeOK
  PoolMatchesSentinels
  OneOwner
  OneAnswerEach
  CountedOnce
SYMMETRY ClientsAndWorkers
