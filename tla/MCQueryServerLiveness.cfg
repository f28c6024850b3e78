CONSTANTS
  Clients = {c1, c2, c3}
  Workers = {w1, w2}
  Backlog = 2
  Sentinel = none
  MaxRequests = 0
SPECIFICATION Spec
PROPERTIES
  AcceptedIsClosed
  StopEndsPool
