CONSTANTS
  NumColumns = 2
  BatchSize = 2
  MaxRows = 4
  MaxCrashes = 2

SPECIFICATION Spec

INVARIANTS
  TypeOK
  MetaNeverAhead
  OpenedStoreIsWhole
  RoundTrip
