CONSTANTS
  Processes = {p1, p2}
  NumColumns = 2
  RowsPerByte = 1
  MaxRows = 1
  MaxGeneration = 1
SYMMETRY Swap
SPECIFICATION Spec
INVARIANTS
  FreshWhileUnchanged
