CONSTANTS
  NumColumns = 2
  ChunkRows = 2
  FirstRows = 2
  MaxRows = 7
  MaxBatch = 2
  Limits = {1, 5}
  Matching <- MCMatching
SPECIFICATION Spec
INVARIANT
  NeverSilentlyStale
