CONSTANTS
  HeaderSize = 5
  Retries = 3
  Timeout = 3
  Fresh = 4
  MaxRows = 2
SPECIFICATION Spec
INVARIANTS
  AnswersAreOwn
  SamplesAreTrue
PROPERTIES
  StatsFollowServer
