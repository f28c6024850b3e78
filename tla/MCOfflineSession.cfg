CONSTANTS
  Octets = 2
  OctetBits = 2
  NumPorts = 4
  MaxStored = 5
  MaxFrames = 3
  Frames <- MCFrames
  OddFrames <- MCOddFrames
  Cuts <- MCCuts
  Queries <- MCQueries
SPECIFICATION Spec
INVARIANTS
  ImportKeepsGoodFrames
  IndexesFindExactly
  AnswersAgree
  LimitKeepsTheTop
