SPECIFICATION LogFairSpec
CONSTANTS
  MaxRuns = 2
  MaxCalls = 4
  Room = 2
  Chunk = 2
  MaxFailures = 1
INVARIANTS
  LogTypeOK
  LinesFaithful
  NothingTwice
  OutputNeverNormalAgain
PROPERTIES
  StopReturns
  PumpsEnd
  PiecesRead
CHECK_DEADLOCK FALSE
