SPECIFICATION ThreadFairSpec
CONSTANTS
  b1 = b1
  b2 = b2
  b3 = b3
  Boots = {b1, b2}
  Archives <- TwoArchives
  Chunks = 2
  MaxRefusals = 1
  MaxCrashes = 1
INVARIANTS
  ThreadTypeOK
  BootsOnWholeFiles
  FailureExplained
  ChainReachesHost
PROPERTIES
  BootEnds
CHECK_DEADLOCK FALSE
