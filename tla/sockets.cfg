SPECIFICATION FairSpec
CONSTANTS
  Lengths <- ThreeFrames
  MacLen = 2
  Wrap = 16
  MaxRetries = 10
INVARIANTS TypeOK OnlyAnEndFails
PROPERTIES RecvReturnsAtLast
CHECK_DEADLOCK FALSE
