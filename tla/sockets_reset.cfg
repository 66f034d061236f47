SPECIFICATION Spec
CONSTANTS
  Lengths <- ThreeFrames
  MacLen = 2
  Wrap = 16
  MaxRetries = 10
PROPERTIES RecvFills
CHECK_DEADLOCK FALSE
