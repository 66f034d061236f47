SPECIFICATION Spec
CONSTANTS
  Kinds = {"encrypted"}
  Connections = {c1, c2, c3}
  Silent = {}
  Vanishing = {}
  Closing = {}
  Rejected = {}
  Descriptors = 2
  None = None
INVARIANTS KeepsListening
CHECK_DEADLOCK FALSE
