SPECIFICATION FairSpec
CONSTANTS
  Kinds = {"encrypted", "plain"}
  Connections = {c1, c2, c3}
  Silent = {c3}
  Vanishing = {c1, c3}
  Closing = {c1}
  Rejected = {c2}
  Descriptors = 2
  None = None
INVARIANTS TypeOK OnlyRacesDangle KeptOnce
PROPERTIES FinishedIsReaped ConnectionIsHandled
CHECK_DEADLOCK FALSE
