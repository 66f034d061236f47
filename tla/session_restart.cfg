SPECIFICATION FairSpec
CONSTANTS
  Sessions = {"old", "blank", "s1", "s1b"}
  PeerOf <- Restarted
  Version <- OldVersion
  Files <- FileOfFirst
  After <- AfterFirst
  Careless = {"s1"}
  Rfc = {1, 2}
  None = None
INVARIANTS FramesMatch 
PROPERTIES RequestsAnswered
CHECK_DEADLOCK FALSE
