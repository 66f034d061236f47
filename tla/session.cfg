SPECIFICATION FairSpec
CONSTANTS
  Sessions = {"s1", "s2"}
  PeerOf <- TwoPeers
  Version <- SameVersion
  Files <- OneFileEach
  After <- NoRestart
  Careless = {"s1", "s2"}
  Rfc = {1, 2}
  None = None
INVARIANTS TypeOK FramesMatch ConnectedIsListed QuittersEndNoServer
PROPERTIES RequestsAnswered QuitForgets
CHECK_DEADLOCK FALSE
