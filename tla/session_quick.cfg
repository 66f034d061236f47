SPECIFICATION Spec
CONSTANTS
  Sessions = {"s1", "s1b"}
  PeerOf <- RestartedPeers
  Version <- RestartedVersions
  Files <- RestartedFiles
  After <- RestartAfter
  Careless = {}
  Rfc = {1, 2}
  None = None
INVARIANTS ConnectedIsListed
CHECK_DEADLOCK FALSE
