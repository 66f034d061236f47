SPECIFICATION FairSpec
CONSTANTS
  Handlers = {"h1", "h2", "h3"}
  PeerOf <- SharedPeers
  Rfc = {1, 2}
  None = None
INVARIANTS TypeOK Protected NoDuplicates SortedAtRest QueryIsSnapshot NoGhosts HoldersRegistered AckedIsListed
CHECK_DEADLOCK FALSE
PROPERTIES CallsReturn ImplementsService
