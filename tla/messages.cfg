SPECIFICATION FairSpec
CONSTANTS
  Sent <- AllKinds
  IntLen = 4
  ShortLen = 2
INVARIANTS TypeOK ArrivesAsSent
PROPERTIES ReadToTheEnd
CHECK_DEADLOCK FALSE
