SPECIFICATION FairSpec
CONSTANTS
  Clients = {c1, c2}
  Server = server
  KeyLen = 32
  BlockLen = 32
  Unfilled = Unfilled
INVARIANTS TypeOK KeysAgree OnlyAnEndThrows
PROPERTIES HandshakesEnd
CHECK_DEADLOCK FALSE
