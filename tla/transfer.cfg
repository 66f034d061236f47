SPECIFICATION FairSpec
CONSTANTS
  Nodes <- MCNodes
  Fetches <- MCFetches
  By <- MCBy
  Asks <- MCAsks
  Files <- MCFiles
  Others <- MCOthers
  Stale <- MCStale
  Restarting <- MCRestarting
  Quitting <- MCQuitting
  Limits <- MCLimits
  None = None
INVARIANTS TypeOK CopiesArePrefixes HoldersHaveIt SoundFetchesEndNobody
PROPERTIES FetchEnds ImplementsExchange
CHECK_DEADLOCK FALSE
