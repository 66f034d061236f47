SPECIFICATION Spec
CONSTANTS
  Nodes <- MCNodes
  Fetches <- CutFetches
  By <- CutBy
  Asks <- CutAsks
  Files <- MCFiles
  Others <- MCOthers
  Stale <- NoneStale
  Restarting <- NoRestart
  Quitting <- MCQuitting
  Limits <- CutLimits
  None = None
PROPERTY ContentIsComplete
CHECK_DEADLOCK FALSE
