SPECIFICATION FairSpec
CONSTANTS
  Places = {p1}
  Callbacks = {}
  MaxHandle = 1
  Frames = 2
  MaxCalls = 2
  MaxLosses = 0
PROPERTIES WatcherReports
CHECK_DEADLOCK FALSE
