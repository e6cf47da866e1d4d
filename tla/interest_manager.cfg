SPECIFICATION FairSpec
CONSTANTS
  Places = {p1}
  Callbacks = {cb1}
  MaxHandle = 1
  Frames = 2
  MaxCalls = 3
  MaxLosses = 1
INVARIANTS CountAgrees AnswerComing ServerFollows EventsOnce
PROPERTIES EventMeansServed Settles CallbacksMade
CHECK_DEADLOCK FALSE
