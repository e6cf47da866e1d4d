SPECIFICATION FairSpec
CONSTANTS
  Names <- MCNames
  Allowed <- MCAllowed
  MaxCalls = 4
  MaxErrors = 1
INVARIANTS QueueWatched InOrder FutureMeansDone
PROPERTIES EveryCallDone
CHECK_DEADLOCK FALSE
