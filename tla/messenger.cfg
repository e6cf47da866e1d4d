SPECIFICATION FairSpec
CONSTANTS
  Objects = {o1, o2}
  Events = {e1}
  Threads = {t1}
  MaxAccepts = 3
  MaxSends = 2
  MaxRaises = 1
INVARIANTS TablesAgree OnceOnly NotMissed OrderKept TaskForQueue
PROPERTIES NotChosenOnceEnded Delivered
CHECK_DEADLOCK FALSE
