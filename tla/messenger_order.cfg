SPECIFICATION Spec
CONSTANTS
  Objects = {o1, o2}
  Events = {e1}
  Threads = {t1, t2}
  MaxAccepts = 2
  MaxSends = 2
  MaxRaises = 0
SYMMETRY Symmetry
INVARIANT HeardInOrder
CHECK_DEADLOCK FALSE
