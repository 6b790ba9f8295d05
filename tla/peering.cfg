SPECIFICATION FairSpec
CONSTANTS
  Names = {n1}
  Entries = {e1, e2}
  Callers = {c1}
  Ids = {s1}
  None = None
  MaxChanges = 1
  MaxDrops = 1
  MaxSleeps = 1
INVARIANTS RemovedStaysGone 
PROPERTIES RemovalEnds SessionsArrive
CHECK_DEADLOCK FALSE
