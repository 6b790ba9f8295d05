\* A script, its runner, and the scanner's registration that races with it.
SPECIFICATION MCSpec
CONSTANTS
  e1 = e1
  e2 = e2
  Sid = Sid
  Runner = Runner
  Scan = Scan
  User = User
  None = None
  Absent = Absent
  Ids = {Sid}
  Entries = {e1, e2}
  Callers <- MCCallers
  MaxTurns = 2
  MaxTries = 2
  MaxBox = 1
  MaxFeed = 1
INVARIANTS ActiveIsRunning NoOrphan  NoEarlyIdle
PROPERTIES ReplacedStayReplaced WaitEnds
CHECK_DEADLOCK FALSE
