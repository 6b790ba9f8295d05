\* A wait for an agent that has ended its turn.
SPECIFICATION MCSpec
CONSTANTS
  e1 = e1
  e2 = e2
  Sid = Sid
  Runner = Runner
  Scan = Scan
  User = User
  None = None
  Absent = Absent
  Ids = {Sid}
  Entries = {e1, e2}
  Callers <- MCCallers
  MaxTurns = 2
  MaxTries = 2
  MaxBox = 1
  MaxFeed = 1
PROPERTIES
  IdleIsAnswered
CHECK_DEADLOCK FALSE
