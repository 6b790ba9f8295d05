SPECIFICATION Spec
CONSTANTS
  Sessions = {s1, s2}
  Clients = {c1}
  None = None
  Workspace <- OneWorkspace
  Reports <- SomeReports
  CoalesceAt = 2
  SessionLimit = 1
  WorkspaceLimit = 1
  ChanCap = 2
  MaxIds = 3
  MaxChanges = 2
  MaxMoves = 1
  MaxTime = 1
SYMMETRY Symmetry
INVARIANTS  WorkspaceQuota NothingLingers
PROPERTIES NotWhileViewed
CHECK_DEADLOCK FALSE
