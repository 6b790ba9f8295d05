\* One runner that may crash, be killed or be dismissed, or be restarted, also by two, while the scanner runs.
SPECIFICATION MCSpec
CONSTANTS
  r1 = r1
  r2 = r2
  r3 = r3
  e1 = e1
  e2 = e2
  e3 = e3
  None = None
  Sid = Sid
  Scan = Scan
  User = User
  Ids = {Sid}
  Callers <- MCCallers
  First = r1
  Runners = {r1, r2, r3}
  Entries = {e1, e2}
  Ops = {"restart", "kill", "resume", "dismiss"}
  MaxRequests = 2
  MayCrash = TRUE
  SlowMeta = TRUE
INVARIANTS RestartKeepsId
PROPERTIES DeadIsNoticed LiveIsFollowedWhenCalm
