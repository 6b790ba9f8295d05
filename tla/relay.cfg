SPECIFICATION FairSpec
CONSTANTS
  Https = {h1}
  Sockets = {w1}
  Agents = {a1, a2}
  None = None
  MaxBreaks = 1
  MaxData = 1
INVARIANTS NothingLostEarly AgentLeavesNothing
PROPERTIES RelaysRequests BrowserLeavesNothing
CHECK_DEADLOCK FALSE
