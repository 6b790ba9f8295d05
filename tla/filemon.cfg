SPECIFICATION MonitorSpec
CONSTANTS
  Agent = "pi"
  MaxRetries = 1
  Files = {"f1", "f2"}
  Sessions = {"s1", "s2"}
  Owner <- MCOwner
  Delta <- MCDelta
  Written = {"header", "user", "text", "error"}
  MaxWrites = 3
  MaxStarts = 2
  MaxRestarts = 1
INVARIANTS ShowsItsFile NoFileOverlooked RestartKeepsFiles
CHECK_DEADLOCK FALSE
