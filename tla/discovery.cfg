SPECIFICATION MCSpec
CONSTANTS
  Devices = {d1}
  Containers = {c1}
  Rows = {r1}
  Names = {n1, n2}
  None = None
  MaxChanges = 3
  MaxFaults = 1
INVARIANTS DevicesRemembered TrackedIsManaged
PROPERTIES ContainersArrive
CHECK_DEADLOCK FALSE
