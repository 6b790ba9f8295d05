\* Two handlers, a resume and a crash of jumpd.
SPECIFICATION MetaSpec
CONSTANTS
  h1 = h1
  h2 = h2
  Persister = Persister
  Handlers = {h1, h2}
  PersistCap = 1
  MaxRuns = 2
  MaxCrashes = 1
SYMMETRY Alike
INVARIANTS RestartKeeps
 
CHECK_DEADLOCK FALSE
