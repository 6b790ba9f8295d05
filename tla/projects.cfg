\* Two local sessions of one kind and one of a peer, two conversations, one of them in a new
\* directory.
SPECIFICATION Spec
CONSTANTS
  a = a
  b = b
  p = p
  f1 = f1
  f2 = f2
  d1 = d1
  d2 = d2
  Sids = {a, b, p}
  Convs = {f1, f2}
  Dirs = {d1, d2}
  At <- MCAtOf
  ConvOf <- MCConvOf
  KindOf <- MCKindOf
  BaseOf <- MCBaseOf
  DirOf <- MCDirOf
  Listing <- MCListing
  OldDirs = {d1}
  Seed <- MCSeed
  Requests <- MCRequests
  MaxChanges = 3
  MaxEvents = 3
  MaxMixed = 1
  MaxStops = 1
INVARIANTS IndexFollowsDisk   LiveIsListed
CHECK_DEADLOCK FALSE
