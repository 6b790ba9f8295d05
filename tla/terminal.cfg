SPECIFICATION FairSpec
CONSTANTS
  Clients = {c1}
  Interactive = TRUE
  StartCols = 3
  Widths = {3}
  OutCap = 1
  MaxActive = 1
  MaxChunks = 2
  MaxResizes = 1
INVARIANTS NoGapNoRepeat OutputSaved SizesAgree
CHECK_DEADLOCK FALSE
