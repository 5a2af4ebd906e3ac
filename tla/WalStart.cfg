CONSTANTS
  Ops = {1}
  MaxSeq = 3
  MaxFiles = 4
  SegRecs = 2
  SyncModes = {TRUE, FALSE}
SPECIFICATION Spec
INVARIANTS AlwaysStarts
CHECK_DEADLOCK FALSE
