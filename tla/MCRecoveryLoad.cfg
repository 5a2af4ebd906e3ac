CONSTANTS
  Ops = {1, 2}
  MaxSeq = 3
  MaxFiles = 4
  SegRecs = 1
  SyncModes = {TRUE}
  ManualPaths = {"s1", "s2"}
  AutoPaths = {}
  Modes = {"lock"}
  Loads = TRUE
  Overwrites = FALSE
  Retain = 1
  MaxStarts = 2
SPECIFICATION Spec
PROPERTIES NothingResurrected
CHECK_DEADLOCK FALSE
