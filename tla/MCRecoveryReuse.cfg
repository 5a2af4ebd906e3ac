CONSTANTS
  Ops = {1, 2}
  MaxSeq = 3
  MaxFiles = 4
  SegRecs = 1
  SyncModes = {TRUE}
  ManualPaths = {"s1"}
  AutoPaths = {}
  Modes = {"lock"}
  Loads = FALSE
  Overwrites = FALSE
  Retain = 1
  MaxStarts = 4
SPECIFICATION Spec
PROPERTIES NothingLost
CHECK_DEADLOCK FALSE
