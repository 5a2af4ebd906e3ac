CONSTANTS
  Ops = {1, 2}
  MaxSeq = 3
  MaxFiles = 4
  SegRecs = 1
  SyncModes = {TRUE}
  ManualPaths = {}
  AutoPaths = {"auto1"}
  Modes = {"fork"}
  Loads = FALSE
  Overwrites = FALSE
  Retain = 1
  MaxStarts = 2
SPECIFICATION Spec
PROPERTIES NothingLost
CHECK_DEADLOCK FALSE
