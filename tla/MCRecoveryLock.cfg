CONSTANTS
  Ops = {1, 2}
  MaxSeq = 3
  MaxFiles = 4
  SegRecs = 1
  SyncModes = {TRUE}
  ManualPaths = {"s1"}
  AutoPaths = {"auto1"}
  Modes = {"lock"}
  Loads = TRUE
  Overwrites = TRUE
  Retain = 1
  MaxStarts = 3
SPECIFICATION Spec
INVARIANTS TypeOK StartsUnlessGap
PROPERTIES RecoversExactly
CHECK_DEADLOCK FALSE
