CONSTANTS
  Ops = {1, 2}
  MaxSeq = 2
  MaxFiles = 4
  SegRecs = 1
  SyncModes = {TRUE}
  ManualPaths = {"s1"}
  AutoPaths = {auto1, auto2}
  auto1 = auto1
  auto2 = auto2
  Modes = {"fork"}
  Loads = FALSE
  Overwrites = FALSE
  Retain = 1
  MaxStarts = 2
SYMMETRY AutoSymmetry
SPECIFICATION Spec
PROPERTIES RecoversExactly
CHECK_DEADLOCK FALSE
