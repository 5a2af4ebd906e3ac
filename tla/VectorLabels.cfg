CONSTANTS
  Ids = {a, b, c}
  Kinds = {"ivf"}
  IncludeVectors = TRUE
  TrainThreshold = 2
  SealThreshold = 1
  CompactMin = 2
  CompactDen = 2
  SampleSize = 0
  MaxOps = 4
SPECIFICATION VSpec
INVARIANT AnswersMatchStore
CHECK_DEADLOCK FALSE
