SPECIFICATION Spec
CONSTANTS
  Items = {1, 2, 3}
  HalfLife = 2
  Offers <- SomeOffers
  Configs <- SomeConfigs
  BufferSize = 2
  MaxContexts = 1
  Window = 1
  CacheSize = 2
  MaxOffers = 3
  MaxClock = 3
  MaxSaves = 1
  MaxRestarts = 1
  MaxMaintenance = 1
  Ids = {a, b, c}
  Kinds <- BothKinds
  IncludeVectors = TRUE
  TrainThreshold = 2
  SealThreshold = 1
  CompactMin = 2
  CompactDen = 2
  SampleSize = 1
  MaxOps = 4
  Requests = {g1, g2}
  MaxRecords = 1
SYMMETRY Symmetry
INVARIANTS TypeOK Symmetric StreamingEqualsBatch NeighbourLimit ReplayExact StoreMatchesWrites AnswersCurrent AnswersComplete SavesArePointInTime FailStopHolds
CHECK_DEADLOCK FALSE
