SPECIFICATION Spec
CONSTANTS
  Workers = {w1, w2}
  MaxRequests = 3
  MaxPending = 2
  HighWatermark = 2
  LowWatermark = 0
  MaxResponses = 2
  Fds = {"f1", "f2", "f3"}
  Ips = {"ip"}
  MaxConnections = 2
  MaxPerIp = 1
  PoolWorkers = {p1}
  Callers = {"scheduler", "dump", "status"}
  MaxChildren = 3
  TierIds = {1, 2, 3}
  MergeThreshold = 2
  TombstoneNum = 1
  TombstoneDen = 3
  MaxTierOps = 5
  CommandKinds = {"one", "sim", "info", "get", "show", "debugOn", "debugOff"}
  MaxCommands = 3
  MaxItems = 2
  MaxSessions = 2
  RetryCount = 1
INVARIANTS TypeOK AnswersInOrder Accounting ReactorOutlivesUse LogCoversUnsaved TiersHoldTruth AnswersTheCommand
PROPERTIES Answered ClosingEnds StopTerminates ChildrenReaped MergerProgress
CHECK_DEADLOCK FALSE
