SPECIFICATION StructuresSpec
CONSTANTS
  Ops = {1}
  MaxSeq = 3
  MaxFiles = 4
  SegRecs = 2
  SyncModes = {TRUE, FALSE}
  Keys = {k1, k2}
  Values = {0, 2}
  ItemIds = {"x", "y", "z"}
  ItemLists <- SomeLists
  Readers = {r1}
  MaxMemory = 11
  BatchSize = 1
  MaxTracked = 2
  MaxInserts = 3
  Ids = {1}
  Saves = {"save"}
  Children = {"child"}
  MaxInodes = 2
  Base = 4
  Commands <- SomeCommands
  Setters = {s1, s2}
INVARIANTS TypeOK AckedOnDisk AckedReplayable OwedBelowNext RefusalExplained IndexConsistent AckedSnapshotSurvives AcceptedIsWhole CodecRoundTrip ReportedInForce
PROPERTIES ImplementsResultCache
CHECK_DEADLOCK FALSE
