SPECIFICATION ConnSpec
CONSTANTS
  Workers = {w1, w2}
  MaxRequests = 2
  MaxPending = 2
  HighWatermark = 2
  LowWatermark = 0
  MaxResponses = 2
PROPERTY PipelinedAnswered
CHECK_DEADLOCK FALSE
