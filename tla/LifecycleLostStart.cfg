SPECIFICATION Spec
CONSTANTS
  w1 = w1
  w2 = w2
  Worker = {w1, w2}
  NoWorker = NoWorker
  HasRedis = TRUE
  RedisFaults = FALSE
  RowFaults = TRUE
  LogFaults = TRUE
  LostCancels = FALSE
  BlockedLoop = FALSE
  Shutdowns = FALSE
  Redelivery = FALSE
PROPERTY EndsOnlyFromRunning
CHECK_DEADLOCK FALSE
