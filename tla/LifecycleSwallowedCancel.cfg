SPECIFICATION HangSpec
CONSTANTS
  w1 = w1
  w2 = w2
  Worker = {w1, w2}
  NoWorker = NoWorker
  HasRedis = TRUE
  RedisFaults = FALSE
  RowFaults = FALSE
  LogFaults = FALSE
  LostCancels = TRUE
  BlockedLoop = FALSE
  Shutdowns = FALSE
  Redelivery = FALSE
PROPERTY StopEndsRun
CHECK_DEADLOCK FALSE
