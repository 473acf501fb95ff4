SPECIFICATION Spec
CONSTANTS
  w1 = w1
  w2 = w2
  Worker = {w1, w2}
  NoWorker = NoWorker
  HasRedis = TRUE
  RedisFaults = FALSE
  RowFaults = FALSE
  LogFaults = FALSE
  LostCancels = FALSE
  BlockedLoop = TRUE
  Shutdowns = FALSE
  Redelivery = FALSE
INVARIANT SessionTracksRun
CHECK_DEADLOCK FALSE
