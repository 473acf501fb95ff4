SPECIFICATION HangSpec
CONSTANTS
  w1 = w1
  w2 = w2
  Worker = {w1, w2}
  NoWorker = NoWorker
  HasRedis = TRUE
  RedisFaults = FALSE
  RowFaults = FALSE
  LogFaults = TRUE
  LostCancels = FALSE
  BlockedLoop = FALSE
  Shutdowns = TRUE
  Redelivery = FALSE
INVARIANTS FinishedEventMatchesRow SessionTracksRun
PROPERTIES StatusFollowsFSM StopEndsRun RunEnds
CHECK_DEADLOCK FALSE
