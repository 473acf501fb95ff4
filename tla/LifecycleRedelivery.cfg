SPECIFICATION Spec
CONSTANTS
  w1 = w1
  w2 = w2
  Worker = {w1, w2}
  NoWorker = NoWorker
  HasRedis = TRUE
  RedisFaults = TRUE
  RowFaults = TRUE
  LogFaults = FALSE
  LostCancels = TRUE
  BlockedLoop = TRUE
  Shutdowns = TRUE
  Redelivery = TRUE
INVARIANTS RowCoherent CancelledOnlyIfAsked EventsBracketed
SYMMETRY Symmetry
CHECK_DEADLOCK FALSE
