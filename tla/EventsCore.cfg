SPECIFICATION FairSpec
CONSTANTS
  r1 = r1
  r2 = r2
  w1 = w1
  w2 = w2
  w3 = w3
  Run = {r1, r2}
  Writer = {w1, w2, w3}
  RunOf <- MCRunOf
  followed = r1
  Overlap = FALSE
  DbFaults = TRUE
  MaxEvents <- MCMaxEvents
  Limit = 2
INVARIANTS NothingMissed BroadcastIsBase
PROPERTY ClientCatchesUp
CHECK_DEADLOCK FALSE
