SPECIFICATION Spec
CONSTANTS
  r1 = r1
  r2 = r2
  w1 = w1
  w2 = w2
  w3 = w3
  Run = {r1, r2}
  Writer = {w1, w2, w3}
  RunOf <- MCRunOf
  followed = r1
  Overlap = TRUE
  DbFaults = FALSE
  MaxEvents <- MCMaxEvents
  Limit = 2
INVARIANT NothingMissed
CHECK_DEADLOCK FALSE
