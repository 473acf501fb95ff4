SPECIFICATION FairSpec
CONSTANTS
  r1 = r1
  r2 = r2
  r3 = r3
  Task = {r1, r2, r3}
  Background = Background
  MaxConcurrency = 2
  LlmTools = TRUE
INVARIANT PermitsSafe
PROPERTY WaitingEnds
CHECK_DEADLOCK FALSE
