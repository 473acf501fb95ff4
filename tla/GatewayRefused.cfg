SPECIFICATION Spec
CONSTANTS
  r1 = r1
  r2 = r2
  r3 = r3
  Task = {r1, r2, r3}
  Background = Background
  MaxConcurrency = 2
  LlmTools = TRUE
INVARIANT NeverRefused
SYMMETRY Symmetry
CHECK_DEADLOCK FALSE
