SPECIFICATION Spec
CONSTANTS
  OuterFixMax = 3
  Faulty = {"mongo"}
  MaxFaults = 1
  Shutdowns = FALSE
  MaxAttempts = 1
  RecursionLimit = 25
INVARIANTS LlmCallsKept
CHECK_DEADLOCK FALSE
