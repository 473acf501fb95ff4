SPECIFICATION Spec
CONSTANTS
  OuterFixMax = 3
  Faulty = {"mongo"}
  MaxFaults = 2
  Shutdowns = FALSE
  MaxAttempts = 1
  RecursionLimit = 25
INVARIANTS EveryStepHasRow
CHECK_DEADLOCK FALSE
