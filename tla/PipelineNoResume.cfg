SPECIFICATION Spec
CONSTANTS
  OuterFixMax = 3
  Faulty = {}
  MaxFaults = 1
  Shutdowns = TRUE
  MaxAttempts = 2
  RecursionLimit = 25
INVARIANTS StepsNotRepeated
CHECK_DEADLOCK FALSE
