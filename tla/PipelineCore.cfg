SPECIFICATION Spec
CONSTANTS
  OuterFixMax = 3
  Faulty = {"handler", "mongo", "rows", "events"}
  MaxFaults = 2
  Shutdowns = TRUE
  MaxAttempts = 2
  RecursionLimit = 25
INVARIANT VerdictSound
INVARIANT StepsReported
INVARIANT RecordsAgree
INVARIANT CallsKeptUnlessAnswered
INVARIANT FailsOnlyOnFault
CHECK_DEADLOCK FALSE
