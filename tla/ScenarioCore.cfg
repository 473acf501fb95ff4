SPECIFICATION ScenarioSpec
CONSTANTS
  n1 = n1
  n2 = n2
  nowhere = nowhere
  Suites <- MCSuites
  Node = {n1, n2}
  TemplateOf <- MCTemplateOf
  Engines <- MCEngines
  OutputOf <- MCOutputOf
  Raw <- MCRaw
  Provider = "claude"
  NotJson <- NoText
  MaxIter = 2
  CallLimit = 2
  MaxAttempts = 2
  Equal <- DeepEqual
  Differences <- DiffReport
INVARIANT EveryCallAnswered
INVARIANT TraceSound
INVARIANT ComparisonSound
PROPERTY HandlerEnds
CHECK_DEADLOCK FALSE
