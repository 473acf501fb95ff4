CONSTANTS
  Process = {p, q}
  Run = {r}
  Worker = {a, b}
  None = none
  MaxOutages = 1
SPECIFICATION Spec
PROPERTY RejoinsAlways
