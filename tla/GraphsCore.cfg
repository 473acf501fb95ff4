SPECIFICATION Spec
CONSTANTS
  a = a
  b = b
  x = x
  Editor = {a, b}
  Edit = {x}
  Verdict <- MCVerdict
  MaxVersions = 3
INVARIANT VersionsLinear
INVARIANT NoUnseenLoss
PROPERTY ChainSpec
PROPERTY SaveAnswered
CHECK_DEADLOCK FALSE
