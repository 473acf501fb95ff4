CONSTANTS
  Process = {p, q}
  Value = {v, w}
  NoRow = none
SPECIFICATION Spec
INVARIANT CacheSound
PROPERTIES Converges
