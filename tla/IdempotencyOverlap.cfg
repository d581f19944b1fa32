\* Two handlers run for one key.
SPECIFICATION Spec
CONSTANTS
  r1 = r1
  r2 = r2
  r3 = r3
  k1 = k1
  k2 = k2
  Requests = {r1, r2}
  Keys = {k1}
  None = None
  Unavailable = Unavailable
  MaxCloses = 1
INVARIANT
  HandlersDoNotOverlap
CHECK_DEADLOCK FALSE
