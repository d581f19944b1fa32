\* Idempotency: three requests with two keys, two of whose clients go away.
\* Admission: four parties for three places, and three codes.  Platform: two
\* jobs, each with two ticks at a time, and more actions than the log keeps.
SPECIFICATION RequestsSpec
CONSTANTS
  r1 = r1
  r2 = r2
  r3 = r3
  k1 = k1
  k2 = k2
  p1 = p1
  p2 = p2
  p3 = p3
  p4 = p4
  x1 = x1
  x2 = x2
  x3 = x3
  dca = dca
  compound = compound
  fee = fee
  Requests = {r1, r2, r3}
  Keys = {k1, k2}
  None = None
  Unavailable = Unavailable
  MaxCloses = 2
  Parties = {p1, p2, p3, p4}
  Codes = {x1, x2, x3}
  MaxUsers = 3
  MaxInvites = 2
  MaxRestarts = 1
  Jobs = {dca, compound}
  DcaJob = dca
  Slots = {1, 2}
  Settings = {fee}
  Values = {1, 2}
  DefaultValue = 1
  MaxAudit = 3
  MaxActions = 5
INVARIANTS
  TypesOK
  OneRunPerClient
  LocksCanBeReleased
  RecordsExplainState
PROPERTIES
  ResponsesAreStable
  WaitsEnd
  PauseBringsRest
CHECK_DEADLOCK FALSE
