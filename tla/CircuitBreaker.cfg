\* Breaker: three callers, two thresholds above one, overlapping and stale
\* outcomes.  Triggers: two polls that overlap, a failure that degrades the
\* manager, and a change of the owner.  Listing: more contracts than two
\* batches.  Stream: three updates and two breaks of the connection.  Config:
\* two rebalances, and a cap that changes twice.
SPECIFICATION ResilienceSpec
CONSTANTS
  c1 = c1
  c2 = c2
  c3 = c3
  p1 = p1
  k1 = k1
  k2 = k2
  b1 = b1
  x1 = x1
  x2 = x2
  Callers = {c1, c2, c3}
  FailureThreshold = 2
  SuccessThreshold = 2
  ResetTimeout = 2
  MaxFailures = 4
  MaxResets = 1
  Portfolios = {p1}
  Polls = {k1, k2}
  Threshold = 1
  CronFallback = TRUE
  GiveUp = 1
  MaxRefused = 1
  MaxChanges = 1
  BatchSize = 2
  MaxLimit = 6
  MaxContracts = 5
  Clients = {b1}
  MaxUpdates = 3
  MaxBreaks = 2
  Rebalances = {x1, x2}
  Ttl = 2
  MaxCapUpdates = 2
INVARIANTS
  TypesOK
  ProbeIsExclusive
  CountsFitState
  ReadsAreExact
PROPERTIES
  ImplementsGate
  Recovers
  ActsOnWhatItSaw
  DriftIsCorrected
  
CHECK_DEADLOCK FALSE
