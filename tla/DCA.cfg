\* One schedule and two ticks, which overlap or not, with a choice of the user
\* or a restart: a buy at 0 is due again at 2.
SPECIFICATION FairSpec
CONSTANTS
  s1 = s1
  s2 = s2
  t1 = t1
  t2 = t2
  Schedules = {s1}
  Ticks = {t1, t2}
  Intervals = {2}
  LockTtl = 1
  SwapAttempts <- OneAttempt
  MockModes <- CantexIsMocked
  MaxTime = 3
  MaxExecutions = 2
  MaxEnvSteps = 1
INVARIANTS
  TypeOK
  ExecutionsAreSound
  AcknowledgedBuysAreSpaced
PROPERTY
  TicksEnd
CHECK_DEADLOCK FALSE
