\* Reading the logs fails half way after a restart.
SPECIFICATION Spec
CONSTANTS
  s1 = s1
  s2 = s2
  t1 = t1
  t2 = t2
  Schedules = {s1, s2}
  Ticks = {t1}
  Intervals = {1}
  LockTtl = 1
  SwapAttempts <- OneAttempt
  MockModes <- AllReal
  MaxTime = 2
  MaxExecutions = 2
  MaxEnvSteps = 1
PROPERTY
  PartialHydrationIsNotKept
CHECK_DEADLOCK FALSE
