\* A tick that overlaps another executes the schedule the other is executing.
SPECIFICATION Spec
CONSTANTS
  s1 = s1
  s2 = s2
  t1 = t1
  t2 = t2
  Schedules = {s1}
  Ticks = {t1, t2}
  Intervals = {2}
  LockTtl = 1
  SwapAttempts <- OneAttempt
  MockModes <- AllReal
  MaxTime = 4
  MaxExecutions = 2
  MaxEnvSteps = 0
INVARIANT
  NotProcessedConcurrently
CHECK_DEADLOCK FALSE
