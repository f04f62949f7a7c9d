SPECIFICATION FreshSpec
CONSTANTS
  Free = Free
  NoSchedule = NoSchedule
  Procs = {p1}
  Schedules = {s1}
  Period = 3
  ClaimTTL = 1
  StaleAfter = 2
  LockTTL = 1
  ConfiguredRetry = 1
  MaxTime = 9
  MaxCrashes = 0
  MaxFailures = 0
  MaxLost = 0
INVARIANT HealthyStaysEnabled
CHECK_DEADLOCK FALSE
