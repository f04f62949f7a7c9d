SPECIFICATION ScenarioSpec
SYMMETRY Swaps
CONSTANTS
  p1 = p1
  p2 = p2
  s1 = s1
  s2 = s2
  Free = Free
  NoSchedule = NoSchedule
  Procs = {p1, p2}
  Schedules = {s1, s2}
  Period = 5
  ClaimTTL = 1
  StaleAfter = 2
  LockTTL = 1
  ConfiguredRetry = 1
  MaxTime = 10
  MaxCrashes = 1
  MaxFailures = 1
  MaxLost = 1
INVARIANTS TypeOK  
CHECK_DEADLOCK FALSE
