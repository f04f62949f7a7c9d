SPECIFICATION Spec
CONSTANTS
  j1 = j1
  j3 = j3
  j2 = j2
  k1 = k1
  k2 = k2
  u1 = u1
  w1 = w1
  Jobs = {j1}
  NoJobId = NoJobId
  Keys <- MCKeys
  KeyOf <- MCKeyOf
  DefaultKeyed = {}
  Users = {u1}
  UserOf <- MCUserOf
  SizeOf <- MCSizeOf
  NotionalCap = 2
  Workers = {w1}
  Runners = {}
  Direct = {}
  Reconcilers = {}
  MaxRetry = 2
  MaxAttempts = 1
  Reported = {"NEW", "FILLED"}
  FailThreshold = 2
  MaxCrashes = 0
  MaxToggles = 0
INVARIANTS IdempotentExecution
CHECK_DEADLOCK FALSE
