SPECIFICATION AloneFairSpec
CONSTANTS
  j1 = j1
  j3 = j3
  j2 = j2
  k1 = k1
  k2 = k2
  u1 = u1
  w1 = w1
  Jobs = {j1, j2}
  NoJobId = NoJobId
  Keys <- MCKeys
  KeyOf <- MCKeyOf
  DefaultKeyed = {j1, j2}
  Users = {u1}
  UserOf <- MCUserOf
  SizeOf <- MCSizeOf
  NotionalCap = 2
  Workers = {w1}
  Runners = {}
  Direct = {}
  Reconcilers = {}
  MaxRetry = 2
  MaxAttempts = 2
  Reported = {"NEW", "FILLED"}
  FailThreshold = 2
  MaxCrashes = 0
  MaxToggles = 2
PROPERTIES QueueDrains PickedUpResolves
CHECK_DEADLOCK FALSE
