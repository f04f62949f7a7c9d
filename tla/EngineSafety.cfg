SPECIFICATION ScenarioSpec
SYMMETRY WorkerSymmetry
CONSTANTS
  j1 = j1
  j2 = j2
  j3 = j3
  d1 = d1
  k1 = k1
  k2 = k2
  u1 = u1
  w1 = w1
  w2 = w2
  g1 = g1
  r1 = r1
  Jobs = {j1, j2, j3, d1}
  NoJobId = NoJobId
  Keys <- MCKeys
  KeyOf <- MCKeyOf
  DefaultKeyed = {}
  Users = {u1}
  UserOf <- MCUserOf
  SizeOf <- MCSizeOf
  NotionalCap = 2
  Workers = {w1, w2}
  Runners = {g1}
  Direct = {d1}
  Reconcilers = {r1}
  MaxRetry = 2
  MaxAttempts = 1
  Reported = {"NEW", "PARTIALLY_FILLED", "FILLED", "CANCELED", "EXPIRED"}
  FailThreshold = 2
  MaxCrashes = 2
  MaxToggles = 2
INVARIANTS TypeOK SingleCustody OneOrderRow RetryBudget PositionBacked BoundedSubmissions OutcomeTruthful OrderRowsTraceable OneExecutionPerKey
PROPERTIES TerminalOrdersFinal
CHECK_DEADLOCK FALSE
