SPECIFICATION ScenarioSpec
CONSTANTS
  i1 = i1
  i3 = i3
  h1 = h1
  h2 = h2
  i2 = i2
  Intents = {i1, i2, i3}
  Hashes = {h1, h2}
  HashOf <- MCHashOf
  Workers = {w1}
  MaxRetry = 2
  ReleaseLimit = 1
  OperatorActs = {"quarantine", "rows", "finalize"}
  MaxOps = 2
  MaxToggles = 1
  MaxCrashes = 2
INVARIANTS TypeOK ProcessedHadEffect OneFinalRow LossBounded OneExecutionPerDecision
CHECK_DEADLOCK FALSE
