SPECIFICATION AloneFairSpec
CONSTANTS
  i1 = i1
  i3 = i3
  h1 = h1
  h2 = h2
  Intents = {i1, i2}
  Hashes = {h1, h2}
  HashOf <- MCHashOf
  Workers = {w1}
  MaxRetry = 2
  ReleaseLimit = 1
  OperatorActs = {"quarantine", "replay"}
  MaxOps = 1
  MaxToggles = 0
  MaxCrashes = 0
PROPERTY DeliversIntents
CHECK_DEADLOCK FALSE
