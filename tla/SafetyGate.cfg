SPECIFICATION ScenarioSpec
CONSTANTS
  r1 = r1
  r2 = r2
  r3 = r3
  u1 = u1
  u2 = u2
  u3 = u3
  o = o
  a = a
  b = b
  btc = btc
  eth = eth
  NoIntent = NoIntent
  RIntents = {r1, r2, r3}
  UIntents = {u1, u2, u3}
  Lanes = {a, b}
  Outside = {o}
  Asked <- AskedSizes
  Booked <- BookedSizes
  Worth <- Worths
  MaxSize = 2
  Symbol <- TwoSymbols
  Limits <- InitialLimits
  LimitRequests <- RequestedLimits
  KillContexts <- OrchestratorKill
  Canaries <- BothCanaries
  CapitalPct = 50
  MaxChanges = 3
INVARIANTS TypeOK GateHolds OvershootBounded KillSwitchDrains
CHECK_DEADLOCK FALSE
