SPECIFICATION ScenarioSpec
CONSTANTS
  k1 = k1
  k2 = k2
  k3 = k3
  k4 = k4
  k5 = k5
  k6 = k6
  i1 = i1
  i2 = i2
  i3 = i3
  i4 = i4
  r1 = r1
  r2 = r2
  r3 = r3
  Rows = {i1, i2, i3, i4}
  Keys = {k1, k2, k3, k4, k5, k6}
  KindOf <- MCActions
  Previewers = {r1, r3}
  Submitters = {r1, r2}
  Cancellers = {r1, r2, r3}
  OpenQty = 2
  ReverseSizes = {3}
  PricesFromRedis = TRUE
INVARIANTS TypeOK SubmitOnce ReleasedWasExecuted SerialOneExecutionPerKey SerialBooksAgree
PROPERTIES SerialTerminalIsFinal
CHECK_DEADLOCK FALSE
