SPECIFICATION Spec
CONSTANTS
  k1 = k1
  k2 = k2
  k3 = k3
  k4 = k4
  k5 = k5
  k6 = k6
  Rows = {i1}
  Keys = {k1, k2, k3, k4, k5, k6}
  KindOf <- MCActions
  Previewers = {r1}
  Submitters = {r1, r2}
  Cancellers = {}
  OpenQty = 2
  ReverseSizes = {3}
  PricesFromRedis = TRUE
INVARIANT OneExecutionPerKey
CHECK_DEADLOCK FALSE
