SPECIFICATION FairSpec
CONSTANTS
  x = x
  y = y
  x1 = x1
  y1 = y1
  NoIncident = NoIncident
  Fingerprints = {x, y}
  Incidents = {x1, y1}
  Fingerprint <- RowsOfTwo
  Operators = {"op"}
  Policies <- ThreePolicies
  StartPolicies <- OneAutomatic
  MaxCooldown = 1
  InitLeverage = 2
  MaxRequests = 1
  MaxFailures = 1
  MaxSlips = 1
INVARIANTS TypeOK EntryKept CooldownRespected
PROPERTIES RemediationGoesOn
