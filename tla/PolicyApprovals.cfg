SPECIFICATION ScenarioSpec
SYMMETRY CallSymmetry
CONSTANTS
    c1 = c1
    c2 = c2
    Actors = {"s", "a", "o"}
    Role <- RoleOf
    Sims = {"risky", "mild"}
    Class <- ClassOf
    Keys = {"first", "second", "plain"}
    SimOf <- SimOfKey
    By <- Requester
    Calls = {c1, c2}
    Overlap = {TRUE, FALSE}
    PendingLimit = 1
    MaxCalls = 5
    OverlappingCalls = 3
    MaxCrashes = 1
    MaxDeactivations = 1
INVARIANTS TypeOK FourEyes ApprovedWasApplied SerialAppliedOnce SerialChangesRecorded
CHECK_DEADLOCK FALSE
