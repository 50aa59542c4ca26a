SPECIFICATION Spec
CONSTANTS
    NumOriginals = 2
    NumCalls = 2
    Tools = {"scale"}
    Registered = {"scale"}
    NeedsApproval = {"scale"}
    Probeable = {"scale"}
    Args = {"a1"}
    Scopes = {"once"}
    Effect <- EffectFor
    Permitted <- PermitAll
    Tamper <- NoTamper
    Dedup = TRUE
    Outbox = TRUE
    MaxCrashes = 1
    MaxBatch = 2
    MaxSteps = 3
    Limit = 3
    Costs = {1, 2}
    Keep = 0
    HasCompactor = TRUE
ACTION_CONSTRAINT KilledElsewhere
CHECK_DEADLOCK FALSE
INVARIANTS
    ViewIsWhole
    BudgetIsKept
    StatusIsFreshUnlessKilled
