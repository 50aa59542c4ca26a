SPECIFICATION Spec
CONSTANTS
    NumOriginals = 2
    NumCalls = 2
    Tools = {"look"}
    Registered = {"look"}
    NeedsApproval = {}
    Probeable = {}
    Args = {"a1"}
    Scopes = {"once"}
    Effect <- EffectFor
    Permitted <- PermitAll
    Tamper <- NoTamper
    Dedup = TRUE
    Outbox = TRUE
    MaxCrashes = 1
    MaxBatch = 1
    MaxSteps = 2
    Limit = 3
    Costs = {1, 2}
    Keep = 0
    HasCompactor = TRUE
CHECK_DEADLOCK FALSE
INVARIANTS
    BudgetStopIsRecorded
