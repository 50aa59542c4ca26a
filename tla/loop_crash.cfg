SPECIFICATION FairSpec
CONSTANTS
    NumOriginals = 2
    NumCalls = 2
    Tools = {"scale", "direct"}
    Registered = {"scale", "direct"}
    NeedsApproval = {"scale"}
    Probeable = {"scale"}
    Args = {"a1"}
    Scopes = {"once"}
    Effect <- EffectFor
    Permitted <- PermitAll
    Tamper <- NoTamper
    Dedup = TRUE
    Outbox = TRUE
    MaxCrashes = 1
    MaxBatch = 2
    MaxSteps = 2
    Limit = 9
    Costs = {1}
    Keep = 0
    HasCompactor = FALSE
CHECK_DEADLOCK FALSE
INVARIANTS
    OracleFindsNothing
    NoOpenCallWhenAsked
    CheckpointsAreAtBoundaries
    CompletedTasksAreConcluded
PROPERTIES
    KeepsPromise
    EveryCallConcludes
