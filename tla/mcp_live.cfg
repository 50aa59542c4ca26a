SPECIFICATION FairKilledElsewhere
CONSTANTS
    NumOriginals = 2
    NumCalls = 2
    Tools = {"scale", "note"}
    Registered = {"scale", "note"}
    NeedsApproval = {"scale"}
    Probeable = {"scale"}
    Args = {"a1"}
    Scopes = {"once"}
    Effect <- EffectFor
    Permitted <- PermitAll
    Tamper <- NoTamper
    Dedup = TRUE
    Outbox = TRUE
    MaxCrashes = 2
CHECK_DEADLOCK FALSE
INVARIANTS
    PendingIsDecidable
PROPERTIES
    EveryCallConcludes
