SPECIFICATION FairSpec
CONSTANTS
    NumOriginals = 2
    NumCalls = 2
    Tools = {"scale"}
    Registered = {"scale"}
    NeedsApproval = {"scale"}
    Probeable = {"scale"}
    Args = {"a1"}
    Scopes = {"once"}
    Effect <- EffectFor
    Permitted <- PermitAll
    Tamper <- NoTamper
    Dedup = TRUE
    Outbox = TRUE
    MaxCrashes = 1
CHECK_DEADLOCK FALSE
PROPERTIES
    EveryCallConcludes
