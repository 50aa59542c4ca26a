SPECIFICATION Spec
CONSTANTS
    NumOriginals = 2
    NumCalls = 4
    Tools = {"scale", "note"}
    Registered = {"scale", "note"}
    NeedsApproval = {"scale"}
    Probeable = {"scale"}
    Args = {"a1", "a2", "a3"}
    Scopes = {"once", "session"}
    Effect <- EffectFor
    Permitted <- PermitTwo
    Tamper <- TamperSome
    Dedup = TRUE
    Outbox = TRUE
    MaxCrashes = 1
CHECK_DEADLOCK FALSE
INVARIANTS
    EffectsArePermitted
    EffectsWereApproved
    LogInvariantsHold
    StatusIsFresh
