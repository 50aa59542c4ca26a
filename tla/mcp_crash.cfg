SPECIFICATION Spec
CONSTANTS
    NumOriginals = 2
    NumCalls = 2
    Tools = {"scale", "blind", "note", "look", "ghost"}
    Registered = {"scale", "blind", "note", "look"}
    NeedsApproval = {"scale", "blind"}
    Probeable = {"scale"}
    Args = {"a1"}
    Scopes = {"once"}
    Effect <- EffectFor
    Permitted <- PermitAll
    Tamper <- NoTamper
    Dedup = TRUE
    Outbox = TRUE
    MaxCrashes = 2
CHECK_DEADLOCK FALSE
INVARIANTS
    TypeOK
    EffectAtMostOnce
    ClosedRowHasResult
    WaitingHasNoEffect
PROPERTIES
    ClosedRowsAreFinal
    NoEffectAfterConclusion
    KeepsPromise
