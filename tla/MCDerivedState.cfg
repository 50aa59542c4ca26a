SPECIFICATION Spec
CONSTANTS
    c1 = c1
    c2 = c2
    NoId = NoId
    CallIds <- TwoIds
    Keep = 0
    MaxLen = 5
SYMMETRY SymmetricIds
CHECK_DEADLOCK FALSE
INVARIANTS
    FoldAgreesWithLog
    InvariantsAreExact
    ViewIsPaired
    HistoryIsAppendOnly
    TraceAgreesWithState
