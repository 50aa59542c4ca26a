SPECIFICATION Spec
CONSTANTS
    Branches = {b1, b2, b3}
    Runs = {r1}
    NumEvents = 4
    Parents = {0, 2}
    MaxFaults = 1
    Bodies = {x}
    Altered = altered
    NoBranch = NoBranch
    Faults = {"edit", "delete", "copy"}
SYMMETRY Symmetry
CHECK_DEADLOCK FALSE
INVARIANTS
    OwnWritesPassAudit
    AuditNoticesChanges
PROPERTIES
    KeepsTree
