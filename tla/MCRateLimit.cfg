SPECIFICATION Spec
CONSTANTS
    Calls = {c1, c2, c3, c4}
    Limit = 2
    Ticks = 2
    MaxWindow = 2
INVARIANTS
    TypeOK
    WindowHolds
    RefusedForCause
SYMMETRY Symmetry
CHECK_DEADLOCK FALSE
