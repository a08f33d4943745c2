SPECIFICATION Spec
CONSTANTS
    Reqs = {q1, q2, q3}
    Limit = 1
    Window = 2
    Rnds = {1, 2}
    MaxClock = 3
SYMMETRY MCSymmetry
INVARIANTS
    RecentBound
    DeniedForCause
CHECK_DEADLOCK FALSE
