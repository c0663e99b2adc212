\* Two registrations, no faults.
CONSTANTS
    Request = {r1, r2}
    User = {u1}
    ResetTtl = 0
    MaxClock = 1
    None = None
    Faults = {}
SYMMETRY Symmetry
SPECIFICATION Spec
CHECK_DEADLOCK FALSE
INVARIANT RegisterAnswers
