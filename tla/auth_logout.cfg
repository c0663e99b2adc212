\* A registration, a refresh and a logout, no faults.
CONSTANTS
    Request = {r1, r2, r3}
    User = {u1}
    ResetTtl = 0
    MaxClock = 1
    None = None
    Faults = {}
SYMMETRY Symmetry
SPECIFICATION Spec
CHECK_DEADLOCK FALSE
INVARIANT LogoutInvalidates
