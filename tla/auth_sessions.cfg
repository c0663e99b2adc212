\* Four requests about one user, every fault; requests are sent once, so it ends.
CONSTANTS
    Request = {r1, r2, r3, r4}
    User = {u1}
    ResetTtl = 0
    MaxClock = 1
    None = None
    Faults = {"database", "redis"}
SYMMETRY Symmetry
SPECIFICATION Spec
CHECK_DEADLOCK FALSE
INVARIANTS
    TypeOK
    OneAccountPerEmail
    RefreshReuseOverlaps
    EndedSessionsStayEnded
    ReplacedPasswordsStayDead
    ResetReuseOverlaps
    ResetRefusalHasCause
    RefreshRefusalHasCause
