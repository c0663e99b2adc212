\* Two check-ins of two employees, no faults.
CONSTANTS
    Request = {r1, r2}
    Employee = {1, 2}
    Instant = {1}
    DayLength = 4
    UtcOffset = 2
    TicksPerSecond = 2
    NoTime = NoTime
    NoCall = NoCall
    Faults = {}
SPECIFICATION Spec
INVARIANT OnlyDocumentedStatuses
