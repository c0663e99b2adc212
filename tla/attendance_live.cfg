\* Three requests about three employees on one day, so that three inserts may
\* wait for each other; no faults, no symmetry.
CONSTANTS
    Request = {r1, r2, r3}
    Employee = {1, 2, 3}
    Instant = {1}
    DayLength = 4
    UtcOffset = 2
    TicksPerSecond = 2
    NoTime = NoTime
    NoCall = NoCall
    Faults = {}
SPECIFICATION FairSpec
INVARIANT
    WaitsEnd
PROPERTIES
    EveryRequestAnswered
    RecordedIsNotified
