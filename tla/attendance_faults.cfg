\* Three requests, two employees, two days, every fault.
CONSTANTS
    Request = {r1, r2, r3}
    Employee = {1, 2}
    Instant <- MCInstant
    DayLength = 4
    UtcOffset = 2
    TicksPerSecond = 2
    NoTime = NoTime
    NoCall = NoCall
    Faults = {"database", "redis", "crash"}
SYMMETRY Symmetry
SPECIFICATION Spec
INVARIANTS
    TypeOK
    OneRecordPerDay
    TableMatchesRecords
    ConflictHasCause
    AnswerMatchesRecord
    NotifiedOnlyIfRecorded
    NoOrphans
PROPERTIES
    DecisionStable
