\* Two jobs, the two workers of the process, every transport and fault;
\* Redis fails calls about the first job only.
CONSTANTS
    Job = {j1, j2}
    Worker = {w1, w2}
    Attempts = 2
    MaxStalled = 1
    Modes = {"console", "smtp", "ethereal"}
    NoJob = NoJob
    Fragile = {j1}
    Faults = {"smtp", "crash"}
SPECIFICATION FairSpec
INVARIANTS
    TypeOK
    EndsAreEarned
    DuplicatesHaveCause
    OneTransporterPerWorker
PROPERTIES
    EndedStaysEnded
    EveryJobEnds
CHECK_DEADLOCK FALSE
