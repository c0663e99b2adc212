\* One check, for checks share nothing; four changes of the servers.
CONSTANTS
    Null = Null
    Rows = Rows
    Employee = Employee
    Pdf = Pdf
    Check = {c1}
    MaxRetriesPerRequest = 1
    Outcomes <- MCOutcomes
    Outages = 4
SPECIFICATION FairSpec
INVARIANTS
    TypeOK
    AnswersHaveCause
PROPERTIES
    ChecksEnd
CHECK_DEADLOCK FALSE
