\* Four employees on pages of one or two, three dates, four changes.
CONSTANTS
    Employee = {e1, e2, e3, e4}
    Day = {2, 3, 4}
    NoDay = NoDay
    Limits = {1, 2}
    Zones = {"behind", "utc", "ahead"}
    Clock = 4
    Changes = 4
SPECIFICATION Spec
SYMMETRY Symmetry
INVARIANTS
    TypeOK
    ReportShowsOneMoment
    ScanListsTheSteady

    
CHECK_DEADLOCK FALSE
