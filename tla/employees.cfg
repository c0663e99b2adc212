\* Three requests and one employee there already, a unique and a plain column.
CONSTANTS
    Request = {r1, r2, r3}
    Seed = {e}
    Column = {"email", "names"}
    Unique = {"email"}
    Value = {v1, v2}
    Null = Null
    Absent = Absent
    Patch <- MCPatch
    Faults = {"database"}
SYMMETRY Symmetry
SPECIFICATION Spec
INVARIANTS
    TypeOK
    UpdatesStand
    RemovedStaysRemoved
    RemovedOnce
    MissingHasCause
PROPERTIES
    ConflictIsAboutTheDto
    OnlyNamedColumnsChange
CHECK_DEADLOCK FALSE
