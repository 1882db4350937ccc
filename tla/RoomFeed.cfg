SPECIFICATION Spec
CONSTANTS
    Rooms = {r1}
    MaxOpens = 3
    UserOpens = 2
    MaxChanges = 2
    None = None
INVARIANTS
    TypeOK
    InStep
    DriftOwed
PROPERTIES
    DriftHeals
CHECK_DEADLOCK FALSE
