SPECIFICATION Spec
CONSTANTS
    MaxTasks = 2
    MaxEndpoints = 2
    MaxGen = 4
    MaxSyncs = 2
    MaxFailures = 2
INVARIANTS
    TypeOK
    DebtMinded
    RegisteredIsSo
PROPERTIES
    DebtEnds
CHECK_DEADLOCK FALSE
