SPECIFICATION Spec
CONSTANTS
    MaxCommands = 3
    None = None
INVARIANTS TypeOK OneLiveView NewestStays SessionTakesViews SpinnerOwed
PROPERTIES CloseSparesPage
CHECK_DEADLOCK FALSE
