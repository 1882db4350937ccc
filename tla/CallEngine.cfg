SPECIFICATION Spec
CONSTANTS
    Rooms = {r1}
    Parties = {d1}
    NoParty = NoParty
    Theirs = {t1}
    MaxOurs = 2
    MaxWaits = 1
    MaxPosted = 1
    None = None
INVARIANTS
    TypeOK
    OverIsOver
    OwnDescription
PROPERTIES
    CallGoesOut
CHECK_DEADLOCK FALSE
