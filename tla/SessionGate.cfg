SPECIFICATION Spec
CONSTANTS
    Keys = {k1, k2}
    NoKey = NoKey
    NoClient = NoClient
    MaxLogins = 2
    MaxTok = 1
    MaxGen = 5
    MaxBoots = 2
SYMMETRY KeySymmetry
CHECK_DEADLOCK FALSE
INVARIANTS
    TypeOK
    OpenMatchesStore
    StoredSessionHasStore
    OneKey
    SignInOwnsClient
    ToldSessionExists
    SavedOrSaid
PROPERTIES
    KeyKept
    NoResetOverSession
