SPECIFICATION LiveSpec
CONSTANTS
    Keys = {k1}
    NoKey = NoKey
    NoClient = NoClient
    MaxLogins = 1
    MaxTok = 0
    MaxGen = 6
    MaxBoots = 1
CHECK_DEADLOCK FALSE
PROPERTIES
    LoginIsAnswered
    RebuildEnds
    ExpiryIsTold
