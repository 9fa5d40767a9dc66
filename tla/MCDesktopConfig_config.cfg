\* Two launches, each fault and each kind of race: is the identity kept, does the desktop listen?
SPECIFICATION FairSpec
CONSTANTS
    Ids = {1, 2, 3, 4, 5, 6, 7, 8}
    Tokens = {11, 12, 13, 14, 15, 16, 17, 18, 19, 20}
    PhoneTokens = {21}
    Options = {31, 32}
    MaxTokens = 1
    MaxRuns = 2
    MaxFaults = 1
    MaxAged = 1
    MaxBeats = 1
    None = None
    Broken = Broken
    Refused = Refused
    Lost = Lost
INVARIANTS
    IdentityKept
PROPERTIES
    ListensUnlessLockedOut
CHECK_DEADLOCK FALSE
