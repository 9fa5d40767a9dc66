\* Two codes, tokens beyond their limit and their lifetime, a host that sleeps.
SPECIFICATION FairSpec
CONSTANTS
    Codes = {1, 2}
    Phones = {"p1"}
    Expiry = 1
    TokenTTL = 1
    MaxTokens = 2
    MaxNow = 3
    MaxIssued = 3
    None = None
INVARIANTS
    ExpiredOnlyBriefly
    TokenLife
PROPERTIES
    ScreenCatchesUp
CHECK_DEADLOCK FALSE
