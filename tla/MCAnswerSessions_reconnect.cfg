\* A phone that reconnects while its old session still exists.
SPECIFICATION Spec
CONSTANTS
    s1 = s1
    s2 = s2
    p1 = p1
    p2 = p2
    Sids = {s1, s2}
    Phones = {p1}
    PhoneOf <- OnePhone
    MaxConnections = 2
    MaxGen = 1
    Lossy = {s1}
INVARIANTS
    ReconnectedPhoneCounted
CHECK_DEADLOCK FALSE
