\* Two sessions compete for one client slot while the service stops.
SPECIFICATION Spec
CONSTANTS
    s1 = s1
    s2 = s2
    p1 = p1
    p2 = p2
    Sids = {s1, s2}
    Phones = {p1, p2}
    PhoneOf <- TwoPhones
    MaxConnections = 1
    MaxGen = 1
    Lossy = {s1}
INVARIANTS
    ClientsBounded
CHECK_DEADLOCK FALSE
