\* One session across a stop and a restart, its link lost and recovered.
SPECIFICATION FairSpec
CONSTANTS
    s1 = s1
    s2 = s2
    p1 = p1
    p2 = p2
    Sids = {s1}
    Phones = {p1, p2}
    PhoneOf <- TwoPhones
    MaxConnections = 1
    MaxGen = 2
    Lossy = {s1}
INVARIANTS
    ClosedRegistryEmpty
    PcTracked
    TimerOnlyWhileDown
PROPERTIES
    DisconnectedReaped
    RefusedIsClosed
    StopCompletes
CHECK_DEADLOCK FALSE
