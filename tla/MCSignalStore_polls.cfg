\* Long polls of sessions that expire, are answered and are collected.
SPECIFICATION Spec
CONSTANTS
    Devices = {d1}
    Sessions = {s1, s2}
    Tickets = {t1}
    Conns = {c1}
    Polls = {p1, p2}
    None = None
    MaxSessions = 1
    ChannelCap = 2
    MaxSse = 1
    MaxPolls = 1
SYMMETRY Symmetry
INVARIANTS
    PollGaugeExact
PROPERTIES
    ImplementsRendezvous
CHECK_DEADLOCK FALSE
