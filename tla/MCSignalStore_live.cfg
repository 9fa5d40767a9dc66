\* Handlers, polls and replaced streams come to an end.
SPECIFICATION FairSpec
CONSTANTS
    Devices = {d1}
    Sessions = {s1}
    Tickets = {t1, t2}
    Conns = {c1, c2}
    Polls = {p1}
    None = None
    MaxSessions = 1
    ChannelCap = 1
    MaxSse = 2
    MaxPolls = 1
PROPERTIES
    StreamEnds
    PollReturns
    QueuedOfferSent
CHECK_DEADLOCK FALSE
