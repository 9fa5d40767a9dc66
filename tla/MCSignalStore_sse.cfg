\* Streams that replace one another while tickets are redeemed and offers pushed.
SPECIFICATION Spec
CONSTANTS
    Devices = {d1, d2}
    Sessions = {s1, s2}
    Tickets = {t1, t2}
    Conns = {c1, c2}
    Polls = {}
    None = None
    MaxSessions = 1
    ChannelCap = 1
    MaxSse = 1
    MaxPolls = 1
SYMMETRY Symmetry
INVARIANTS
    SubscriptionHasTask
    OfferDeliveredOnce
    TicketOpensOneStream
    SseGaugeCovers
    SessionsCapped
PROPERTIES
    NoStaleUnsubscribe
CHECK_DEADLOCK FALSE
