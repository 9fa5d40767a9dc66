\* Every order of user actions, timers and transport events.
SPECIFICATION FairSpec
CONSTANTS
    t1 = t1
    t2 = t2
    t3 = t3
    None = None
    Transports = {t1, t2, t3}
    MaxRetries = 5
    MaxUser = 5
INVARIANTS
    BackoffArmed
    ConnectingHasAttempt
    NoOrphanTransport
    AckOwedLocks
PROPERTIES
    LateEventHarmless
    RetriesEnd
CHECK_DEADLOCK FALSE
