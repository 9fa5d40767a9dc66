\* Two phones, a full queue, texts that fail midway, a restart with texts still queued.
SPECIFICATION FairSpec
CONSTANTS
    Phones = {"p1", "p2"}
    Outbox <- TwoPhones
    QueueLimit = 2
    MaxTextLength = 3
    MaxStarts = 2
INVARIANTS
    LinesKept
PROPERTIES
    ImplementsLog
    AcknowledgedIsAttempted
CHECK_DEADLOCK FALSE
