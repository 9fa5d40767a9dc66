\* A start, a stop and a second start, each command after the other, with every answer of the server.
SPECIFICATION OnlineSpec
CONSTANTS
    MaxServices = 2
    MaxStops = 2
    MaxTokens = 2
    Overlap = FALSE
INVARIANTS
    WholeOrQuiet
    NoTokenMissed
PROPERTIES
    StopReturns
    ServiceListens
CHECK_DEADLOCK FALSE
