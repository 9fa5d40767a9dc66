\* Two clients, two requests at a time, tokens that age, handlers that end early, a failed flush or a restart.
SPECIFICATION Spec
CONSTANTS
    c1 = c1
    c2 = c2
    r1 = r1
    r2 = r2
    Devices = {1}
    Tokens = {11, 12, 13}
    Clients = {c1, c2}
    Requests = {r1, r2}
    QueueLimit = 1
    Threshold = 2
    CacheLimit = 2
    TokenTTL = 0
    OfflineAfter = 0
    Retention = 1
    MaxNow = 2
    MaxReports = 2
    MaxFaults = 1
    None = None
SYMMETRY ClientsAndRequests
INVARIANTS
    OneHolder
    CacheMatchesTable
    ReportsInOrder
    OfflineIsSilent
CHECK_DEADLOCK FALSE
