SPECIFICATION AppFairSpec
CONSTANTS
    Files = {f1}
    NoFile = NoFile
    MaxRequests = 2
    LibcurlFails = TRUE
    TimerReports = TRUE
    RemovesFiles = TRUE
    MaxConnections = 1
INVARIANTS
    FreedOnce
PROPERTIES
    CloseEnds
    RequestsServed
