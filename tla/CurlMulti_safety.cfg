SPECIFICATION Spec
CONSTANTS
    Files = {f1, f2}
    NoFile = NoFile
    MaxRequests = 3
    LibcurlFails = TRUE
    TimerReports = FALSE
SYMMETRY FileSymmetry
INVARIANTS
    TypeOK
    MultiTracked
    MonitoringUnique
    NoPhantomActive
    FinishedRetired
    FreedOutOfReach
