SPECIFICATION AppSpec
CONSTANTS
    Files = {f1, f2}
    NoFile = NoFile
    MaxRequests = 2
    LibcurlFails = FALSE
    TimerReports = FALSE
    RemovesFiles = FALSE
    MaxConnections = 2
SYMMETRY FileSymmetry
INVARIANTS
    DownloadingBacked
PROPERTY
    Spec
