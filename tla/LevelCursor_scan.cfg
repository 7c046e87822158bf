SPECIFICATION Spec
CONSTANTS
    NumKeys = 3
    NumWrites = 4
    NumRuns = 3
    MaxOdd = 1
    RestartInterval = 2
    BlockEntries = 3
INVARIANTS LookupsAgree
PROPERTY Scan
