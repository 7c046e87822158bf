SPECIFICATION Spec
CONSTANTS
    NumKeys = 2
    NumLevels = 3
    MaxMemLevel = 1
    TableEntries = 1
    OverlapLimit = 1
    ExpandLimit = 5
    SplitsKeys = FALSE
    MaxWrites = 5
    Orders <- MCOrders
    MaxDeletions = 1
    MaxSnapshots = 1
INVARIANTS ReadsAgree LevelsDisjoint NewerAbove
CHECK_DEADLOCK FALSE
