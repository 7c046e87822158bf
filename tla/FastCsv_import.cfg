SPECIFICATION Spec
CONSTANTS
    BlockLen = 4
    Heads <- MCHeads
    Lines <- MCLines
    MaxLines = 3
    BareEnds = FALSE
INVARIANTS
    RowsAsWritten
PROPERTY
    ReadingEnds
CHECK_DEADLOCK FALSE
