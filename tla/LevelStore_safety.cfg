SPECIFICATION Spec
CONSTANTS
    w1 = w1
    w2 = w2
    Clients <- MCClients
    BlockSize = 5
    HeaderSize = 2
    MaxWrites = 3
    BufferSize = 0
    Trigger = 1
    StopAt = 2
    MaxFaults = 2
    MaxStops = 2
    MaxEvents = 4
    NestedFaults = FALSE
    EarlyFaults = FALSE
SYMMETRY Symmetry
INVARIANTS  FilesExist OpensAgain SequencesUnique WaitersWoken
PROPERTY Promise
CHECK_DEADLOCK FALSE
