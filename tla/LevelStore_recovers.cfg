SPECIFICATION Spec
CONSTANTS
    w1 = w1
    w2 = w2
    Clients <- MCClients
    BlockSize = 5
    HeaderSize = 2
    MaxWrites = 2
    BufferSize = 0
    Trigger = 1
    StopAt = 2
    MaxFaults = 1
    MaxStops = 1
    MaxEvents = 4
    NestedFaults = FALSE
    EarlyFaults = TRUE
SYMMETRY Symmetry
PROPERTY ErrorsFailOpen
CHECK_DEADLOCK FALSE
