SPECIFICATION FaultSpec
CONSTANTS
    Files = {f1, f2}
    Torrents = {t1}
    NoItem = NoItem
    MaxItems = 2
    KeyCount = 3
    Unsized = {}
    Crashes = TRUE
    WriteFails = TRUE
    ReadFails = TRUE
    FilesVanish = TRUE
SYMMETRY FileSymmetry
INVARIANTS
    NoStrayKeys
PROPERTIES
    SparesOthers
    KeepsHistory
