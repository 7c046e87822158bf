SPECIFICATION TorrentsSpec
CONSTANTS
    Order <- Three
    FilePaths <- PlainOrComma
    TorrentPaths <- Torrent
    Metainfo <- MCMetainfo
    MaxTorrents = 2
    ItemLimit = 2
    Components <- MCComponents
    Extended <- MCExtended
INVARIANTS
    LinesInOrder
    FindsPlain
    FilesComeBack
    WholeAreRead
    FilesShown
CHECK_DEADLOCK FALSE
