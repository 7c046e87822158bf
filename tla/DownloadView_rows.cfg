SPECIFICATION Spec
CONSTANTS
    Names = {"a", "b"}
    Folder = "folder"
    Torrents = {"t"}
    Unsized = {"b"}
    Lists <- MCLists
    Chosen <- MCChosen
    MaxItems = 3
    MaxMail = 1
INVARIANTS EntryPerRow RowsSaved
PROPERTIES StatsReachRow ImportKeepsLive
