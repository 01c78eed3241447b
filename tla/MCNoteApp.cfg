\* Both apps over one server, every server call allowed to fail; up to
\* two documents.
CONSTANTS
    Folders <- MCFolders
    NoteTitles <- MCNoteTitles
    Contents <- MCContents
    TagFields <- MCTagFields
    JsonTagLists <- MCJsonTags
    DocPaths <- MCDocPaths
    DocTitles <- MCDocTitles
    Updates <- MCUpdates
    Queries <- MCQueries
    LimitArgs <- MCLimitArgs
    ServerMayFail = TRUE
    ScanLimit = 1000
    ViewLimit = 50
    MaxIds = 2
    HashOrder <- MCHashOrder
SPECIFICATION Spec
INVARIANT StatsMatchReference
