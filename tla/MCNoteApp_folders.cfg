\* The instance of MCNoteApp.cfg: does /folder/<name> show every note that
\* /folders lists under <name>?
CONSTANTS
    Folders <- MCFolders
    NoteTitles <- MCNoteTitles
    Contents <- MCContents
    TagFields <- MCTagFields
    JsonTagLists <- MCJsonTags
    DocPaths <- MCDocPaths
    DocTitles <- MCDocTitles
    Updates <- MCUpdates
    Queries <- MCQueries
    LimitArgs <- MCLimitArgs
    ServerMayFail = TRUE
    ScanLimit = 1000
    ViewLimit = 50
    MaxIds = 2
    HashOrder <- MCHashOrder
SPECIFICATION Spec
INVARIANT FolderViewMatchesStructure
