SPECIFICATION CatalogSpec
CONSTANTS
    Readers = {r1, r2}
    Loads = {l1, l2}
    Parts <- MCParts
    ListParts <- MCListParts
    NoLabels = NoLabels
    NoLoad = NoLoad
    Unread = Unread
    TimeToLive = 1
    MaxTime = 2
    MaxVersion = 1
INVARIANTS
    TypeOK
    ReadsAreFresh
    FailureIsNotCached
PROPERTIES
    OldFailureSparesNewer
    ReadsEnd
    KeepsContract
