SPECIFICATION FairSpec
CONSTANTS
    p1 = p1
    p2 = p2
    Threads = {p1, p2}
    Hosts = {"h", "g"}
    Blank = ""
    LocalIps = 1
    EmptyLimit = 0
    MaxNodes = 3
    MaxUrls = 3
    NULL = NULL
CHECK_DEADLOCK FALSE
INVARIANTS
    TypeOK
    NoUrlStranded
    QueuedOnce
    MapSound
PROPERTY UrlsFetched
