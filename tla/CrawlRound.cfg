SPECIFICATION FairSpec
CONSTANTS
    f1 = f1
    f2 = f2
    Fetchers = {f1, f2}
    Getter = Getter
    Urls = {"h", "g"}
    HomeUrls = {"h"}
    Links <- MCLinks
    NextPage <- MCNextPage
    RetryTimes = 2
    FifoLimit = 0
    LoadBelow = 1
    MaxRounds = 2
    MaxOuter = 1
    NULL = NULL
CHECK_DEADLOCK FALSE
INVARIANTS
    TypeOK
    CountCovers
    
    NotEndedEarly
    RestingRoundEnds
PROPERTY RoundEnds
