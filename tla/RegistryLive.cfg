SPECIFICATION FairSpec
CONSTANTS
    t1 = t1
    t2 = t2
    t3 = t3
    Threads = {t1, t2, t3}
    NoThread = NoThread
    Keys = {"a"}
    Subkeys = {"x"}
    Buckets = {0}
    Hv <- MCHv
    Sizes = {"small"}
    BloomBytes <- MCBloomBytes
    MapBits <- MCMapBits
    Probe <- MCProbe
    MaxBytes = 9
    WordMod = 16
    Calls <- AllCalls
    MaxCalls = 3
    AllocFails = FALSE
INVARIANTS
    NoDeadlock
PROPERTIES
    CallsWindDown
    EveryCallReturns
