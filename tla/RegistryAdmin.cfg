SPECIFICATION Spec
CONSTANTS
    t1 = t1
    t2 = t2
    t3 = t3
    Threads = {t1, t2}
    NoThread = NoThread
    Keys = {"a", "b", "c"}
    Subkeys = {"x"}
    Buckets = {0, 1}
    Hv <- MCHv
    Sizes = {"small"}
    BloomBytes <- MCBloomBytes
    MapBits <- MCMapBits
    Probe <- MCProbe
    MaxBytes = 4
    WordMod = 16
    Calls <- AdminCalls
    MaxCalls = 5
    AllocFails = TRUE
SYMMETRY ThreadSymmetry
CHECK_DEADLOCK FALSE
INVARIANTS
    TypeOK
    HashExclusion
    ChainsSound
    NoFilterLost
