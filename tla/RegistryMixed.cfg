SPECIFICATION Spec
CONSTANTS
    t1 = t1
    t2 = t2
    t3 = t3
    Threads = {t1, t2}
    NoThread = NoThread
    Keys = {"a", "b"}
    Subkeys = {"x", "y"}
    Buckets = {0}
    Hv <- MCHv
    Sizes = {"small", "large"}
    BloomBytes <- MCBloomBytes
    MapBits <- MCMapBits
    Probe <- MCProbe
    MaxBytes = 9
    WordMod = 16
    Calls <- MixedCalls
    MaxCalls = 5
    AllocFails = FALSE
SYMMETRY ThreadSymmetry
INVARIANTS
    AddrAlive
    IdleHoldsNoLock
PROPERTIES
    NoFalseNegative
    ImplementsStore
