SPECIFICATION Spec
CONSTANTS
    t1 = t1
    t2 = t2
    t3 = t3
    Threads = {t1, t2}
    NoThread = NoThread
    Keys = {"a", "b"}
    Subkeys = {"x"}
    Buckets = {0}
    Hv <- MCHv
    Sizes = {"small", "large", "bad"}
    BloomBytes <- MCBloomBytes
    MapBits <- MCMapBits
    Probe <- MCProbe
    MaxBytes = 4
    WordMod = 16
    Calls <- OneAdminCalls
    MaxCalls = 6
    AllocFails = FALSE
INVARIANTS
    TotalsExact
    CapacityRespected
PROPERTY GetTellsTruth
