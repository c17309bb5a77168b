SPECIFICATION Spec
CONSTANTS
    g1 = g1
    g2 = g2
    f1 = f1
    c1 = c1
    c2 = c2
    c3 = c3
    c4 = c4
    c5 = c5
    GetThreads = {g1, g2}
    FillThreads = {f1}
    Main = Main
    testClient = testClient
    testClient1 = testClient1
    Conns = {c1, c2, c3, c4}
    NULL = NULL
    InitialConnections = 3
    OpenFails = TRUE
SYMMETRY Symmetry
CHECK_DEADLOCK FALSE
INVARIANTS
    TypeOK
    NoSharing
    OwnedAlive
    BusyOwned
PROPERTY ImplementsLease
