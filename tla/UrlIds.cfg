SPECIFICATION FairSpec
CONSTANTS
    c1 = c1
    c2 = c2
    Machines = {0, 1}
    Callers <- MCCallers
    SeqSpan = 2
    PcSpan = 2
    MsSpan = 2
    MaxClock = 3
    MaxSetBacks = 1
    MaxIds = 4
    NULL = NULL
CHECK_DEADLOCK FALSE
INVARIANTS
    TypeOK
    IssuedInOrder
    IdsUnique
PROPERTY MutexReleased
