SPECIFICATION Spec
CONSTANTS
    c1 = c1
    c2 = c2
    timer = timer
    j1 = j1
    j2 = j2
    Callers = {c1, c2}
    InPool = {c1}
    Timer = timer
    Jobs = {j1, j2}
    NEvents = 2
    NStores = 2
    MaxBatches = 3
CHECK_DEADLOCK FALSE
SYMMETRY Symmetry
INVARIANTS
    TypeOK
    NothingLost
    OneHolder
    ShutdownLoss
    InOrderPerTaker
PROPERTIES
    ImplementsWriteLog
