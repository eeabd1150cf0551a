SPECIFICATION TimedSpec
CONSTANTS
    c1 = c1
    timer = timer
    j1 = j1
    j2 = j2
    Callers = {c1}
    InPool = {}
    Timer = timer
    Jobs = {j1, j2}
    NEvents = 2
    NStores = 1
    MaxBatches = 2
    Period = 2
    MaxLate = 1
CHECK_DEADLOCK FALSE
INVARIANTS
    WaitsAtMostAPeriod
    TicksWithinTime
PROPERTIES
    EveryBatchIsWritten
    ErrorStopsScheduler
