SPECIFICATION ProcessSpec
CONSTANTS
    Loop = Loop
    Timer = Timer
    w1 = w1
    TimerWrite = tw
    tw = tw
    Tasks = {Loop, Timer, tw, w1}
    HardwareConcurrency = 1
    MaxArrivals = 2
    Silent = {1}
CHECK_DEADLOCK FALSE
INVARIANTS
    TypeOK
    DestroyedUnused
    NeverAsleepOnInput
PROPERTIES
    HandlersRun
    ExceptionEndsProcess
    StoppedProcessEnds
    EveryEventReturned
