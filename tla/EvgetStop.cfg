SPECIFICATION Spec
CONSTANTS
    Loop = Loop
    Timer = Timer
    w1 = w1
    TimerWrite = tw
    tw = tw
    Tasks = {Loop, Timer, tw, w1}
    HardwareConcurrency = 1
CHECK_DEADLOCK FALSE
PROPERTIES
    StopEndsThreads
