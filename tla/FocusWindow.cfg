SPECIFICATION Spec
CONSTANTS
    w1 = w1
    w2 = w2
    NoWindow = NoWindow
    Unset = Unset
    Windows = {w1, w2}
CHECK_DEADLOCK FALSE
INVARIANTS
    WindowGoneIsNull
