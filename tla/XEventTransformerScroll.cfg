SPECIFICATION Spec
CONSTANTS
    mouse = mouse
    keyboard = keyboard
    screen = screen
    Ids = {2, 3}
    Devices = {mouse, keyboard, screen}
    Mice = {mouse}
    Keyboards = {keyboard}
    Touchscreens = {screen}
    MaxQueue = 3
    MaxTouches = 2
    Amount = 1
    None = None
CHECK_DEADLOCK FALSE
INVARIANTS
    ScrollAmountIsSourced
