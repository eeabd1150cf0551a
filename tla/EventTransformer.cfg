SPECIFICATION Spec
CONSTANTS
    d1 = d1
    d2 = d2
    a1 = a1
    a2 = a2
    Devices = {d1, d2}
    Addresses = {a1, a2}
    Slots = {1, 2}
    Modifiers = {"Shift", "CapsLock"}
    Locks = {"CapsLock"}
    Capabilities <- MCCapabilities
    MaxPosition = 1
    MaxTime = 1
    None = None
VIEW View
CHECK_DEADLOCK FALSE
INVARIANTS
    TypeOK
    DeviceIdentities
PROPERTIES
    MovesAreDifferences
    TouchesAreClicked
    ModifiersAsInSession
    IntervalsAddUp
