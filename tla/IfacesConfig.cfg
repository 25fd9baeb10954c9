CONSTANTS
    Ethernets = {e}
    Wireless = {e}
    Ppps = {p}
    Tty = Tty
    MaxEvents = 2
    MaxEdits = 2
    Overtaking = FALSE
    Null = Null
SPECIFICATION Spec
INVARIANTS TypeOK TableCurrent ActiveCurrent NeverNullKey
PROPERTY ConfigKept
CHECK_DEADLOCK FALSE
