SPECIFICATION LegacySpec
CONSTANTS
    Radix = 16
    LowFirst = FALSE
    Delays = {0, 10, 11, 203, 2}
    AWAKETIME = 11
    POWERUP_TIME = 10
    OPENED_TIME = 203
    DOWN_TIME = 2
INVARIANTS
    LegacyInv
    LegacyDwell
PROPERTY
    LegacyImplementsLock
