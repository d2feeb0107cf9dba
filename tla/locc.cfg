SPECIFICATION ResetSafety
CONSTANTS
    Radix = 256
    LowFirst = TRUE
    Delays = {0, 59, 15000, 5000}
    AWAKETIME = 59
    OPEN_TIME = 15000
    OFF_TIME = 5000
    CHARGE_TIME = 5000
INVARIANTS
    ResetInv
    ExpiryAlmostExact
    MinimumDwell
    ChargedBeforeWake
    NoUnrequestedCycle
    CycleHealsReset
    OpenWhenDue
    LeakOnlyAtPowerUp
