SPECIFICATION TimerSpec
CONSTANTS
    Radix = 256
    LowFirst = TRUE
    Delays = {0, 59, 5000, 15000}
INVARIANT
    ExpiryExact
