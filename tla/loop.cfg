SPECIFICATION LoopSpec
CONSTANTS
    Radix = 4
    LowFirst = TRUE
    Delays = {0, 3, 6, 5}
    AWAKETIME = 3
    OPEN_TIME = 6
    OFF_TIME = 5
    CHARGE_TIME = 5
    Bytes = {"o", "l", "h", "newline", "other"}
INVARIANTS
    LoopInv
    RepliesTellState
    ReadyMeansClosed
PROPERTIES
    ImplementsLock
    OpensOnlyOnRequest
    RequestsServed
