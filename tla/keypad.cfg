SPECIFICATION KeypadSpec
CONSTANTS
    KEY_HOLD = 3
    Keys <- MCKeys
INVARIANT
    KeypadInv
PROPERTIES
    ReportsRealKeys
    OncePerPress
    DueKeyReported
