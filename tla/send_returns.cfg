SPECIFICATION AttentiveSpec
CONSTANTS
    MaxNest = 1
    OrderlyHost = TRUE
    BankSize = 1
    MaxBytes = 2
PROPERTY SendReturns
