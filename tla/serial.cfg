SPECIFICATION SerialSpec
CONSTANTS
    MaxNest = 1
    OrderlyHost = TRUE
    BankSize = 2
    MaxBytes = 2
INVARIANTS
    StrayOnlyAfterReset
    SerialInv
PROPERTIES
    SuccessMeansSent
    RepliesInOrder
    CommandsInOrder
    CommandsTaken
    BankDrained
    CommandsDrained
