SPECIFICATION TelegramSpec
CONSTANTS
    Telegrams <- MCTelegrams
    Beyond <- MCBeyond
INVARIANTS
    TelegramInv
    ReceivedInOrder
    SelfClocking
PROPERTY
    TelegramDelivered
CHECK_DEADLOCK FALSE
