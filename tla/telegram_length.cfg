SPECIFICATION TelegramSpec
CONSTANTS
    Telegrams <- MCSent
    Beyond <- MCBeyond
INVARIANT
    OnlyTheTelegram
CHECK_DEADLOCK FALSE
