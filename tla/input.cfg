SPECIFICATION InputSpec
CONSTANT
    Bytes = {"o", "l", "h", "i", "newline", "0", "1", "2", "other"}
INVARIANTS
    ParserInv
    ThreeNewlinesResync
    CommandAtLineStart
PROPERTY
    LedsFollowCommands
