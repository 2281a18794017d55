SPECIFICATION Spec
CONSTANTS
    PBSIZE = 4
    Others <- Symbols
    Commands <- Modes
    Texts <- NoTexts
    Words <- TwoWords
    Messages <- AllMessages
    Looks <- Misleading
    cmdbuflen = 2
    Listeners = FALSE
PROPERTIES
    CommandsAreRead
CHECK_DEADLOCK FALSE
