SPECIFICATION Spec
CONSTANTS
    PBSIZE = 4
    Others <- Symbols
    Commands <- Modes
    Texts <- TwoTexts
    Words <- TwoWords
    Messages <- SomeMessages
    Looks <- Misleading
    cmdbuflen = 2
    Listeners = TRUE
INVARIANTS
    TypeOK
    HeardInOrder
    SpokenAsTyped
PROPERTIES
    ClientServed
CHECK_DEADLOCK FALSE
