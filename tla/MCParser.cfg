SPECIFICATION Spec
CONSTANTS
    PBSIZE = 4
    Others <- Bang
    Keys <- AllKeys
    MaxTyped = 10
INVARIANTS
    TypeOK
    LinesAsTyped
    Resynchronises
    EscapedStaysData
    DataInPieces
CHECK_DEADLOCK FALSE
