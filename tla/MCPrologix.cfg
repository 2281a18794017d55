SPECIFICATION Spec
CONSTANTS
    Instruments <- Cabled
    HandshakeFaults = FALSE
    PBSIZE = 4
    Others <- AllWords
    Commands <- AllCommands
    Queries <- AsksQuery
    Macros <- TwoMacros
    Typed <- AllTyped
    Caddr = 0
    Idn = 1
    StoredEoi = FALSE
    StoredEos = 0
INVARIANTS
    TypeOK
    OneAddressed
    ReadFromNamed
PROPERTIES
    StrayOnce
    StatusIsNotData
