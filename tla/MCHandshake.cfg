SPECIFICATION Spec
CONSTANTS
    talker = talker
    l1 = l1
    l2 = l2
    l3 = l3
    Listeners <- Everybody
    Talker <- talker
    Settings <- Messages
INVARIANTS
    TypeOK
    InOrder
    NothingLost
    EoiMeansAll
PROPERTIES
    ImplementsTransfer
    Delivered
CHECK_DEADLOCK FALSE
