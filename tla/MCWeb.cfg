SPECIFICATION Spec
CONSTANTS
    Instruments <- Cabled
    HandshakeFaults = FALSE
    Caddr = 2
    NSlots = 1
    Requests <- OtherRequests
    WebRequests <- WebAll
    BindRequests <- BindGet
    StoredEoi = TRUE
    StoredEos = 1
    Disturbances = {}
    MaxPipeline = 1
    MaxBacklog = 1
INVARIANTS
    TypeOK
    MessageEnded
    ReadFromOwnInstrument
    PortNeverZero
PROPERTIES
    PortMapperAnswers
