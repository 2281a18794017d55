SPECIFICATION Spec
CONSTANTS
    Instruments <- Cabled
    HandshakeFaults = FALSE
    Caddr = 0
    NSlots = 2
    Requests <- StaleRequests
    WebRequests <- NoRequests
    BindRequests <- NoRequests
    StoredEoi = FALSE
    StoredEos = 0
    Disturbances = {"cut"}
    MaxPipeline = 1
    MaxBacklog = 1
PROPERTIES
    ServedAsAsked
