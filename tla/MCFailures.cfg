SPECIFICATION Spec
CONSTANTS
    Instruments <- Cabled
    HandshakeFaults = TRUE
    Caddr = 0
    NSlots = 1
    Requests <- FailureRequests
    WebRequests <- NoRequests
    BindRequests <- NoRequests
    StoredEoi = FALSE
    StoredEos = 0
    Disturbances = {"reset", "cut", "power", "ip_change", "reboot"}
    MaxPipeline = 1
    MaxBacklog = 1
INVARIANTS
    ExclusiveAddressing
    CachedMeansAddressed
PROPERTIES
    ImplementsService
