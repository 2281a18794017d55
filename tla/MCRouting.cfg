SPECIFICATION Spec
CONSTANTS
    Instruments <- Cabled
    HandshakeFaults = FALSE
    Caddr = 0
    NSlots = 2
    Requests <- RoutingRequests
    WebRequests <- NoRequests
    BindRequests <- NoRequests
    StoredEoi = FALSE
    StoredEos = 0
    Disturbances = {}
    MaxPipeline = 1
    MaxBacklog = 1
INVARIANTS
    CacheCoherent
    RoutedToLink
PROPERTIES
    SlotIsolation
    RequestsAnswered
