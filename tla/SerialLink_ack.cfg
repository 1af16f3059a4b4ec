\* The comment of SerialManager.cpp:394, against acknowledgements that come late.
CONSTANTS
    NrRetransmitt = 2
    NrRetries = 1
    FcNrs = 2
    GsNrs = 2
    EventLength = 2
    FifoLength = 1
    WireLength = 2
    FcKinds <- FcMessages
    GsKinds <- GsMessages
    Messages = 2
    Mishaps = 1
SPECIFICATION Spec
CHECK_DEADLOCK FALSE
PROPERTY ReleasedWhenReceived
