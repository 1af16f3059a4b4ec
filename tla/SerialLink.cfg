\* One message, perhaps the broadcast that comes back, and two mishaps.
CONSTANTS
    NrRetransmitt = 2
    NrRetries = 1
    FcNrs = 2
    GsNrs = 2
    EventLength = 2
    FifoLength = 1
    WireLength = 2
    FcKinds <- FcMessages
    GsKinds <- GsMessages
    Messages = 1
    Mishaps = 2
SPECIFICATION FairSpec
CHECK_DEADLOCK FALSE
INVARIANT TypeOK
INVARIANT AcksHaveWakeups
 
PROPERTY AckMeansReceived
PROPERTY LinkQuiets
