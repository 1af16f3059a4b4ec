SPECIFICATION FairSpec
CONSTANTS
    ctrl = ctrl  rx = rx  tx = tx  led = led  log = log
    FlightMode = FlightMode  FlightModeReq = FlightModeReq
    Transmission = Transmission  AppLogMsg = AppLogMsg
    Order <- MCOrder
    Types <- MCTypes
    Subs <- MCSubs
    AppLog = log  Text = AppLogMsg  Tx = tx
    Occasions <- MCOccasions
    Replies <- MCReplies
    QueueLength = 1
    StackDepth = 5
    MaxSends = 3
INVARIANTS TypeOK OneOwner GsAfterAll OverflowOnlyByLogs
PROPERTIES OnceInOrder EndsClean
CHECK_DEADLOCK FALSE
