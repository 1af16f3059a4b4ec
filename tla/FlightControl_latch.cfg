\* The comment of Satellite_SetpointHandler.c:193 on the latch, with a full queue.
CONSTANTS
    ArmCycles = 1
    DisarmCycles = 1
    SpTimeoutCycles = 2
    QueueLength = 3
    MaxArrivals = 1
    Sticks <- FlapSticks
    GsModes <- SomeGsModes
SPECIFICATION FairSpec
PROPERTY LatchGetsUpdated
