\* Liveness, with a queue that may overflow.
CONSTANTS
    ArmCycles = 1
    DisarmCycles = 1
    SpTimeoutCycles = 2
    QueueLength = 3
    MaxArrivals = 1
    Sticks <- FlapSticks
    GsModes <- SomeGsModes
SPECIFICATION FairSpec
PROPERTY DisarmWins
PROPERTY NoSetpointNoFlight
PROPERTY LifecycleSpec
