\* What main_fault promises at the end of the cycle it ran in.
CONSTANTS
    ArmCycles = 1
    DisarmCycles = 1
    SpTimeoutCycles = 2
    QueueLength = 4
    MaxArrivals = 1
    Sticks <- PlainSticks
    GsModes <- AllGsModes
SPECIFICATION Spec
INVARIANT MainFaultStops
