\* The safety properties, with a queue the arrivals can fill.
CONSTANTS
    ArmCycles = 1
    DisarmCycles = 1
    SpTimeoutCycles = 2
    QueueLength = 3
    MaxArrivals = 1
    Sticks <- TwoSticks
    GsModes <- AllGsModes
SPECIFICATION Spec
INVARIANT TypeOK
INVARIANT GroundedIsSafe
INVARIANT ThrustIsRegulated
INVARIANT LatchesFollow
PROPERTY LifecycleSafety
