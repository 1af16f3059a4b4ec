\* The comment of QuadFC_MainTask.c:272 on the arming time, against an arming
\* that is interrupted.
CONSTANTS
    ArmCycles = 2
    DisarmCycles = 1
    SpTimeoutCycles = 2
    QueueLength = 4
    MaxArrivals = 1
    Sticks <- PlainSticks
    GsModes <- AllGsModes
SPECIFICATION Spec
PROPERTY ArmingLasts
