\* The comment of QuadFC_MainTask.c:292 on the setpoint counter, over two flights.
CONSTANTS
    ArmCycles = 1
    DisarmCycles = 1
    SpTimeoutCycles = 2
    QueueLength = 4
    MaxArrivals = 1
    Sticks <- PlainSticks
    GsModes <- AllGsModes
SPECIFICATION Spec
PROPERTY SetpointGrace
