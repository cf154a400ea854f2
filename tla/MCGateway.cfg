CONSTANTS
    Builds <- Programs
    MaxChunk = 2
    RingSize = 3
    MaxWakeups = 2
SPECIFICATION Spec
INVARIANT VisitBound
PROPERTIES NotStarved SocketsServed UsesPorts
