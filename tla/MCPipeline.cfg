\* All sources and sinks attached, with a transformer at the vehicle's source and
\* sink as in main.c and at those of the legacy port; a debug build, with console.
CONSTANTS
    HookedSources <- AllPorts
    HookedSinks <- Sinks
    SourceTransform <- DecodingSources
    SinkTransform <- TransformedSinks
    DEBUG = TRUE
    USE_CONSOLE = TRUE
    Accepted <- MCAccepted
    MaxFrames <- MCMaxFrames
SPECIFICATION Spec
INVARIANTS TypeOK MessageInv Confinement Accounted
PROPERTIES ImplementsGate NoForbiddenDelivery OwnTransformersOnly
CHECK_DEADLOCK FALSE
