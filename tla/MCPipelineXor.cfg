\* main.c built with -DUSE_XOR=ON and the other options at their defaults:
\* no console, not a debug build.
CONSTANTS
    HookedSources <- MainPorts
    HookedSinks <- MainSinks
    SourceTransform <- VMCSource
    SinkTransform <- VMCSink
    DEBUG = FALSE
    USE_CONSOLE = FALSE
    Accepted <- XorFrames
    MaxFrames <- TwoFrames
SPECIFICATION Spec
INVARIANT LinkEnciphered
CHECK_DEADLOCK FALSE
