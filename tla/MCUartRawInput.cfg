CONSTANTS
    RingSize = 3
    InputSize = 2
    FrameLen = 2
    StreamLen = 2
SPECIFICATION Spec
INVARIANT RawInput
CHECK_DEADLOCK FALSE
