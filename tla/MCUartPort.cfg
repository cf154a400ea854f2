CONSTANTS
    RingSize = 4
    InputSize = 3
    FrameLen = 2
    StreamLen = 9
SPECIFICATION Spec
INVARIANTS UartTypeOK UartInv
PROPERTIES ImplementsLossyStream UartDrained UartWorkerResumes
CHECK_DEADLOCK FALSE
