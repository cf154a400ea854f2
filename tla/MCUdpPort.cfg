CONSTANTS
    MaxChunk = 2
    StreamLen = 5
    Addresses = {a1, a2}
    NoAddress = NoAddress
    MaxLost = 1
SPECIFICATION Spec
INVARIANT UdpTypeOK
PROPERTIES RepliesToClient UdpImplementsStream UdpDrained
CHECK_DEADLOCK FALSE
