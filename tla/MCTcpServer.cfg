CONSTANTS
    MaxChunk = 2
    StreamLen = 3
    Clients = {c1, c2}
    NoClient = NoClient
    MaxLost = 1
SPECIFICATION Spec
INVARIANTS TcpTypeOK NoLeakedClient
PROPERTIES TcpImplementsStream TcpDrained NextClientServed
CHECK_DEADLOCK FALSE
