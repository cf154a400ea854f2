CONSTANTS
    MaxChunk = 3
    StreamLen = 6
    Sockets = {s1, s2}
    NoSocket = NoSocket
SPECIFICATION Spec
INVARIANTS HandoffTypeOK HandoffInv OneSocket
PROPERTIES ImplementsStream ActsAsPort TcpoutResumes Reconnects
CHECK_DEADLOCK FALSE
