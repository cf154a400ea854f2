CONSTANTS
    MaxChunk = 1
    StreamLen = 1
    Clients = {c1}
    NoClient = NoClient
    MaxLost = 0
SPECIFICATION Spec
INVARIANT SurvivesClientClose
CHECK_DEADLOCK FALSE
