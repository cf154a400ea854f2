CONSTANTS
    Sockets = {1, 2}
    NoSocket = NoSocket
    MaxQueue <- TunnelBounds
    MaxPackets <- TunnelPackets
SPECIFICATION Spec
INVARIANTS QueueInv OwnSockets
PROPERTIES ImplementsQueues BridgeDrained BridgeReconnects
CHECK_DEADLOCK FALSE
