\* Slow peers: queues of one frame, a host that talks and does not read.
CONSTANTS
    p1 = p1
    p2 = p2
    p3 = p3
    Peers <- MCPeers
    Rooms = {r1}
    MaxRooms = 1
    MaxPeersPerRoom = 3
    MaxQueueFrames = 1
    ReplyMayNotFit = FALSE
    Acts <- MCSlow
    MaxSent = 3
    MaxRenames = 0
SPECIFICATION Spec
INVARIANTS
    SeatsAreServed
PROPERTIES
    StreamsHaveNoHoles
    LeftIsToldOnce
CHECK_DEADLOCK FALSE
