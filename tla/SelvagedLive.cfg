\* Nobody reads: removed peers end, empty rooms are taken down.
CONSTANTS
    p1 = p1
    p2 = p2
    p3 = p3
    Peers <- MCPeers
    Rooms = {r1}
    MaxRooms = 1
    MaxPeersPerRoom = 3
    MaxQueueFrames = 1
    ReplyMayNotFit = FALSE
    Acts <- MCLive
    MaxSent = 0
    MaxRenames = 0
SPECIFICATION FairSpec
INVARIANTS
    EmptyRoomHasTimer
PROPERTIES
    KeepsThePromise
    EmptyRoomsGo
    PoisonEndsTheTask
CHECK_DEADLOCK FALSE
