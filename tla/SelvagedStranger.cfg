\* A peer ejected before its own announcement.
CONSTANTS
    p1 = p1
    p2 = p2
    p3 = p3
    Peers <- MCPair
    Rooms = {r1}
    MaxRooms = 1
    MaxPeersPerRoom = 2
    MaxQueueFrames = 8
    ReplyMayNotFit = FALSE
    Acts <- MCBreak
    MaxSent = 1
    MaxRenames = 0
SPECIFICATION Spec
INVARIANTS
    NoStrangers
CHECK_DEADLOCK FALSE
