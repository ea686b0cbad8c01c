\* Two clients that may do anything at any time, with replies that may not fit.
CONSTANTS
    p1 = p1
    p2 = p2
    p3 = p3
    Peers <- MCPair
    Rooms = {r1}
    MaxRooms = 1
    MaxPeersPerRoom = 2
    MaxQueueFrames = 1
    ReplyMayNotFit = TRUE
    Acts <- MCAnything
    MaxSent = 1
    MaxRenames = 1
SYMMETRY MCPairAlike
SPECIFICATION Spec
INVARIANTS
    ReplyComesFirst
    RosterIsComplete
PROPERTIES
    GraceHonoured
CHECK_DEADLOCK FALSE
