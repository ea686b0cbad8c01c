\* More connections than the cap, coming and going in any way, with queues so
\* small that a close may not fit behind the error it explains; and heads that
\* end inside, at and past their bound, read in pieces of up to four bytes, with
\* three bytes of frames behind them, and a page root that changes twice during
\* a request; and invites to rooms whose names look like
\* delimiters and escapes.
CONSTANTS
    c1 = c1
    c2 = c2
    f1 = f1
    f2 = f2
    Conns <- MCTwo
    MaxConnections = 1
    MaxMissedPings = 1
    MaxQueueFrames = 1
    Serves = {"status", "page", "session"}
    MaxPongs = 1
    MaxHeadBytes = 4
    ChunkBytes = 4
    MaxBehind = 3
    ParserBytes = 3
    MaxPageBytes = 2
    Files = {f1, f2}
    MaxChanges = 2
    NameLengths = {0, 1, 3}
    Tokens <- MCTokens
    RoomKey <- MCRoomKey
    HostKey <- MCHostKey
SPECIFICATION MCSpec
INVARIANTS
    SlotsBounded
    CountIsHeld
    NeverPolledTwice
    FramesArriveOnce
    PageStaysInside
    InvitesReachTheirRoom
PROPERTIES
    DeadSessionsEnd
CHECK_DEADLOCK FALSE
