CONSTANTS
    k1 = k1
    k2 = k2
    k3 = k3
    k4 = k4
    a = a
    b = b
    c = c
    Keys = {k1, k2, k3, k4}
    Ids = {a, b, c}
    IdOf <- MCIdOf
    Stream <- MCStream
    Published <- MCPublished
    UncommittedMarks = 1
    Hosting = TRUE
    MaxCounter = 3
    Group = 4
    Full = 1
    Rooms <- MCRooms
    Recipes <- MCRecipes
    MaxRewrites = 2
    Lengths <- MCLengths
    MaxAnyDepth = 2
    MaxAnyBytes = 6
    MaxMessages = 3
SPECIFICATION MCSpec
CHECK_DEADLOCK FALSE
INVARIANTS
    NothingReadTwice
    InOrderIsRead
    NewestStateHeld
    OneSignatureOneFrame
    JudgedBeforeApplied
