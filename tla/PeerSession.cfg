CONSTANTS
    me = me
    p = p
    h = h
    g = g
    sp = sp
    sh = sh
    sg = sg
    r = r
    a = a
    Me = me
    Peers = {p, h, g}
    Connections = {sp, sh, sg}
    Seated = {sp, sh}
    States <- MCStates
    Paths = {a}
    MaxEdits = 2
    Remote = {r}
    Renew = 1
    Expire = 2
    Faults <- MCFaults
    MaxFaults = 1
    Ids = {i, j}
    OwnId = i
    Seats = {s, t}
    MaxClock = 3
    StateRenew = 1
    StateExpire = 2
SPECIFICATION MCSpec
INVARIANTS
    RolledBack
    OnlyTheRoomsHistoryLeaves
    EditsGoOutOnce
    HoldsAreLeased
    PresenceIsCurrent
PROPERTIES
    ObligationsAreKept
    HostAwayIsEarned
    OwedRequestsGoOut
    WaitingEnds
CHECK_DEADLOCK FALSE
