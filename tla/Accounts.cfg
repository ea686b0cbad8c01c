\* The arithmetic of the budget; three tasks that queue frames for a peer whose
\* writer drains, fails or is aborted; and a host that dies at any moment, often.
CONSTANTS
    NanosPerSec = 10
    FrameCost = 2
    RatePerSec = 3
    Capacity = 5
    Payloads <- MCPayloads
    MaxGap = 8
    MaxFrames = 5
    Tasks = {t1, t2, t3}
    Lens = {0, 1, 2}
    MaxBytes = 3
    MaxQueued = 2
    MaxTries = 2
    FrameLimit = 8
    Charge = 5
    SaveEvery = 2
    Rate = 1
    HostlessFor = 1
    MaxSealed = 9
SPECIFICATION MCSpec
INVARIANTS
    BurstCeiling
    RefusalIsEarned
    CountIsHeld
    CountNeverBehind
CHECK_DEADLOCK FALSE
