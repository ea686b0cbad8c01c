CONSTANTS
    FrameLimit = 8
    Charge = 5
    SaveEvery = 2
    Rate = 1
    HostlessFor = 1
    MaxSealed = 9
SPECIFICATION FrameSpec
INVARIANT LosesOneRenewal
CHECK_DEADLOCK FALSE
