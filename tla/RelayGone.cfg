CONSTANTS
    Callers = {c1, c2}
    Opener = c1
    MaxFrames = 2
    MaxRenames = 1
    MaxCloses = 2
SPECIFICATION FairSpec
PROPERTIES
    EndedIsTold
CHECK_DEADLOCK FALSE
