SPECIFICATION Spec
CONSTANTS
    MaxPayload = 4
    Numbers = 4
    Stamps = 4
    Word = 22
    ClockRate = 1
    Second = 2
    PacedFrom = 3
    MaxWindow = 4
    MinInterval = 1
    Fraction = 6
    Fallback = 24
    Configs <- MCConfigs
    FirstNumbers = {3}
    Shapes <- MCShapes
    Gap = 12
    MaxStarts = 2
    MaxFrames = 3
INVARIANTS ReturnedIsOneFrame PacingKeepsUp
PROPERTY CleanFrameArrives
CHECK_DEADLOCK FALSE
