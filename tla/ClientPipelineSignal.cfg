SPECIFICATION FairSpec
CONSTANTS
    ReceiveCapacity = 1
    DecodeCapacity = 1
    MaxRetries = 1
    MaxFrames = 1
PROPERTY StopEndsProcess
CHECK_DEADLOCK FALSE
