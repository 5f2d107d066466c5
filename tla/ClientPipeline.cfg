SPECIFICATION FairSpec
CONSTANTS
    ReceiveCapacity = 2
    DecodeCapacity = 1
    MaxRetries = 2
    MaxFrames = 3
PROPERTIES RenderForward ExitIsFinal QuitEndsProcess LostConnectionResolved
CHECK_DEADLOCK FALSE
