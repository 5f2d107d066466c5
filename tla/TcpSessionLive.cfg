SPECIFICATION FairSpec
CONSTANTS
    MaxPending = 1
    DropPolicy = "drop_oldest"
    StaleDrop = FALSE
    KeepAliveBudget = 2
    MsgUnits = 2
    MaxFrames = 1
PROPERTIES StopReturns DeadPeerEndsSession
