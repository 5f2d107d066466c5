SPECIFICATION Spec
CONSTANTS
    MaxPending = 1
    DropPolicy = "drop_oldest"
    StaleDrop = FALSE
    KeepAliveBudget = 1
    MsgUnits = 1
    MaxFrames = 1
INVARIANT ClosedOnce
