SPECIFICATION Spec
CONSTANTS
    MaxPending = 2
    DropPolicy = "drop_oldest_non_key"
    StaleDrop = TRUE
    KeepAliveBudget = 1
    MsgUnits = 2
    MaxFrames = 3
INVARIANTS QueueBound WireWellFormed FramesAccountedFor StoppedIsClosed
PROPERTIES NonKeySparesKey ImplementsSessionLife
