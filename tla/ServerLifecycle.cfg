SPECIFICATION FairSpec
CONSTANTS
    Buffers = 2
    RawCapacity = 3
    MaxStarts = 3
    MaxFrames = 6
INVARIANTS BroadcastReachesTransport DeviceOutlivesUse StartedOrClean
PROPERTIES SentForward StopCompletes
CHECK_DEADLOCK FALSE
