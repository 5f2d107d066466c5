SPECIFICATION FairSpec
CONSTANTS
    Window = 3
    Refresh = 2
    MinSamples = 2
    HighRun = 2
    LowRun = 2
    HoldTicks = 2
    BaseWait = 80
    BaseFrames = 8
    Configs <- MCConfigs
    MaxRetries = 2
    Descriptors = {1, 2}
    Samples = {0, 4, 30}
    Losses = {0}
INVARIANTS ThreadNeverOverwritten SocketsHeld StrategyHolds
PROPERTIES ModeAfterRun EstimatorSettles DeadKeepAliveNoticed LeavingEndsThreads
CHECK_DEADLOCK FALSE
