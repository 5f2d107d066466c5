SPECIFICATION Spec
CONSTANTS
    MaxSeq = 3
    Sizes = {1, 3}
    MaxFragment = 2
    JitterModes = {TRUE, FALSE}
    FecOn = TRUE
    NackOn = TRUE
    AssemblyTimeout = 1
    NackDelay = 1
    NackRetry = 1
    NackMaxRetries = 1
    Window = 3
    Delays = {0, 1}
    MaxWait = 1
    MaxDepth = 2
INVARIANTS CompletedIsKept CompletedIsTheFrame
