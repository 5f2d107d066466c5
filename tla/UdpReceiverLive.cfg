SPECIFICATION FairSpec
CONSTANTS
    MaxSeq = 4
    Sizes = {1}
    MaxFragment = 2
    JitterModes = {TRUE}
    FecOn = FALSE
    NackOn = FALSE
    AssemblyTimeout = 1
    NackDelay = 1
    NackRetry = 1
    NackMaxRetries = 1
    Window = 4
    Delays = {0, 1}
    MaxWait = 1
    MaxDepth = 3
PROPERTY BufferedLeaves
