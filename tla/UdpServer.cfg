SPECIFICATION FairSpec
CONSTANTS
    Clients = {c1, c2}
    Fragments = 2
    FecOn = TRUE
    NackOn = TRUE
    CacheFrames = 2
    CacheAge = 1
    MaxPerRequest = 2
    ClientTimeout = 1
    NackSizes = {3}
    MaxLag = 1
    MaxRequested = 3
    MaxFrames = 3
INVARIANTS CacheOldestFirst NackFindsWhatIsKept StoppedIsEmpty
PROPERTY SilentClientForgotten
