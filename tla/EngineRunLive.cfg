CONSTANTS
    N = 3
    M = 3
    Workers = {w1, w2}
    Profiles <- MCLiveProfiles
    Modes <- MCLiveModes
    MinWork = 3
    Breakable = FALSE
SPECIFICATION FairSpec
PROPERTIES RunEnds RetriesSucceed
