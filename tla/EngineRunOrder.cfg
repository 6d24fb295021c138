CONSTANTS
    N = 2
    M = 2
    Workers = {w1, w2}
    Profiles <- MCProfiles
    Modes <- MCModes
    MinWork = 2
    Breakable = FALSE
SPECIFICATION OrderSpec
INVARIANT FirstProduced
