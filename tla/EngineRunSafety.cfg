CONSTANTS
    N = 3
    M = 4
    Workers = {w1, w2}
    Profiles <- MCProfiles
    Modes <- MCModes
    MinWork = 0
    Breakable = TRUE
SPECIFICATION Spec
SYMMETRY Alike
INVARIANTS
    TypeOK
    FirstFailureReported
    NoDegradedEntry
    EveryFileOnce
PROPERTY KeepsPromise
