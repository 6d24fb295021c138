CONSTANTS
    t1 = t1
    t2 = t2
    Threads <- MCThreads
    Main = t1
    Types = {"A", "B"}
    MaxAsks = 2
    MaxRuns = 3
    MaxStray = 2
SPECIFICATION FairProviderSpec
INVARIANTS
    OwnAnswer
    InStep
    FailureKept
    NoCarryOver
    RightProvider
PROPERTY QuestionsEnd
