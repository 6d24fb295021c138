CONSTANTS
    Slots = {"s1", "s3"}
    Instances = {"i1", "i2"}
    InstanceOf <- MCInstanceOf
    Timeouts = {0, 2, 20}
    RunLimits = {4, 20}
    Ceiling = 2
    Growths = {1, 2}
    MaxNanos = 9
    Horizon = 5
    MaxDepth = 2
SPECIFICATION Spec
INVARIANTS
    OwnTimeOnly
    BlameIsTrue
    CeilingHolds
