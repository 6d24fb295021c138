CONSTANTS
    Procs = {p1, p2}
    Files = {"a"}
    Paths <- MCPaths
    Contents <- MCContents
    Listings = {"l1"}
    Expiring = {"e1"}
    Ask <- MCAsk
    Values <- MCValues
    Absent = Absent
    Refused = Refused
    Seeds <- MCSeeds
    MaxDay = 1
    MaxEdits = 1
SYMMETRY MCSymmetry
SPECIFICATION Spec
INVARIANTS
    TypeOK
    ServedIsCold
    WarmRunHits
    HonestStore
