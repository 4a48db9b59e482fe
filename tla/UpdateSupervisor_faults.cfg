SPECIFICATION FairSpec
CONSTANTS
    b1 = b1
    b2 = b2
    b3 = b3
    r1 = r1
    r2 = r2
    Builds <- TwoBuilds
    Rows <- TwoRows
    Bundled = Bundled
    NoPath = NoPath
    DiskFaults = TRUE
    DiesWhileStaged = TRUE
INVARIANTS
    ServesActiveBinary
    RequestedExitHasRequest
PROPERTIES
    AttemptEnds
