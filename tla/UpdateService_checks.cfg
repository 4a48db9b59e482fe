SPECIFICATION CheckedSpec
CONSTANTS
    o1 = o1
    o2 = o2
    p1 = p1
    p2 = p2
    p3 = p3
    Ops <- TwoOps
    MaxVersion = 3
    MaxEvents = 3
    Supervisors <- ThreeSupervisors
    Nobody = Nobody
    Windows = FALSE
INVARIANTS
    LockIsKept
    ServiceTypeOK
    RequestIsExtracted
    RunsLastPromoted
    FailedBuildStaysOut
PROPERTIES
    NoDowngrade
    UpdatesReachTheApp
    OperationsEnd
