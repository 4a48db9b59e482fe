SPECIFICATION PlanSpec
CONSTANTS
    pA = pA
    pB = pB
    m1 = m1
    m2 = m2
    root = root
    inner = inner
    None = None
    Ladders <- TwoGroupLadders
    Root = root
    Routes <- FourRoutes
    MaximumDepth = 2
    MaximumStages = 4
    MaximumRoutes = 12
    MaximumAttempts = 14
CHECK_DEADLOCK FALSE
INVARIANT PlanHonoursEveryStage
