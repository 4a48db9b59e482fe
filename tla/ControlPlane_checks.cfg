SPECIFICATION CheckedSpec
CONSTANTS
    k1 = k1
    k2 = k2
    pA = pA
    pB = pB
    m1 = m1
    m2 = m2
    n1 = n1
    n2 = n2
    f1 = f1
    g1 = g1
    g2 = g2
    e1 = e1
    e2 = e2
    u1 = u1
    u2 = u2
    s1 = s1
    s2 = s2
    s3 = s3
    x1 = x1
    x2 = x2
    r1 = r1
    r2 = r2
    root = root
    inner = inner
    Keys <- TwoKeys
    Models <- TwoModels
    Formats <- OneFormat
    Unknown = Unknown
    ProviderOf <- OneProvider
    Groups <- TwoGroups
    Sources <- AllSources
    Editors <- TwoEdits
    Inputs <- FourInputs
    Batches <- AllAtOnce
    MaxEdits = 2
    Messages <- TwoMessages
    SessionIds <- ThreeSessions
    CredentialIds <- TwoKeys
    Secrets <- TwoSecrets
    Handlers <- TwoEdits
    Calls <- TwoCalls
    MaxItems = 2
    MaxRecent = 1
    None = None
    Ladders <- TwoGroupLadders
    Root = root
    Routes <- FourRoutes
    MaximumDepth = 2
    MaximumStages = 4
    MaximumRoutes = 12
    MaximumAttempts = 14
    mA = mA
    mB = mB
    p1 = p1
    p2 = p2
    Unlimited = Unlimited
    MaxInt64 = 1023
    Queries <- PairedQueries
    MaxFrames = 4
    MaxAnswers = 2
SYMMETRY Interchangeable
CHECK_DEADLOCK FALSE
INVARIANTS
    ControlTypeOK
    RemovedClientsHaveNoRoutes
    EachNewModelAnnouncedOnce
    ReferencesResolve
    EnabledCyclesOnlyFromRaces
    CacheFollowsTheStore
    FollowersPinTheCatalog
    ConversationKeepsItsSession
    CredentialsAreFollowed
    PlanFollowsTheLadder
    RankingIsSound
    StreamsKeepFaith
PROPERTIES
    RefreshKeepsWhatItKnew
    NoLostUpdate
