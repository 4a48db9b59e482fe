SPECIFICATION FairRemoteSpec
CONSTANTS
    h1 = h1
    h2 = h2
    Configs <- ThreeConfigs
    MaxCalls = 2
CHECK_DEADLOCK FALSE
INVARIANTS
    RemoteTypeOK
    OneNodeAtATime
    OnlineIsServed
    ShutdownIsClean
    
PROPERTIES
    DisableTakesEffect
