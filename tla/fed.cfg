SPECIFICATION FairSpec
CONSTANTS
    a = a
    b = b
    c = c
    Registry = {a, b, c}
    Origin = a
    Peers <- Mesh
    MaxHops <- MixedHops
    Own <- OwnMixed
    Margin = 2
    MinUseful = 2
    MaxPeers = 3
    Unresponsive = {b}
    Lag = 1
    Sweeps = TRUE
INVARIANTS
    HandledOnce
    
    HopsRespected
    ResponsiveNotTimedOut
PROPERTIES
    OriginAnswers
CHECK_DEADLOCK FALSE
