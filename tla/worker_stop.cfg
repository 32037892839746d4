SPECIFICATION FairSpec
CONSTANTS
    ThreadNum = 1
    Clients = {c1}
    Events = {e1, e2}
    NoEvent = NoEvent
    Dispatchers <- Clients
    Kinds <- KindsIdle
    HighNormRatio = 2
    SplitRound = FALSE
    CallsFini = TRUE
    Spurious = FALSE
    StartFails = FALSE
PROPERTIES StopEnds
CHECK_DEADLOCK FALSE
