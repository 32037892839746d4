SPECIFICATION FairSpec
CONSTANTS
    ThreadNum = 1
    Clients = {c1}
    Events = {e1, e2, e3}
    NoEvent = NoEvent
    Dispatchers <- AllThreads
    Kinds <- KindsHighNorm
    HighNormRatio = 1
    SplitRound = FALSE
    CallsFini = FALSE
    Spurious = FALSE
    StartFails = FALSE
PROPERTIES Served Implements
