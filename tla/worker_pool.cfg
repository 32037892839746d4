SPECIFICATION Spec
CONSTANTS
    ThreadNum = 2
    Clients = {c1, c2}
    Events = {e1, e2}
    NoEvent = NoEvent
    Dispatchers <- Clients
    Kinds <- KindsRefused
    HighNormRatio = 2
    SplitRound = FALSE
    CallsFini = FALSE
    Spurious = FALSE
    StartFails = TRUE
INVARIANTS OnePlace RouteInRange StartSafe ConvarsDown
SYMMETRY Symmetry
CHECK_DEADLOCK FALSE
