SPECIFICATION Spec
CONSTANTS
    ThreadNum = 1
    Clients = {c1}
    Events = {e1, e2}
    NoEvent = NoEvent
    Dispatchers <- AllThreads
    Kinds <- KindsMixed
    HighNormRatio = 2
    SplitRound = TRUE
    CallsFini = TRUE
    Spurious = TRUE
    StartFails = TRUE
INVARIANTS TypeOK SleepSafe PendingExact UrgentFirst DrainBeforeExit ConvarsDown
SYMMETRY Symmetry
CHECK_DEADLOCK FALSE
