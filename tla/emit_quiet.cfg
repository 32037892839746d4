SPECIFICATION Spec
CONSTANTS
    Workers = {w1, w2}
    Clients = {c1}
    Emits = {m1, m2}
    Events = {e1, e2}
    Types = {0}
    NoType = NoType
    NoEvent = NoEvent
    NoEmit = NoEmit
    Quiet = TRUE
    BadPriority = TRUE
    Removes = TRUE
    MaxPendings = 2
INVARIANTS TypeOK PendingsCover EmitAlive FiniSafe
SYMMETRY Symmetry
