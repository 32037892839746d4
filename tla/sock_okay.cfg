SPECIFICATION Spec
CONSTANTS
    Workers = {w1}
    Clients = {}
    Ios = {i1, i2}
    NoIo = NoIo
    Events = {e1, e2, e3}
    NoEvent = NoEvent
    NoType = NoType
INVARIANTS OkayWritten
SYMMETRY Symmetry
CHECK_DEADLOCK FALSE
