SPECIFICATION Spec
CONSTANTS
    Clients = {c1}
    Workers = {w1}
    Epoll = epoll
    Callers = {c1, w1, epoll}
    Socks = {s1, s2}
    Servs = {v1}
    NoObj = NoObj
    Fds = {f1, f2}
    NoFd = NoFd
    Ioes = {i1, i2}
    NoIoe = NoIoe
    Events = {e1}
    NoEvent = NoEvent
    Reports <- ReportsOne
    NoFault = NoFault
INVARIANTS TypeOK TouchSafe CloseSafe DestroyComplete CacheBalanced PendExact
SYMMETRY Symmetry
CHECK_DEADLOCK FALSE
