SPECIFICATION Spec
CONSTANTS
    Emits = {e1, e2}
    ThreadNums = {1, 2}
    MaxCalls = 4
    MaxLate = 1
    NoEmit = NoEmit
SYMMETRY Symmetry
CHECK_DEADLOCK FALSE
INVARIANTS TypeOK  DownClean Layered CacheBalanced
