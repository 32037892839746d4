SPECIFICATION Spec
CONSTANTS
    Fds = {1, 3}
    Size = 2
    IoNum = 2
    Ioes = {i1, i2, i3, i4}
    NoIoe = NoIoe
    Poison = Poison
INVARIANTS TypeOK BucketSound DelOwn WatchSound
PROPERTY Implements
SYMMETRY Symmetry
