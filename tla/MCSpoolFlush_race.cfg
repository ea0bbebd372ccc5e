CONSTANTS
    None = None
    Message = {m1}
    Unknown = {}
    Outdated = {}
    Orphaned = {}
    Invalid = {}
    Rejected = {}
    Flusher = {p1, p2}
    Inode = {i1, i2, i3}
    MaxSpool = 2
    MaxPerRun = 0
    MaxWrites = 3
    MaxAges = 1
    MaxDeaths = 1
SPECIFICATION Spec
CHECK_DEADLOCK FALSE
SYMMETRY Symmetry
INVARIANTS NothingLost DoubleExplained
