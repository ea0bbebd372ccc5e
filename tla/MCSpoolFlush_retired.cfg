CONSTANTS
    None = None
    Message = {m1, u1, o1, n1, v1, r1}
    Unknown = {u1}
    Outdated = {o1}
    Orphaned = {n1}
    Invalid = {v1}
    Rejected = {r1}
    Flusher = {p1}
    Inode = {i1}
    MaxSpool = 2
    MaxPerRun = 1
    MaxWrites = 2
    MaxAges = 1
    MaxDeaths = 1
SPECIFICATION FairSpec
CHECK_DEADLOCK FALSE
VIEW Control
PROPERTIES EntryLeaves
