CONSTANTS
    s1 = s1
    s2 = s2
    p1 = p1
    p2 = p2
    p3 = p3
    w1 = w1
    w2 = w2
    None = None
    Healthy = {w1, w2}
    Sources = {s1, s2}
    Workers = {w1, w2}
    Paths = {p1, p2}
    Candidates <- OneName
    MaxSize = 2
    MaxTries = 2
    ChunkSize = 2
    Margin = 1
    MinSize = 2
    MaxQuiet = 2
SPECIFICATION Spec
INVARIANT NothingLost
CHECK_DEADLOCK FALSE
