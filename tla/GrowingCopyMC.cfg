CONSTANTS
    s1 = s1
    s2 = s2
    p1 = p1
    p2 = p2
    p3 = p3
    w1 = w1
    w2 = w2
    None = None
    Healthy = {w1}
    Sources = {s1}
    Workers = {w1, w2}
    Paths = {p1, p2}
    Candidates <- NumberedName
    MaxSize = 2
    MaxTries = 2
    ChunkSize = 1
    Margin = 1
    MinSize = 1
    MaxQuiet = 1
SPECIFICATION FairSpec
INVARIANT TypeOK
INVARIANT LossHasCause
INVARIANT IInv
PROPERTY PromiseKept
PROPERTY CopyEnds
CHECK_DEADLOCK FALSE
