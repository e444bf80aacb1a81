CONSTANTS
    s1 = s1
    m1 = m1
    None = None
    Scans = {s1}
    Loops = {m1}
    MinSize = 2
    GrowthTimeout = 1
    MaxSize = 2
SPECIFICATION Spec
INVARIANT StableSinceIsTrue
CHECK_DEADLOCK FALSE
