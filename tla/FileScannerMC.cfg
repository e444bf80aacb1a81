CONSTANTS
    s1 = s1
    s2 = s2
    m1 = m1
    m2 = m2
    None = None
    Scans = {s1, s2}
    Loops = {m1}
    MinSize = 2
    GrowthTimeout = 1
    MaxSize = 2
SPECIFICATION FairSpec
INVARIANT TypeOK
INVARIANT IInv
INVARIANT StableMeansQuiet
INVARIANT ToldTheTruth
PROPERTY ReadyMeansQuiet
PROPERTY Settles
PROPERTY PauseIsComplete
