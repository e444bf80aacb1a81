CONSTANTS
    f1 = f1
    None = None
    Files = {f1}
    MaxEvents = 2
SPECIFICATION FairSpec
INVARIANT TypeOK
INVARIANT NoneLeftBehind
INVARIANT IInv
PROPERTY EchoesGoOn
PROPERTY OutageEnds
PROPERTY KnowsTheLevel
CHECK_DEADLOCK FALSE
