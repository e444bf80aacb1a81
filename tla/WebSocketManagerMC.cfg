CONSTANTS
    None = None
    MaxClients = 3
    MaxChanges = 2
    MaxCasts = 2
SPECIFICATION FairSpec
INVARIANT TypeOK
INVARIANT NoStaleView
INVARIANT IInv
PROPERTY NewsArrives
CHECK_DEADLOCK FALSE
