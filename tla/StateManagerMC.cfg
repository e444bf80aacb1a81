CONSTANTS
    p1 = p1
    Paths = {p1}
    MaxFiles = 2
    MaxTasks = 2
    MaxPending = 2
    Targets <- MCTargets
    Verdicts <- MCVerdicts
SPECIFICATION FairSpec
INVARIANT TypeOK
INVARIANT NoOrphanRetry
INVARIANT PendingRetryRecorded
INVARIANT ViewLagsOnlySilently
INVARIANT IInv
PROPERTY DeadBeforeAnnounced
PROPERTY EventsAreTrue
PROPERTY FiredRetryEnds
PROPERTY MethodsAreAtomic
