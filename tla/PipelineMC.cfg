CONSTANTS
    f1 = f1
    w1 = w1
    None = None
    Files = {f1}
    Workers = {w1}
    Verdicts <- AnyVerdict
    MaxLoop = 3
    MaxJobs = 1
SPECIFICATION Spec
INVARIANT TypeOK
INVARIANT QueuedHasJob
INVARIANT WaitingHasRetry
INVARIANT IInv
CHECK_DEADLOCK FALSE
PROPERTY UsesTheRegistry
