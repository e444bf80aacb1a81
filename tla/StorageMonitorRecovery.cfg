CONSTANTS
    f1 = f1
    None = None
    Files = {f1}
    MaxEvents = 2
SPECIFICATION Spec
INVARIANT AvailableIsRecovered
CHECK_DEADLOCK FALSE
