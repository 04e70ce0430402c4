CONSTANTS
    e1 = e1
    e2 = e2
    p1 = p1
    p2 = p2
    Executors <- MCExecutors
    Processes <- MCOneProcess
    None = None
    Wildcard = Wildcard
    MaxRetries = 1
    MaxWaitTime = 1
    MaxAdminOps = 0
SPECIFICATION Spec
INVARIANT RunningHasAttributes
