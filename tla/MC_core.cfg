CONSTANTS
    e1 = e1
    e2 = e2
    p1 = p1
    p2 = p2
    Executors <- MCExecutors
    Processes <- MCProcesses
    None = None
    Wildcard = Wildcard
    MaxRetries = 1
    MaxWaitTime = 1
    MaxAdminOps = 0
SYMMETRY Symmetry
SPECIFICATION Spec
INVARIANT TypeOK
INVARIANT RunningIsAssigned
PROPERTY Assignment
