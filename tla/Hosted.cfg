SPECIFICATION HostedSpec
CONSTANTS
    x1 = x1
    x2 = x2
    x3 = x3
    e1 = e1
    e2 = e2
    m1 = m1
    Lease = 3
    Margin = 1
    MaxClaims = 2
    MaxBeats = 2
    MaxYields = 2
    MaxTime = 5
SYMMETRY Attempts
CHECK_DEADLOCK FALSE
INVARIANTS
    WorkerKnows
    LedgerMatchesHost
    InstancesEnd
PROPERTIES
    LeaseEndsOnce
