SPECIFICATION Spec
CONSTANTS
    Jobs = {j1}
    Sources = {s1, s2}
    LeaseMs = 1
    MaxReclaims = 1
    Delays <- MCDelays
    ClaimLimit = 1
    ReclaimBatch = 1
    MaxTime = 4
    MaxClaims = 3
SYMMETRY SourceSymmetry
CHECK_DEADLOCK FALSE
INVARIANTS
    TypeOK
    LeaseFencing
    TerminalDeliveries
    WakesKept
PROPERTIES
    ImplementsLifecycle
