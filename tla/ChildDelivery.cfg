SPECIFICATION Spec
CONSTANTS
    Jobs = {1, 2}
    Roots <- ChildAndParent
    Stopped = {1}
    ParentRuns = TRUE
    PageSize = 1
    MaxParallelism = 2
    MaxFaults = 1
INVARIANTS
    AcknowledgedMeansTold
    RemovedClean
