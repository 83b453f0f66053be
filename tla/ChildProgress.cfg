SPECIFICATION FairSpec
CONSTANTS
    Jobs = {1, 2}
    Roots <- FirstChild
    Stopped = {2}
    ParentRuns = FALSE
    PageSize = 1
    MaxParallelism = 1
    MaxFaults = 1
PROPERTIES
    SiblingsDelivered
    DeletionEnds
