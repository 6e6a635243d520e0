SPECIFICATION FairSpec
CONSTANTS
    Clients = {c1, c2, c3, c4}
    Resources = {r1, r2}
    NoResource = NoResource
    MinSize = 0
    MaxSize = 2
    IdleTimeout = 1
    HasTimeout = TRUE
    MaxClock = 1
INVARIANTS Accounting NoLostWakeup ExclusiveOwnership
PROPERTIES PruneExact ImplementsLease WaitersLeave
