SPECIFICATION FairSpec
CONSTANTS
    Fetchers = {f1}
    RetryLimit = 2
    MaxFaults = 3
INVARIANTS
    LifecycleInv
    ClosedAfterIndexer
    OutagesAreTolerated
    StopsForAReason
    ChildIsStopped
PROPERTIES
    StopEnds
CHECK_DEADLOCK FALSE
