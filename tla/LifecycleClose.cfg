SPECIFICATION Spec
CONSTANTS
    Fetchers = {f1}
    RetryLimit = 2
    MaxFaults = 3
INVARIANTS
    AlwaysClosed
CHECK_DEADLOCK FALSE
