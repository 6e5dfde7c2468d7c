CONSTANTS
    c1 = c1
    c2 = c2
    c3 = c3
    Calls = {c1, c2, c3}
    Cancellable = {c1}
    MaxConcurrent = 1
    MaxReconnects = 1
    MaxAttempts = 2
    FailureThreshold = 2
    MaxFaults = 2
SPECIFICATION FairSpec
INVARIANTS
    PermitsAccounted
PROPERTY
    CallEnds
