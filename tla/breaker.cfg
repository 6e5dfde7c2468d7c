CONSTANTS
    c1 = c1
    c2 = c2
    c3 = c3
    Callers = {c1, c2, c3}
    FailureThreshold = 2
    RecoveryTimeout = 2
SPECIFICATION FairSpec
INVARIANT
    ClosedBelowThreshold
PROPERTIES
    RestsAfterFailure
    Recovers
