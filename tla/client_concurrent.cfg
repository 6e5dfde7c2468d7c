CONSTANTS
    c1 = c1
    c2 = c2
    c3 = c3
    Calls = {c1, c2, c3}
    Cancellable = {}
    MaxConcurrent = 2
    MaxReconnects = 1
    MaxAttempts = 2
    FailureThreshold = 2
    MaxFaults = 1
SPECIFICATION Spec
INVARIANTS
    MutationSentOnce
    RefusedWasNotSent
    ReconnectsBounded
    TurnsLostToOthers
PROPERTY
    ImplementsContract
SYMMETRY
    Interchangeable
