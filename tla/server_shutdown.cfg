CONSTANTS
    c1 = c1
    c2 = c2
    Calls = {c1, c2}
    Requests <- RequestsMC
    NoCall = NoCall
    PropagateCancel = TRUE
    DrainLimit = 1
SPECIFICATION FairSpec
PROPERTY
    GracefulShutdown
