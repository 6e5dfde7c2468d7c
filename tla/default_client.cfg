SPECIFICATION FairSpec
CONSTANTS
    Tasks = {t1, t2, t3}
    Cancellable = {t1}
    MaxReconnects = 1
    MaxFaults = 1

    
PROPERTY
    TaskEnds
