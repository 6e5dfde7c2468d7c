CONSTANTS
    t1 = t1
    t2 = t2
    t3 = t3
    Tokens = {t1, t2, t3}
    ExpiresAt <- ExpiresAtMC
    InactivityTTL = 2
    MaxEntries = 2
    MaxTime = 5
SPECIFICATION CacheFairSpec
INVARIANT
    Capped
PROPERTIES
    LosesOnlyOldest
    ExpiredPurged
