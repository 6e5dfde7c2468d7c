CONSTANTS
    r1 = r1
    r2 = r2
    t1 = t1
    k1 = k1
    k2 = k2
    u1 = u1
    u2 = u2
    NoUrl = NoUrl
    Requests = {r1, r2}
    Tokens = {t1}
    Kids = {k1, k2}
    Urls = {u1, u2}
    ExpiresAt <- ExpiresAtMC
    KidOf <- KidOfMC
    Authorised = {t1}
    InactivityTTL = 2
    MaxEntries = 1
    KeysTTL = 2
    MinRefresh = 1
    FetchTimeout = 1
    MaxRotations = 1
    MaxTime = 3
SPECIFICATION FairSpec
PROPERTIES
    RotationSeen
    WithdrawnKeyForgotten
    RequestAnswered
