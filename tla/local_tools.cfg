SPECIFICATION FairSpec
CONSTANTS
    c1 = c1
    c2 = c2
    Calls = {c1, c2}
    Deps = {d1, d2}
    Plugins = {p}
    Requests <- RequestsMC
    MaxEdits = 1
INVARIANTS
    RendersComplete
    HelmEndsWithItsCall
PROPERTIES
    CallEnds
