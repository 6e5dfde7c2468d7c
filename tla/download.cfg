SPECIFICATION Spec
CONSTANTS
    Processes = {p1, p2}
    Versions = {v1, v2}
    MaxChunks = 1
    MaxKills = 1
    MaxDamages = 1
INVARIANTS
    TargetVerified
    RunsItsVersion
    OnlyKillsLeaveFiles
