SPECIFICATION ReadsSpec
CONSTANTS
    Reserve = 5
    Notice = 4
    Window = 4
    Requests <- RequestsMC
    MaxResponseBytes = 8
    FirstManifests <- ManifestsMC
    LaterManifests <- LaterMC
    OtherTexts <- TextsMC
    MaxUpgrades = 1
INVARIANTS
    
    BudgetKept
