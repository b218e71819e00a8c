SPECIFICATION ReloadSpec
CONSTANTS
    Units <- Pair
    Rank <- DependencyFirst
    Declarations <- MayRequire
    ForceAll = FALSE
    ToDone = FALSE
    ReAdd = FALSE
    Faults = 1
    Requests = 0
    Edits = 1
    Signals = 0
    AllEnabled = FALSE
PROPERTIES
    Converges
    EveryUnitLives
