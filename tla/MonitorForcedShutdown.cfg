SPECIFICATION FairSpec
CONSTANTS
    Units <- Solo
    Rank <- SoloRank
    Declarations <- OnFailure
    ForceAll = FALSE
    ToDone = FALSE
    ReAdd = FALSE
    Faults = 1
    Requests = 1
    Edits = 0
    Signals = 2
    AllEnabled = TRUE
PROPERTIES
    ForcedShutdownCompletes
