SPECIFICATION MCSpec
CONSTANTS
    Units <- Solo
    Rank <- SoloRank
    Declarations <- EitherProvider
    ForceAll = FALSE
    ToDone = FALSE
    ReAdd = FALSE
    Faults = 0
    Requests = 0
    Edits = 1
    Signals = 1
    AllEnabled = TRUE
INVARIANTS
    ExitLeavesNothing
