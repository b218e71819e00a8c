SPECIFICATION AnswerSpec
CONSTANTS
    Units <- Chain
    Rank <- ChainDown
    Declarations <- InARow
    ForceAll = FALSE
    ToDone = FALSE
    ReAdd = FALSE
    Faults = 2
    Requests = 0
    Edits = 0
    Signals = 2
    AllEnabled = TRUE
INVARIANTS
    ExitLeavesNothing
PROPERTIES
    SweepSettles
    DependentsStopFirst
    ShutdownCompletes
