SPECIFICATION MCSpec
CONSTANTS
    Units <- Pair
    Rank <- DependentFirst
    Declarations <- ProbedOverOwned
    ForceAll = FALSE
    ToDone = FALSE
    ReAdd = FALSE
    Faults = 2
    Requests = 1
    Edits = 0
    Signals = 0
    AllEnabled = TRUE
INVARIANTS
    TypeOK
    Bookkeeping
    Custody
    BusyIsAnswered
    RunningIsWatched
    WaitingHasTimer
PROPERTIES
    EveryUnitLives
