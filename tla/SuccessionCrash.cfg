SPECIFICATION MCFairSpec
CONSTANTS
    Units = {"app", "db"}
    Pids = {1, 2, 3}
    Overlap = FALSE
    LastStart = 6
INVARIANTS
    TypeOK
    OwnershipKnown
    RecordedIsAlone
PROPERTIES
    SparesForeign
    AloneIsServed
CHECK_DEADLOCK FALSE
