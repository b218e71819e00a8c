SPECIFICATION FairSpec
CONSTANTS
    Sessions = {s1}
    Limit = 0
    Written = 2
    Watches = 2
    Disturbed = 1
    Modes = {"foreman"}
CHECK_DEADLOCK FALSE
INVARIANTS
    TypeOK
    ConsumedWasShown
    QuietMeansNothingNew
    OrphanStops
PROPERTIES
    EveryRecordIsShown
