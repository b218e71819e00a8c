SPECIFICATION MCSpec
CONSTANTS
    Sessions = {s1}
    Limit = 1
    Written = 2
    Watches = 1
    Disturbed = 0
    Modes = {"foreman"}
CHECK_DEADLOCK FALSE
INVARIANTS
    ConsumedWasShown
