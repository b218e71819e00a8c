SPECIFICATION MCSpec
CONSTANTS
    Sessions = {s1}
    Limit = 0
    Written = 2
    Watches = 1
    Disturbed = 1
    Modes = {"foreman", "peek"}
CHECK_DEADLOCK FALSE
INVARIANT EveryOrphanStops
