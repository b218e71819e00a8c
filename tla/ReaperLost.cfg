SPECIFICATION Spec
CONSTANTS
    Children = {"unit", "probe"}
    Pids = {1, 2, 3}
    Reuse = FALSE
CHECK_DEADLOCK FALSE
INVARIANTS
    NeverLost
