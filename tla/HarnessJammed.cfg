SPECIFICATION FairSpec
CONSTANTS
    Clients = {c1, c2}
    Jobs = {job}
    Intents = {i1}
    Timed = {i1}
    Digests = {d1}
    MaxInput = 2
    Free = Free
    Budget = 3
CHECK_DEADLOCK FALSE
PROPERTY EveryJobSettles
