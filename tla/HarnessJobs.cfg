SPECIFICATION FairSpec
CONSTANTS
    Clients = {c1, c2}
    Jobs = {job}
    Intents = {i1, i2}
    Timed = {i1}
    Digests = {d1}
    MaxInput = 2
    Free = Free
    Budget = 4
CHECK_DEADLOCK FALSE
INVARIANTS
    TypeOK
    AtMostOnce
    FedInSequence
    AcceptedWasFed
    StopIsBarrier
PROPERTIES
    OutcomeIsFinal
    SettlesUnlessJammed
