SPECIFICATION MCSpec
CONSTANTS
    Subscribers <- MCSubscribers
    Envelopes <- MCEnvelopes
    Declarations <- MCDeclarations
    SourceOrder <- MCSourceOrder
    MaxHop = 3
    MaxRecords = 4
    CoalesceWindow = 1
    WakeWindow = 2
    MaxWakes = 1
    Cuts = {}
    Announced = 1
    Disturbed = 1
CHECK_DEADLOCK FALSE
INVARIANTS
    DeliversNothingTwice
