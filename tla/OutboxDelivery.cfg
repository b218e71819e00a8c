SPECIFICATION FairSpec
CONSTANTS
    Subscribers <- MCSubscribers
    Envelopes <- MCEnvelopes
    Declarations <- MCDeclarations
    SourceOrder <- MCSourceOrder
    MaxHop = 3
    MaxRecords = 1
    CoalesceWindow = 1
    WakeWindow = 2
    MaxWakes = 1
    Cuts = {"nothing", "fragment", "unended"}
    Announced = 3
    Disturbed = 2
CHECK_DEADLOCK FALSE
INVARIANTS
    TypeOK
    SequencesDiffer
    DeliveredRight
    WakeIsNotOutranked
PROPERTIES
    OutboxIsAChannel
    EveryDebtIsSettled
