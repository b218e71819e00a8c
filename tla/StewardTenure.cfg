SPECIFICATION FairSpec
CONSTANTS
    Shells <- Terminals
    Stoppers = {"x"}
    AgentOf <- TwoAgents
    Messages = {"m"}
    Budgets <- AllBudgets
CHECK_DEADLOCK FALSE
INVARIANTS
    TypeOK
    ReportIsFresh
    StoppedIsOver
PROPERTIES
    FencedStandsDown
