SPECIFICATION FairSpec
CONSTANTS
    Cores <- CoresMC
    Memory <- MemoryMC
    FlopTime <- FlopTimeMC
    UnitTime = 1
    Latency = 1
    CoreWrap = 8
    Scenarios <- ScenariosMC
    UserDecisions <- UserDecisionsMC
INVARIANTS
    BooksAgree
    InputsOnTheirWay
    PlanFeasible
PROPERTIES
    DagCompletes
CHECK_DEADLOCK FALSE
