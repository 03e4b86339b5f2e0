SPECIFICATION FairSpec
CONSTANTS
    App <- AppMC
    Limit <- LimitMC
    Share <- ShareMC
    Needs <- NeedsMC
    Scenarios <- ScenariosMC
INVARIANTS
    InvocationsPlaced
    ContainersAccounted
    CpuShared
    NothingWaitsNeedlessly
PROPERTIES
    EveryInvocationFinishes
CHECK_DEADLOCK FALSE
