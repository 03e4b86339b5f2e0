SPECIFICATION Spec
CONSTANTS
    App <- AppMC
    Limit <- LimitMC
    Share <- ShareMC
    Needs <- NeedsMC
    Scenarios <- QueueMC
INVARIANT CpuNotOverloaded
CHECK_DEADLOCK FALSE
