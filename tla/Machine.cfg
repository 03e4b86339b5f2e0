SPECIFICATION MachineSpec
CONSTANTS
    c1 = c1
    c2 = c2
    o1 = o1
    Comp = {c1, c2}
    Owner = {o1}
    CoresTotal = 3
    MemoryTotal = 2
    MinCores <- MinCoresMC
    MaxCores <- MaxCoresMC
    CompMemory <- MemoryMC
    Flops <- FlopsMC
    Speedup <- SpeedupMC
    Allocation <- AllocationMC
    d1 = d1
    d2 = d2
    m1 = m1
    m2 = m2
    p1 = p1
    Disk = {d1, d2}
    DiskCapacity <- CapacityMC
    TotalLimit <- TotalLimitMC
    OpsLimit <- OpsLimitMC
    MountPoint = {m1, m2}
    Path = {p1}
    Covers <- CoversMC
    Size = {1, 2}
    MaxRequests = 3
INVARIANTS
    TypeOK
    NoPanic
    EndsOnce
    Conversation
    CompletionOnTime
    ResourcesConserved
    SpaceAccounted
    RequestsTracked
    SchedulerConsistent
PROPERTIES
    AnswersCome
    EveryRequestAnswered
CHECK_DEADLOCK FALSE
