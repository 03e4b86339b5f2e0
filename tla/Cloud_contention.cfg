SPECIFICATION Spec
CONSTANTS
    v1 = v1
    v2 = v2
    v3 = v3
    h1 = h1
    h2 = h2
    s1 = s1
    s2 = s2
    Host = {h1}
    Vm = {v1, v2, v3}
    Sched = {s1, s2}
    Capacity <- Three
    Usage <- UsageMixed
    Batch <- Singles
    AllowVmOvercommit = FALSE
    Selection = "fitting"
    MaxReportsInFlight = 0
    InitHosts = {}
    InitScheds = {s1}
    LateHosts = {h1}
    DirectVm = {v2}
INVARIANTS
    TypeOK
    AllocationInv
    ViewsBalanced
    ViewCatchesUp
    StoreWithinCapacity
    NoHostRejection
PROPERTIES
    ImplementsVmPlacement
CHECK_DEADLOCK FALSE
