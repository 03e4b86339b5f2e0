SPECIFICATION Spec
CONSTANTS
    v1 = v1
    v2 = v2
    v3 = v3
    h1 = h1
    h2 = h2
    s1 = s1
    s2 = s2
    Host = {h1}
    Vm = {v1, v2, v3}
    Sched = {s1, s2}
    Capacity <- Two
    Usage <- UsageOne
    Batch <- PairOrSingle
    AllowVmOvercommit = FALSE
    Selection = "fitting"
    MaxReportsInFlight = 0
    InitHosts = {h1}
    InitScheds = {s1, s2}
    LateHosts = {}
    DirectVm = {}
SYMMETRY SchedSymmetry
INVARIANTS
    StoreWithinCapacity
CHECK_DEADLOCK FALSE
