SPECIFICATION FairSpec
CONSTANTS
    v1 = v1
    v2 = v2
    v3 = v3
    h1 = h1
    h2 = h2
    s1 = s1
    s2 = s2
    Host = {h1}
    Vm = {v1, v3}
    Sched = {s1}
    Capacity <- Tight
    Usage <- UsageMixed
    Batch <- Singles
    AllowVmOvercommit = TRUE
    Selection = "any"
    MaxReportsInFlight = 1
    InitHosts = {h1}
    InitScheds = {s1}
    LateHosts = {}
    DirectVm = {v3}
INVARIANTS
    BooksBalanced
    MonitoringCatchesUp
PROPERTIES
    StatusMovesForward
    EveryVmSettles
