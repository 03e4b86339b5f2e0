SPECIFICATION MigrationSpec
CONSTANTS
    v1 = v1
    h1 = h1
    h2 = h2
    h3 = h3
    s1 = s1
    Host = {h1, h2, h3}
    Vm = {v1}
    Sched = {s1}
    Capacity <- Room
    Usage <- UsageOne
    Batch <- Singles
    AllowVmOvercommit = FALSE
    Selection = "fitting"
    MaxReportsInFlight = 0
    InitHosts = {h1, h2, h3}
    InitScheds = {s1}
    LateHosts = {}
    DirectVm = {}
    MaxMigrations = 2
    Askers = {"user", "migrator"}
INVARIANTS
    NoOrphans
    NotLost
    RunsOnce
    HostBooksBalanced
CHECK_DEADLOCK FALSE
