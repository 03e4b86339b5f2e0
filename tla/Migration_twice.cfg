SPECIFICATION MigrationSpec
CONSTANTS
    v1 = v1
    h1 = h1
    h2 = h2
    h3 = h3
    s1 = s1
    Host = {h1, h2}
    Vm = {v1}
    Sched = {s1}
    Capacity <- Room
    Usage <- UsageOne
    Batch <- Singles
    AllowVmOvercommit = FALSE
    Selection = "fitting"
    MaxReportsInFlight = 0
    InitHosts = {h1, h2}
    InitScheds = {s1}
    LateHosts = {}
    DirectVm = {}
    MaxMigrations = 2
    Askers = {"migrator"}
INVARIANTS
    HostBooksAlwaysBalanced
CHECK_DEADLOCK FALSE
