SPECIFICATION FairSpec
CONSTANTS
  PerActivity <- Shares
  TotalWorkMax = 30
  Volume = {24, 72}
  Step = 12
  MaxActivities = 4
  CoreComp = {"a", "b", "c"}
  CoreFlops <- Flops
  CoreMemory <- MemoryNeeds
  MemoryTotal = 3
  Pause = 12
  Worker = {1, 2}
  Disk = {1, 2}
  MasterNode = 1
  Capacities <- Machines
  TaskNeeds <- Needs
  DiskCapacity <- DiskSpace
  TotalLimit <- NoTotalLimit
  OpsLimit <- NoOpsLimits
  Host = {1, 2, 3, 4}
  Vm = {1, 2, 3, 4, 5, 6, 7, 8}
  Capacity <- HostCapacity
  Usage <- VmUsage
  Rack <- HostRack
  Threshold <- Half
INVARIANTS
  SharingExact
  NetworkExact
  TasksAccounted
  PlacementsSound
PROPERTY
  WorkCompletes
CHECK_DEADLOCK FALSE
