-------------------------------- MODULE VmApi --------------------------------
(***************************************************************************)
(* VM API of dslab-iaas (core/vm_api.rs): the VMs that were created, their *)
(* last reported status and location, and (from core/vm.rs) the moment     *)
(* their allocation was requested, of which only matters whether           *)
(* vm_allocation_timeout has passed since.                                 *)
(***************************************************************************)
EXTENDS CloudEvents

VARIABLES
    vmStatus,       \* status of each VM; "Unregistered" before it is created
    vmLocation,     \* host of each VM; "none" before one is reported
    deadline        \* allocation timeout of each request

apiVars == <<vmStatus, vmLocation, deadline>>

\* A location is an Option in the code: None is no host.
ASSUME NoneAssumption == "none" \notin Host

\* "unset": the request is still to be delivered for the first time, at its
\* allocation_start_time; "running": it was, less than the timeout ago.
Deadline == {"unset", "running", "passed"}

ApiTypeOK ==
    /\ vmStatus \in [Vm -> Status \cup {"Unregistered"}]
    /\ vmLocation \in [Vm -> Host \cup {"none"}]
    /\ deadline \in [Batch -> Deadline]

ApiInit ==
    /\ vmStatus = [v \in Vm |-> "Unregistered"]
    /\ vmLocation = [v \in Vm |-> "none"]
    /\ deadline = [b \in Batch |-> "unset"]

Registered == {v \in Vm : vmStatus[v] # "Unregistered"}

\* Guard and effect of creating new VMs.
RegisterNewVms(S) ==
    /\ S \cap Registered = {}
    /\ vmStatus' = [v \in Vm |-> IF v \in S THEN "Initializing" ELSE vmStatus[v]]
    /\ UNCHANGED <<vmLocation, deadline>>

\* Mutant: the newest event is handled first.
NewestStatusFirst ==
    /\ toApi # <<>>
    /\ LET update == toApi[Len(toApi)]
           changed == DOMAIN update.statuses
       IN vmStatus' = [v \in Vm |-> IF v \in changed THEN update.statuses[v]
                                                     ELSE vmStatus[v]]
    /\ toApi' = SubSeq(toApi, 1, Len(toApi) - 1)
    /\ UNCHANGED <<vmLocation, deadline, requests, commitRequests, hostNotices,
                   toSched, creating, timers, toMonitoring>>

\* update_vm_status for the events emitted by one handler.
OnVmStatusChanged ==
    /\ toApi # <<>>
    /\ LET update == Head(toApi)
           changed == DOMAIN update.statuses
       IN /\ vmStatus' = [v \in Vm |-> IF v \in changed THEN update.statuses[v]
                                                        ELSE vmStatus[v]]
          /\ vmLocation' =
               [v \in Vm |-> IF v \in changed /\ update.statuses[v] = "Running"
                             THEN update.src ELSE vmLocation[v]]
    /\ toApi' = Tail(toApi)
    /\ UNCHANGED <<deadline, requests, commitRequests, hostNotices, toSched,
                   creating, timers, toMonitoring>>

\* Time reaches allocation_start_time + vm_allocation_timeout.
DeadlinePasses(b) ==
    /\ deadline[b] = "running"
    /\ deadline' = [deadline EXCEPT ![b] = "passed"]
    /\ UNCHANGED <<vmStatus, vmLocation, inboxes>>

-----------------------------------------------------------------------------
(***************************************************************************)
(* Monitoring of dslab-iaas (core/monitoring.rs): the VMs that each host   *)
(* reported.  Loads are left out, and so are the capacities it repeats.    *)
(***************************************************************************)

VARIABLE monitored      \* HostState.vms of each host

\* Mutant: removals are applied before additions.
RemovedFirst(vms, m) == (vms \ m.removed) \cup m.added

\* update_host_state: everything added first, then everything removed.
AfterUpdate(vms, m) == (vms \cup m.added) \ m.removed

MonitoredAfter(states, m) == [states EXCEPT ![m.host] = AfterUpdate(@, m)]

OnHostStateUpdate ==
    /\ toMonitoring # <<>>
    /\ monitored' = MonitoredAfter(monitored, Head(toMonitoring))
    /\ toMonitoring' = Tail(toMonitoring)
    /\ UNCHANGED <<requests, commitRequests, hostNotices, toSched, creating,
                   timers, toApi>>
=============================================================================
