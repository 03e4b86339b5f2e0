----------------------------- MODULE HostManager -----------------------------
(***************************************************************************)
(* Host managers of dslab-iaas (core/host_manager.rs): a host accepts or   *)
(* refuses the VMs sent to it, runs each one for its lifetime, deletes it  *)
(* and reports to the placement store, the VM API and the monitoring.      *)
(* Energy, load and SLA metrics are left out: they read this state only.   *)
(***************************************************************************)
EXTENDS CloudEvents

CONSTANT MaxReportsInFlight
    \* bound: reports of one host on their way, message_delay divided by
    \* send_stats_period in the code

ASSUME MaxReportsAssumption == MaxReportsInFlight \in Nat

VARIABLES
    hostPool,       \* available, overcommitted and vms (allocations) of a host
    hostAllocated,  \* cpu_allocated and memory_allocated of a host
    hostReport      \* what a host has not reported yet

hostVars == <<hostPool, hostAllocated, hostReport>>

\* recently_added_vms, recently_removed_vms and recent_vm_status_changes
Report == [added : SUBSET Vm, removed : SUBSET Vm,
           statuses : UNION {[S -> Status] : S \in SUBSET Vm}]

EmptyReport == [added |-> {}, removed |-> {}, statuses |-> <<>>]

HostsTypeOK ==
    /\ hostPool \in [Host -> HostInfo]
    /\ hostAllocated \in [Host -> [Resource -> Int]]
    /\ hostReport \in [Host -> Report]

HostsInit ==
    /\ hostPool = [h \in Host |-> NewHostInfo(h)]
    /\ hostAllocated = [h \in Host |-> [r \in Resource |-> 0]]
    /\ hostReport = [h \in Host |-> EmptyReport]

-----------------------------------------------------------------------------

\* Mutant: the host does not know that overcommit is allowed.
HostNeverOvercommits(h, v) == CanAllocate(hostPool[h], {v}, FALSE)

HostCanAllocate(h, v) ==
    \/ AllowVmOvercommit
    \/ CanAllocate(hostPool[h], {v}, FALSE)

WithAdded(report, v)   == [report EXCEPT !.added = @ \cup {v}]
WithRemoved(report, v) == [report EXCEPT !.removed = @ \cup {v}]

\* recent_vm_status_changes.insert: the last status of a VM wins.
WithStatus(report, v, status) ==
    [report EXCEPT !.statuses =
       [w \in DOMAIN @ \cup {v} |-> IF w = v THEN status ELSE @[w]]]

\* allocate: unlike the pool's, it does not ask whether the VM is there.
HostAllocate(h, v) ==
    /\ hostPool' = [hostPool EXCEPT ![h] = Occupy(@, {v})]
    /\ hostAllocated' = [hostAllocated EXCEPT ![h] =
         [r \in Resource |-> IF hostPool[h].available[r] < Usage[r][{v}]
                             THEN Capacity[h][r]
                             ELSE @[r] + Usage[r][{v}]]]

HostRelease(h, v) ==
    /\ hostPool' = [hostPool EXCEPT ![h] = Release(@, {v})]
    /\ hostAllocated' = [hostAllocated EXCEPT ![h] =
         [r \in Resource |->
            IF hostPool[h].overcommit[r] >= Usage[r][{v}] THEN @[r]
            ELSE @[r] - (Usage[r][{v}] - hostPool[h].overcommit[r])]]

-----------------------------------------------------------------------------
(* Handlers.                                                               *)

\* on_allocation_request
OnVmCreateRequest(h, v) ==
    /\ v \in creating[h]
    /\ creating' = [creating EXCEPT ![h] = @ \ {v}]
    /\ \/ /\ HostCanAllocate(h, v)
          /\ HostAllocate(h, v)
          /\ hostReport' = [hostReport EXCEPT ![h] =
               WithStatus(WithAdded(@, v), v, "Initializing")]
          /\ SetTimer(h, "VMStarted", v)
          /\ UNCHANGED hostNotices
       \/ /\ ~ HostCanAllocate(h, v)
          /\ hostNotices' = hostNotices \cup
               {[type |-> "AllocationFailed", vm |-> v, host |-> h]}
          /\ UNCHANGED <<hostVars, timers>>
    /\ UNCHANGED <<requests, commitRequests, toSched, toApi, toMonitoring>>

\* Mutant: the end of the lifetime is only set where the VM starts first.
StartedOnce(h, v) ==
    /\ \/ /\ \A g \in Host : timers[g]["AllocationReleaseRequest"][v] = 0
          /\ TimerFiresAndSets(h, "VMStarted", "AllocationReleaseRequest", v)
       \/ /\ \E g \in Host : timers[g]["AllocationReleaseRequest"][v] > 0
          /\ TimerFires(h, "VMStarted", v)
    /\ hostReport' = [hostReport EXCEPT ![h] = WithStatus(@, v, "Running")]
    /\ UNCHANGED <<hostPool, hostAllocated, requests, commitRequests, hostNotices,
                   toSched, creating, toApi, toMonitoring>>

OnVmStarted(h, v) ==
    /\ TimerFiresAndSets(h, "VMStarted", "AllocationReleaseRequest", v)
    /\ hostReport' = [hostReport EXCEPT ![h] = WithStatus(@, v, "Running")]
    /\ UNCHANGED <<hostPool, hostAllocated, requests, commitRequests, hostNotices,
                   toSched, creating, toApi, toMonitoring>>

\* Mutant: the store is told when the deletion starts, not when it is done.
ReleaseAnnouncedEarly(h, v, type) ==
    /\ v \in hostPool[h].allocations
    /\ TimerFiresAndSets(h, type, "VMDeleted", v)
    /\ hostNotices' = hostNotices \cup
         {[type |-> "AllocationReleased", vm |-> v, host |-> h]}
    /\ hostReport' = [hostReport EXCEPT ![h] = WithStatus(@, v, "Finished")]
    /\ UNCHANGED <<hostPool, hostAllocated, requests, commitRequests, toSched,
                   creating, toApi, toMonitoring>>

\* The VM's lifetime is over, or its memory has been copied to another host.
\* A VM that is not on the host (any more) is ignored.
OnAllocationReleaseRequest(h, v, type) ==
    /\ \/ /\ v \in hostPool[h].allocations
          /\ TimerFiresAndSets(h, type, "VMDeleted", v)
          /\ \/ /\ type = "AllocationReleaseRequest"
                /\ hostReport' =
                     [hostReport EXCEPT ![h] = WithStatus(@, v, "Finished")]
             \/ type = "MigrationReleaseRequest" /\ UNCHANGED hostReport
       \/ /\ v \notin hostPool[h].allocations
          /\ TimerFires(h, type, v)
          /\ UNCHANGED hostReport
    /\ UNCHANGED <<hostPool, hostAllocated, requests, commitRequests, hostNotices,
                   toSched, creating, toApi, toMonitoring>>

\* Mutant: the store is not told.
DeleteUnannounced(h, v) ==
    /\ TimerFires(h, "VMDeleted", v)
    /\ v \in hostPool[h].allocations
    /\ HostRelease(h, v)
    /\ hostReport' = [hostReport EXCEPT ![h] = WithRemoved(@, v)]
    /\ UNCHANGED <<requests, commitRequests, hostNotices, toSched, creating, toApi,
                   toMonitoring>>

\* Mutant: a VM that is gone already is released again.
DeleteAgain(h, v) ==
    /\ TimerFires(h, "VMDeleted", v)
    /\ HostRelease(h, v)
    /\ hostReport' = [hostReport EXCEPT ![h] = WithRemoved(@, v)]
    /\ hostNotices' = hostNotices \cup
         {[type |-> "AllocationReleased", vm |-> v, host |-> h]}
    /\ UNCHANGED <<requests, commitRequests, toSched, creating, toApi,
                   toMonitoring>>

OnVmDeleted(h, v) ==
    /\ TimerFires(h, "VMDeleted", v)
    /\ \/ /\ v \in hostPool[h].allocations
          /\ HostRelease(h, v)
          /\ hostReport' = [hostReport EXCEPT ![h] = WithRemoved(@, v)]
          /\ hostNotices' = hostNotices \cup
               {[type |-> "AllocationReleased", vm |-> v, host |-> h]}
       \/ /\ v \notin hostPool[h].allocations
          /\ UNCHANGED <<hostVars, hostNotices>>
    /\ UNCHANGED <<requests, commitRequests, toSched, creating, toApi,
                   toMonitoring>>

\* send_host_state, every send_stats_period
SendHostState(h) ==
    /\ Len(SelectSeq(toMonitoring, LAMBDA m : m.host = h)) < MaxReportsInFlight
    /\ toMonitoring' = Append(toMonitoring,
         [host |-> h, added |-> hostReport[h].added,
          removed |-> hostReport[h].removed])
    /\ \/ /\ DOMAIN hostReport[h].statuses # {}
          /\ EmitStatuses(h, hostReport[h].statuses)
       \/ DOMAIN hostReport[h].statuses = {} /\ UNCHANGED toApi
    /\ hostReport' = [hostReport EXCEPT ![h] = EmptyReport]
    /\ UNCHANGED <<hostPool, hostAllocated, requests, commitRequests, hostNotices,
                   toSched, creating, timers>>
=============================================================================
