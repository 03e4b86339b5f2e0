---------------------------- MODULE CloudAllocation ----------------------------
(***************************************************************************)
(* VM allocation in dslab-iaas: the calls a user makes (simulation.rs) and *)
(* the components that serve them, without migration.                      *)
(*                                                                         *)
(*   user --> schedulers <==> placement store <==> hosts --> VM API,       *)
(*                                                           monitoring    *)
(***************************************************************************)
EXTENDS Scheduler, PlacementStore, HostManager, SequencesExt

CONSTANTS
    InitHosts, InitScheds,  \* added before the simulation runs
    LateHosts,              \* may be added while it runs, as all schedulers
    DirectVm                \* VMs that spawn_vm_on_host may create

ASSUME SetupAssumption ==
    /\ InitHosts \subseteq Host
    /\ InitScheds \subseteq Sched
    /\ LateHosts \subseteq Host
    /\ DirectVm \subseteq Vm

vars == <<registrations, inboxes, apiVars, schedPool, storePool, hostVars,
          monitored>>

TypeOK ==
    /\ EventsTypeOK
    /\ ApiTypeOK
    /\ schedPool \in [Sched -> [Host -> HostInfo]]
    /\ storePool \in [Host -> HostInfo]
    /\ HostsTypeOK
    /\ monitored \in [Host -> SUBSET Vm]

FullPool == [h \in Host |-> NewHostInfo(h)]

Init ==
    /\ hosts = InitHosts
    /\ scheds = InitScheds
    /\ EventsInit
    /\ ApiInit
    /\ schedPool = [s \in Sched |-> FullPool]
    /\ storePool = FullPool
    /\ HostsInit
    /\ monitored = [h \in Host |-> {}]

-----------------------------------------------------------------------------
(* The user's calls.                                                       *)

\* spawn_vm_now, spawn_vm_with_delay and begin_batch .. spawn_batch
SpawnVms(s, b) ==
    /\ s \in scheds
    /\ RegisterNewVms(b)
    /\ requests' = [requests EXCEPT ![s] = @ \cup {b}]
    /\ UNCHANGED <<registrations, commitRequests, hostNotices, toSched, creating,
                   timers, toApi, toMonitoring, schedPool, storePool, hostVars,
                   monitored>>

SpawnVmOnHost(v, h) ==
    /\ v \in DirectVm
    /\ h \in hosts
    /\ RegisterNewVms({v})
    /\ DirectCommit([w \in {v} |-> h])
    /\ UNCHANGED <<registrations, schedPool, hostVars, monitored>>

\* The pools hold the new host with its full capacity already.
AddHost(h) ==
    /\ h \in LateHosts \ hosts
    /\ hosts' = hosts \cup {h}
    /\ UNCHANGED <<scheds, inboxes, apiVars, schedPool, storePool, hostVars,
                   monitored>>

\* Mutant: a new scheduler starts from an empty pool.
AddBlankScheduler(s) ==
    /\ s \in Sched \ scheds
    /\ scheds' = scheds \cup {s}
    /\ schedPool' = [schedPool EXCEPT ![s] = FullPool]
    /\ UNCHANGED <<hosts, inboxes, apiVars, storePool, hostVars, monitored>>

\* A new scheduler starts from a copy of the store's pool.
AddScheduler(s) ==
    /\ s \in Sched \ scheds
    /\ scheds' = scheds \cup {s}
    /\ schedPool' = [schedPool EXCEPT ![s] = storePool]
    /\ UNCHANGED <<hosts, inboxes, apiVars, storePool, hostVars, monitored>>

-----------------------------------------------------------------------------
(* Each component's steps leave the others' state alone.                   *)

SchedulerStep(s) ==
    /\ \/ \E b \in Batch : OnAllocationRequest(s, b)
       \/ OnStoreNotification(s)
    /\ UNCHANGED <<registrations, vmStatus, vmLocation, storePool, hostVars,
                   monitored>>

StoreStep ==
    /\ \/ \E m \in commitRequests : OnCommitRequest(m)
       \/ \E n \in hostNotices : OnAllocationFailed(n) \/ OnAllocationReleased(n)
    /\ UNCHANGED <<registrations, apiVars, schedPool, hostVars, monitored>>

\* A host's handlers of the events of one VM.
VmStep(h, v) ==
    \/ OnVmCreateRequest(h, v)
    \/ OnVmStarted(h, v)
    \/ \E t \in ReleaseType : OnAllocationReleaseRequest(h, v, t)
    \/ OnVmDeleted(h, v)

HostStep(h) ==
    /\ \/ \E v \in Vm : VmStep(h, v)
       \/ h \in hosts /\ SendHostState(h)
    /\ UNCHANGED <<registrations, apiVars, schedPool, storePool, monitored>>

ApiStep ==
    /\ OnVmStatusChanged \/ \E b \in Batch : DeadlinePasses(b)
    /\ UNCHANGED <<registrations, schedPool, storePool, hostVars, monitored>>

MonitoringStep ==
    /\ OnHostStateUpdate
    /\ UNCHANGED <<registrations, apiVars, schedPool, storePool, hostVars>>

UserStep ==
    \/ \E s \in Sched, b \in Batch : SpawnVms(s, b)
    \/ \E v \in DirectVm, h \in Host : SpawnVmOnHost(v, h)
    \/ \E h \in LateHosts : AddHost(h)
    \/ \E s \in Sched : AddScheduler(s)

Next ==
    \/ UserStep
    \/ \E s \in Sched : SchedulerStep(s)
    \/ StoreStep
    \/ \E h \in Host : HostStep(h)
    \/ ApiStep
    \/ MonitoringStep

Spec == Init /\ [][Next]_vars
-----------------------------------------------------------------------------
(* What VM allocation promises: correctness of the resource accounting     *)
(* across the placement store, the schedulers and the hosts, of what is    *)
(* reported, and of each VM's life.                                        *)

\* VMs whose message of the given kind is on its way from or to host h.
InNotices(h) == {n.vm : n \in {m \in hostNotices : m.host = h}}

\* VM v is committed to a host in the pool of the store.
Allocated(v) == \E h \in Host : v \in storePool[h].allocations

Requested(v) == {x \in Sched \X Batch : x[2] \in requests[x[1]] /\ v \in x[2]}
Committing(v) == {m \in commitRequests : v \in DOMAIN m.placement}

-----------------------------------------------------------------------------

(* A VM is in the hands of one component: it is either in one pending      *)
(* request, or in one decision on its way to the store, or allocated on    *)
(* one host of the store's pool, and it is in at most one of these.  The   *)
(* rejection path, which both notifies and resubmits, must not fork it     *)
(* (placement_store.rs, on_allocation_commit_request).                     *)
OneHolder ==
    \A v \in Vm :
      /\ \A x, y \in Requested(v) : x = y
      /\ \A x, y \in Committing(v) : x = y
      /\ \A g, h \in Host :
           v \in storePool[g].allocations /\ v \in storePool[h].allocations
           => g = h
      /\ Requested(v) # {} => Committing(v) = {} /\ ~ Allocated(v)
      /\ Committing(v) # {} => ~ Allocated(v)

(* The store's pool and the hosts agree: what the store has allocated on a *)
(* host is what runs there, what is on its way there, and what the host    *)
(* has already let go but the store has not yet heard of, each VM in one   *)
(* of these only.                                                          *)
StoreHostAgreement ==
    \A h \in Host :
      /\ storePool[h].allocations =
           creating[h] \cup hostPool[h].allocations \cup InNotices(h)
      /\ creating[h] \cap hostPool[h].allocations = {}
      /\ creating[h] \cap InNotices(h) = {}
      /\ hostPool[h].allocations \cap InNotices(h) = {}

(* What the proof of the two needs besides: a VM that was not created yet  *)
(* is nowhere, the store allocates on hosts it knows, and a host lets go   *)
(* of a VM once.                                                           *)
NewVmsAreNowhere ==
    \A v \in Vm \ Registered :
      Requested(v) = {} /\ Committing(v) = {} /\ ~ Allocated(v)

OnKnownHosts ==
    \A h \in Host : storePool[h].allocations # {} => h \in hosts

OneNotice ==
    \A m, n \in hostNotices : m.vm = n.vm /\ m.host = n.host => m = n

AllocationInv ==
    OneHolder /\ StoreHostAgreement /\ NewVmsAreNowhere /\ OnKnownHosts /\ OneNotice

(* The store and every host account for exactly the VMs they list, whatever *)
(* was overcommitted in between: release does not check that what it gives *)
(* back is there, and takes the amount from overcommit first               *)
(* (resource_pool.rs, host_manager.rs).                                    *)
BooksBalanced ==
    \A h \in Host :
      /\ Balanced(storePool[h], h)
      /\ Balanced(hostPool[h], h)
      /\ \A r \in Resource :
           hostAllocated[h][r] = Capacity[h][r] - hostPool[h].available[r]

(* So does the copy of every scheduler, which allocates when it decides and *)
(* is then told of its own placements as of those of the others            *)
(* (scheduler.rs).                                                         *)
ViewsBalanced ==
    \A s \in Sched, h \in Host : Balanced(schedPool[s][h], h)

\* No request is for several VMs: spawn_batch is not used.
SingleRequests == \A b \in Batch : \E v \in Vm : b = {v}

(* The store never commits more than a host has: memory always, CPU unless *)
(* overcommit is allowed ("check if all placements can be committed",      *)
(* placement_store.rs; tests test_no_overcommit, test_no_memory_overcommit).*)
StoreWithinCapacity ==
    \A h \in Host :
      /\ storePool[h].overcommit["memory"] = 0
      /\ AllowVmOvercommit \/ storePool[h].overcommit["cpu"] = 0

(* What the store has committed, the host accepts: the check at the host   *)
(* never fails, so no VM is dropped after it was placed.                   *)
NoHostRejection ==
    \A n \in hostNotices : n.type # "AllocationFailed"

(* A scheduler's outdated view catches up: once the notifications on their *)
(* way are applied, and its own undecided placements taken out, it is      *)
(* exactly the store's pool.                                               *)
WithoutUndecided(pool, s) ==
    FoldSet(LAMBDA m, acc : ReleaseAll(acc, hosts, m.placement), pool,
            {m \in commitRequests : m.from = s})

ViewCatchesUp ==
    \A s \in scheds :
      WithoutUndecided(FoldLeft(ViewAfter, schedPool[s], toSched[s]), s)
        = storePool

(* The monitoring's picture of a host catches up too: with the reports on  *)
(* their way and the one being gathered, it lists the VMs of the host.     *)
MonitoringCatchesUp ==
    LET heard == FoldLeft(MonitoredAfter, monitored, toMonitoring)
    IN \A h \in Host :
         AfterUpdate(heard[h], hostReport[h]) = hostPool[h].allocations

-----------------------------------------------------------------------------

StatusMayFollow(v) ==
    <<vmStatus[v], vmStatus'[v]>> \in
      {<<x, x>> : x \in Status \cup {"Unregistered"}} \cup
      {<<"Unregistered", "Initializing">>, <<"Initializing", "Running">>,
       <<"Initializing", "Finished">>, <<"Running", "Finished">>,
       <<"Initializing", "FailedToAllocate">>}

(* The reported status of a VM only moves forward: no status comes back,   *)
(* and Finished and FailedToAllocate are final.                            *)
StatusMovesForward == [][\A v \in Vm : StatusMayFollow(v)]_vars

-----------------------------------------------------------------------------

(* Every component handles each event it is sent, every timer fires, and   *)
(* the simulated time passes: simcore delivers every event.  A request     *)
(* that is emitted again and again is handled each time.                   *)
Fairness ==
    /\ \A s \in Sched, b \in Batch :
         /\ WF_vars(SchedulerStep(s) /\ OnAllocationRequest(s, b))
         /\ WF_vars(StoreStep /\ \E m \in commitRequests :
                      m.from = s /\ DOMAIN m.placement = b /\ OnCommitRequest(m))
    /\ \A s \in Sched : WF_vars(SchedulerStep(s) /\ OnStoreNotification(s))
    /\ \A h \in Host, v \in Vm :
         /\ WF_vars(StoreStep /\ \E n \in hostNotices :
                      n.host = h /\ n.vm = v /\ OnHostNotice(n))
         /\ WF_vars(HostStep(h) /\ VmStep(h, v))
    /\ \A h \in Host : WF_vars(HostStep(h) /\ SendHostState(h))
    /\ \A b \in Batch : WF_vars(ApiStep /\ DeadlinePasses(b))
    /\ WF_vars(ApiStep /\ OnVmStatusChanged)
    /\ WF_vars(MonitoringStep)

FairSpec == Spec /\ Fairness

(* Every VM whose allocation is requested ends: it is reported as Finished *)
(* after it ran, or as FailedToAllocate, even when its placement is        *)
(* rejected time after time (scheduler.rs, on_allocation_request: retries  *)
(* end at vm_allocation_timeout).                                          *)
EveryVmSettles ==
    \A v \in Vm \ DirectVm :
      vmStatus[v] = "Initializing"
        ~> vmStatus[v] \in {"Finished", "FailedToAllocate"}

-----------------------------------------------------------------------------

(* Allocation by schedulers with outdated views, arbitrated by the store,  *)
(* implements VmPlacement: the store's pool says where a VM is placed.     *)
PhaseOf ==
    [v \in Vm |->
       CASE v \notin Registered -> "new"
         [] Requested(v) \cup Committing(v) # {} -> "pending"
         [] Allocated(v) -> "placed"
         [] OTHER -> "done"]

PlaceOf ==
    [v \in Vm |-> IF Allocated(v)
                  THEN CHOOSE h \in Host : v \in storePool[h].allocations
                  ELSE "none"]

Placements == INSTANCE VmPlacement WITH phase <- PhaseOf, place <- PlaceOf

ImplementsVmPlacement == Placements!PlacementSpec
=============================================================================
