----------------------------- MODULE CloudEvents -----------------------------
(***************************************************************************)
(* The events that the components of dslab-iaas exchange (core/events.rs)  *)
(* and the simulation engine that carries them (simcore, not in this       *)
(* repository).  simcore delivers every emitted event exactly once, in the *)
(* order of its delivery time and, for equal times, of its emission.       *)
(*                                                                         *)
(* All messages between components take the same message_delay, so those   *)
(* to one destination arrive in the order they were emitted: an inbox      *)
(* whose order matters to its owner is a sequence.  The other inboxes are  *)
(* sets, and any order of delivery is allowed.  An event a component emits *)
(* to itself, or with a delay of its own, is a timer: it is delivered at   *)
(* any later moment.                                                       *)
(***************************************************************************)
EXTENDS ResourcePool, Sequences

CONSTANTS
    Sched,              \* schedulers
    Batch,              \* the sets of VMs that are spawned by one request
    AllowVmOvercommit   \* allow_vm_overcommit of the simulation's config

ASSUME BatchAssumption == Batch \subseteq (SUBSET Vm) \ {{}}
ASSUME OvercommitAssumption == AllowVmOvercommit \in BOOLEAN

VARIABLES
    hosts,          \* hosts registered in every pool
    scheds          \* schedulers registered in the placement store

registrations == <<hosts, scheds>>

VARIABLES
    requests,       \* AllocationRequest events for each scheduler
    commitRequests, \* AllocationCommitRequest events for the placement store
    hostNotices,    \* AllocationFailed and AllocationReleased, host to store
    toSched,        \* the store's notifications to each scheduler, in order
    creating,       \* VmCreateRequest events for each host
    timers,         \* how many of each timer are pending at each host
    toApi,          \* VmStatusChanged events, in order
    toMonitoring    \* HostStateUpdate events, in order

inboxes == <<requests, commitRequests, hostNotices, toSched, creating, timers,
             toApi, toMonitoring>>

Placement == UNION {[b -> Host] : b \in Batch}

CommitRequest == [placement : Placement, from : Sched]

HostNotice == [type : {"AllocationFailed", "AllocationReleased"},
               vm : Vm, host : Host]

\* One shape for the four notifications: the last two carry a single VM.
SchedulerMessage ==
    [type : {"AllocationCommitSucceeded", "AllocationCommitFailed",
             "AllocationFailed", "AllocationReleased"},
     placement : Placement \cup UNION {[{v} -> Host] : v \in Vm}]

\* AllocationReleaseRequest is set by the host itself, for the end of the VM's
\* lifetime, and by the target of a migration (is_migrating), for its end.
ReleaseType == {"AllocationReleaseRequest", "MigrationReleaseRequest"}
TimerType == {"VMStarted", "VMDeleted"} \cup ReleaseType

Status == {"Initializing", "Running", "Finished", "Migrating",
           "FailedToAllocate"}

\* The VmStatusChanged events that one handler emits, with their sender.
StatusUpdate ==
    [statuses : UNION {[S -> Status] : S \in SUBSET Vm}, src : Host] \cup
    [statuses : UNION {[b -> {"FailedToAllocate"}] : b \in Batch}, src : Sched]

HostStateUpdate == [host : Host, added : SUBSET Vm, removed : SUBSET Vm]

EventsTypeOK ==
    /\ hosts \subseteq Host
    /\ scheds \subseteq Sched
    /\ requests \in [Sched -> SUBSET Batch]
    /\ commitRequests \subseteq CommitRequest
    /\ hostNotices \subseteq HostNotice
    /\ toSched \in [Sched -> Seq(SchedulerMessage)]
    /\ creating \in [Host -> SUBSET Vm]
    /\ timers \in [Host -> [TimerType -> [Vm -> Nat]]]
    /\ toApi \in Seq(StatusUpdate)
    /\ toMonitoring \in Seq(HostStateUpdate)

EventsInit ==
    /\ requests = [s \in Sched |-> {}]
    /\ commitRequests = {}
    /\ hostNotices = {}
    /\ toSched = [s \in Sched |-> <<>>]
    /\ creating = [h \in Host |-> {}]
    /\ timers = [h \in Host |-> [t \in TimerType |-> [v \in Vm |-> 0]]]
    /\ toApi = <<>>
    /\ toMonitoring = <<>>

-----------------------------------------------------------------------------
(* Emission.                                                               *)

\* The store notifies every registered scheduler.
NotifyAll(targets, m) ==
    toSched' = [s \in Sched |-> IF s \in targets THEN Append(toSched[s], m)
                                                ELSE toSched[s]]

EmitStatuses(src, statuses) ==
    toApi' = Append(toApi, [statuses |-> statuses, src |-> src])

\* simcore's emit_self at host h, for VM v.
SetTimer(h, t, v) == timers' = [timers EXCEPT ![h][t][v] = @ + 1]

TimerFires(h, t, v) ==
    /\ timers[h][t][v] > 0
    /\ timers' = [timers EXCEPT ![h][t][v] = @ - 1]

\* Timer t fires and its handler sets timer u for the same VM.
TimerFiresAndSets(h, t, u, v) ==
    /\ timers[h][t][v] > 0
    /\ timers' = [timers EXCEPT ![h][t][v] = @ - 1, ![h][u][v] = @ + 1]
=============================================================================
