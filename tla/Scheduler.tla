------------------------------ MODULE Scheduler ------------------------------
(***************************************************************************)
(* Schedulers of dslab-iaas (core/scheduler.rs).  A scheduler chooses      *)
(* hosts for the VMs of a request from a copy of the resource pool that is *)
(* only synchronised by the placement store's notifications.               *)
(*                                                                         *)
(* The placement algorithm is left open: any choice the selection policy   *)
(* allows, or none.                                                        *)
(***************************************************************************)
EXTENDS VmApi

CONSTANT Selection
    \* "fitting":       algorithms that ask can_allocate(.., false) of their pool
    \* "cpuOvercommit": algorithms that ask can_allocate(.., true)
    \* "any":           an algorithm of the user that does not look at the pool
    \*                  and may name a host that does not exist

ASSUME SelectionAssumption == Selection \in {"fitting", "cpuOvercommit", "any"}

VARIABLE schedPool      \* pool_state of each scheduler

\* Each VM is checked against the pool that already holds the ones before it,
\* so those placed on one host fit together.
MaySelect(pool, p) ==
    \/ Selection = "any"
    \/ \A h \in Host : PlacedOn(p, h) # {} =>
         /\ h \in hosts
         /\ CanAllocate(pool[h], PlacedOn(p, h), Selection = "cpuOvercommit")

\* The event that asks to retry a rejected request is emitted together with
\* AllocationCommitFailed and takes allocation_retry_period longer.
RequestDelivered(s, b) ==
    /\ b \in requests[s]
    /\ \A i \in DOMAIN toSched[s] :
         ~ /\ toSched[s][i].type = "AllocationCommitFailed"
           /\ DOMAIN toSched[s][i].placement = b

TimeOutRequest(s, b) ==
    /\ RequestDelivered(s, b)
    /\ deadline[b] = "passed"
    /\ requests' = [requests EXCEPT ![s] = @ \ {b}]
    /\ EmitStatuses(s, [v \in b |-> "FailedToAllocate"])
    /\ UNCHANGED <<schedPool, deadline, commitRequests, hostNotices, toSched,
                   creating, timers, toMonitoring>>

\* The first delivery is at allocation_start_time; the timeout counts from it.
StartDeadline(b) ==
    /\ deadline[b] # "passed"
    /\ deadline' = [deadline EXCEPT ![b] = "running"]

PlaceRequest(s, b) ==
    /\ RequestDelivered(s, b)
    /\ StartDeadline(b)
    /\ requests' = [requests EXCEPT ![s] = @ \ {b}]
    /\ \E p \in [b -> Host] :
         /\ MaySelect(schedPool[s], p)
         /\ schedPool' =
              [schedPool EXCEPT ![s] = AllocateAll(@, hosts, p)]
         /\ commitRequests' =
              commitRequests \cup {[placement |-> p, from |-> s]}
    /\ UNCHANGED <<hostNotices, toSched, creating, timers, toApi, toMonitoring>>

\* No placement was found: the request is emitted again, to be delivered later.
RetryRequest(s, b) ==
    /\ RequestDelivered(s, b)
    /\ StartDeadline(b)
    /\ UNCHANGED <<schedPool, inboxes>>

OnAllocationRequest(s, b) ==
    TimeOutRequest(s, b) \/ PlaceRequest(s, b) \/ RetryRequest(s, b)

\* Mutant: only what the scheduler knows to be allocated is given back.
ViewReleasingHeld(pool, m) ==
    IF m.type = "AllocationCommitSucceeded"
    THEN AllocateAll(pool, hosts, m.placement)
    ELSE [h \in Host |-> Release(pool[h], PlacedOn(m.placement, h) \cap
                                         pool[h].allocations)]

\* The pool after one notification of the store.
ViewAfter(pool, m) ==
    IF m.type = "AllocationCommitSucceeded"
    THEN AllocateAll(pool, hosts, m.placement)
    ELSE ReleaseAll(pool, hosts, m.placement)

\* on_allocation_commit_succeeded, on_allocation_commit_failed,
\* on_allocation_released and on_allocation_failed.
OnStoreNotification(s) ==
    /\ toSched[s] # <<>>
    /\ schedPool' = [schedPool EXCEPT ![s] = ViewAfter(@, Head(toSched[s]))]
    /\ toSched' = [toSched EXCEPT ![s] = Tail(@)]
    /\ UNCHANGED <<deadline, requests, commitRequests, hostNotices, creating,
                   timers, toApi, toMonitoring>>
=============================================================================
