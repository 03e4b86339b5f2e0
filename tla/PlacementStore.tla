---------------------------- MODULE PlacementStore ----------------------------
(***************************************************************************)
(* Placement store of dslab-iaas (core/placement_store.rs): it keeps the   *)
(* authoritative resource pool, commits or rejects the placements that the *)
(* schedulers decide on, and tells all schedulers what changed.            *)
(***************************************************************************)
EXTENDS CloudEvents

VARIABLE storePool      \* pool_state of the store

\* Every VM is checked against the pool as it was before the request: the copy
\* that the loop updates is not the one it asks.
CanCommit(p) ==
    \A v \in DOMAIN p :
      /\ p[v] \in hosts
      /\ CanAllocate(storePool[p[v]], {v}, AllowVmOvercommit)

Commit(p) ==
    /\ storePool' = AllocateAll(storePool, hosts, p)
    /\ creating' = [h \in Host |-> creating[h] \cup PlacedOn(p, h)]
    /\ NotifyAll(scheds, [type |-> "AllocationCommitSucceeded", placement |-> p])

\* Mutant: the rejected request is not resubmitted.
RejectAndForget(p, s) ==
    /\ toSched' = [toSched EXCEPT ![s] =
         Append(@, [type |-> "AllocationCommitFailed", placement |-> p])]
    /\ UNCHANGED <<requests, storePool, creating>>

\* The scheduler is told, and its request comes back after the retry period.
Reject(p, s) ==
    /\ toSched' = [toSched EXCEPT ![s] =
         Append(@, [type |-> "AllocationCommitFailed", placement |-> p])]
    /\ requests' = [requests EXCEPT ![s] = @ \cup {DOMAIN p}]
    /\ UNCHANGED <<storePool, creating>>

\* Mutant: the request is resubmitted although it was committed.
CommitAndResubmit(m) ==
    /\ m \in commitRequests
    /\ commitRequests' = commitRequests \ {m}
    /\ \/ /\ CanCommit(m.placement)
          /\ Commit(m.placement)
          /\ requests' = [requests EXCEPT ![m.from] = @ \cup {DOMAIN m.placement}]
       \/ ~ CanCommit(m.placement) /\ Reject(m.placement, m.from)
    /\ UNCHANGED <<hostNotices, timers, toApi, toMonitoring>>

OnCommitRequest(m) ==
    /\ m \in commitRequests
    /\ commitRequests' = commitRequests \ {m}
    /\ \/ CanCommit(m.placement) /\ Commit(m.placement) /\ UNCHANGED requests
       \/ ~ CanCommit(m.placement) /\ Reject(m.placement, m.from)
    /\ UNCHANGED <<hostNotices, timers, toApi, toMonitoring>>

\* Mutant: the pool is changed before the check.
DirectCommitUnchecked(p) ==
    /\ \/ CanCommit(p) /\ Commit(p)
       \/ /\ ~ CanCommit(p)
          /\ storePool' = AllocateAll(storePool, hosts, p)
          /\ UNCHANGED <<creating, toSched>>
    /\ UNCHANGED <<requests, commitRequests, hostNotices, timers, toApi,
                   toMonitoring>>

\* direct_allocation_commit: when it is rejected there is no one to tell.
DirectCommit(p) ==
    /\ \/ CanCommit(p) /\ Commit(p)
       \/ ~ CanCommit(p) /\ UNCHANGED <<storePool, creating, toSched>>
    /\ UNCHANGED <<requests, commitRequests, hostNotices, timers, toApi,
                   toMonitoring>>

\* on_allocation_failed and on_allocation_released do the same.
OnHostNotice(n) ==
    /\ n \in hostNotices
    /\ hostNotices' = hostNotices \ {n}
    /\ LET p == [v \in {n.vm} |-> n.host]
       IN /\ storePool' = ReleaseAll(storePool, hosts, p)
          /\ NotifyAll(scheds, [type |-> n.type, placement |-> p])
    /\ UNCHANGED <<requests, commitRequests, creating, timers, toApi,
                   toMonitoring>>

OnAllocationFailed(n)   == n.type = "AllocationFailed" /\ OnHostNotice(n)
OnAllocationReleased(n) == n.type = "AllocationReleased" /\ OnHostNotice(n)
=============================================================================
