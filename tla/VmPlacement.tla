----------------------------- MODULE VmPlacement -----------------------------
(***************************************************************************)
(* What a user of dslab-iaas can count on when VMs are not migrated: a VM  *)
(* is submitted once, is placed at most once, on one host that has room    *)
(* for it, stays there until it is released, and is never placed again.    *)
(* There are no schedulers, copies or messages here.                       *)
(***************************************************************************)
EXTENDS ResourcePool

VARIABLES
    phase,      \* of each VM
    place       \* host of each VM that is placed, "none" for the others

placementVars == <<phase, place>>

Phase == {"new", "pending", "placed", "done"}

PlacementInit ==
    /\ phase = [v \in Vm |-> "new"]
    /\ place = [v \in Vm |-> "none"]

VmsOn(h) == {v \in Vm : place[v] = h}

Submit(S) ==
    /\ \A v \in S : phase[v] = "new"
    /\ phase' = [v \in Vm |-> IF v \in S THEN "pending" ELSE phase[v]]
    /\ UNCHANGED place

\* A VM spawned directly on a host is placed without having been pending.
Place(S, h) ==
    /\ \A v \in S : phase[v] \in {"new", "pending"}
    /\ \A r \in Resource : Usage[r][VmsOn(h) \cup S] <= Capacity[h][r]
    /\ phase' = [v \in Vm |-> IF v \in S THEN "placed" ELSE phase[v]]
    /\ place' = [v \in Vm |-> IF v \in S THEN h ELSE place[v]]

\* The allocation timed out, or there was no room on the requested host.
Refuse(S) ==
    /\ \A v \in S : phase[v] \in {"new", "pending"}
    /\ phase' = [v \in Vm |-> IF v \in S THEN "done" ELSE phase[v]]
    /\ UNCHANGED place

Free(v) ==
    /\ phase[v] = "placed"
    /\ phase' = [phase EXCEPT ![v] = "done"]
    /\ place' = [place EXCEPT ![v] = "none"]

PlacementNext ==
    \/ \E S \in SUBSET Vm : Submit(S) \/ Refuse(S)
    \/ \E S \in SUBSET Vm, h \in Host : Place(S, h)
    \/ \E v \in Vm : Free(v)

PlacementSpec == PlacementInit /\ [][PlacementNext]_placementVars
=============================================================================
