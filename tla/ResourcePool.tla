---------------------------- MODULE ResourcePool ----------------------------
(***************************************************************************)
(* The resource pool of dslab-iaas (core/resource_pool.rs): for each host, *)
(* what is still available, by how much it is overcommitted, and the VMs   *)
(* allocated on it.  The placement store keeps the authoritative pool and  *)
(* every scheduler a copy of its own.                                      *)
(*                                                                         *)
(* The code updates a pool one allocation at a time.  The operators below  *)
(* take a set of VMs, because after every update one of "available" and    *)
(* "overcommit" is zero, so that a run of updates only depends on the sum  *)
(* of the demands (proved in CloudProofs).  A single VM is a singleton     *)
(* set.                                                                    *)
(***************************************************************************)
EXTENDS Integers

CONSTANTS
    Host,       \* host identifiers, those that no host ever gets included
    Vm,         \* virtual machines
    Capacity,   \* Capacity[h][r]: cpu_total and memory_total of host h
    Usage       \* Usage[r][S]: what the VMs of S need of resource r, together

Resource == {"cpu", "memory"}

ASSUME CapacityAssumption ==
    Capacity \in [Host -> [Resource -> Nat]]

\* The demand of a set is the sum of its members' (cpu_usage, memory_usage).
ASSUME UsageAssumption ==
    /\ Usage \in [Resource -> [SUBSET Vm -> Nat]]
    /\ \A r \in Resource :
         /\ Usage[r][{}] = 0
         /\ \A S, T \in SUBSET Vm :
              S \cap T = {} => Usage[r][S \cup T] = Usage[r][S] + Usage[r][T]

HostInfo == [available   : [Resource -> Nat],
             overcommit  : [Resource -> Nat],
             allocations : SUBSET Vm]

\* An id that is not in the pool keeps this value: nothing is allocated there.
NewHostInfo(h) == [available   |-> Capacity[h],
                   overcommit  |-> [r \in Resource |-> 0],
                   allocations |-> {}]

-----------------------------------------------------------------------------
(* Arithmetic common to the pool and to the host managers: what remains    *)
(* available and what is overcommitted once an amount d is taken or given  *)
(* back.                                                                   *)

\* Mutants: the subtractions are not guarded, and all of d counts as
\* overcommitted, even what was available.
TakeUnguarded(a, d) == a - d
GiveUnguarded(o, d) == o - d
OvercommitByAll(a, o, d) == IF a < d THEN o + d ELSE o

AvailableAfterTake(a, d)     == IF a < d THEN 0 ELSE a - d
OvercommitAfterTake(a, o, d) == IF a < d THEN o + (d - a) ELSE o
AvailableAfterGive(a, o, d)  == IF o >= d THEN a ELSE a + (d - o)
OvercommitAfterGive(o, d)    == IF o >= d THEN o - d ELSE 0

Take(info, d) ==
    [available   |-> [r \in Resource |->
                        AvailableAfterTake(info.available[r], d[r])],
     overcommit  |-> [r \in Resource |->
                        OvercommitAfterTake(info.available[r], info.overcommit[r],
                                            d[r])],
     allocations |-> info.allocations]

Give(info, d) ==
    [available   |-> [r \in Resource |->
                        AvailableAfterGive(info.available[r], info.overcommit[r],
                                           d[r])],
     overcommit  |-> [r \in Resource |->
                        OvercommitAfterGive(info.overcommit[r], d[r])],
     allocations |-> info.allocations]

Demand(S) == [r \in Resource |-> Usage[r][S]]

-----------------------------------------------------------------------------
(* The operations of ResourcePoolState.                                    *)

\* The VMs of S take their demand, whether they are there already or not.
Occupy(info, S) ==
    [Take(info, Demand(S)) EXCEPT !.allocations = @ \cup S]

\* Mutant: no contains_key check, a VM that is there is taken again.
AllocateAgain(info, S) == Occupy(info, S)

\* A VM already allocated on the host is skipped.
Allocate(info, S) == Occupy(info, S \ info.allocations)

\* There is no such check here: a VM that is not on the host is given back too.
Release(info, S) ==
    [Give(info, Demand(S)) EXCEPT !.allocations = @ \ S]

\* Mutant: overcommit waives the check of the memory too.
CanOvercommitAll(info, S, allowCpuOvercommit) ==
    \/ allowCpuOvercommit
    \/ \A r \in Resource : info.available[r] >= Usage[r][S]

\* Mutant: the check of the memory is lost.
CanAllocateCpu(info, S, allowCpuOvercommit) ==
    info.available["cpu"] < Usage["cpu"][S] => allowCpuOvercommit

\* Only the check of the CPU can be waived.
CanAllocate(info, S, allowCpuOvercommit) ==
    /\ info.available["cpu"] < Usage["cpu"][S] => allowCpuOvercommit
    /\ info.available["memory"] >= Usage["memory"][S]

-----------------------------------------------------------------------------
(* A host's entry accounts for exactly the VMs it lists.                   *)

Net(info, r) == info.available[r] - info.overcommit[r]

Balanced(info, h) ==
    \A r \in Resource :
      /\ Net(info, r) = Capacity[h][r] - Usage[r][info.allocations]
      /\ info.available[r] = 0 \/ info.overcommit[r] = 0

-----------------------------------------------------------------------------
(* A placement maps the VMs of a request to the chosen hosts (the vm_ids   *)
(* and host_ids of the allocation events).                                 *)

PlacedOn(p, h) == {v \in DOMAIN p : p[v] = h}

AllocateAll(pool, ids, p) ==
    [h \in Host |-> IF h \in ids THEN Allocate(pool[h], PlacedOn(p, h))
                                   ELSE pool[h]]

ReleaseAll(pool, ids, p) ==
    [h \in Host |-> IF h \in ids THEN Release(pool[h], PlacedOn(p, h))
                                   ELSE pool[h]]
=============================================================================
