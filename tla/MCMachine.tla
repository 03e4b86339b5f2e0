------------------------------ MODULE MCMachine ------------------------------
(***************************************************************************)
(* An instance for TLC: each behaviour is one of the Compute of a machine  *)
(* with those who use it, and the disks of a machine with a file system.   *)
(***************************************************************************)
EXTENDS ComputeClients, FileSystem

CONSTANTS c1, c2, o1, d1, d2, m1, m2, p1

\* c1 takes one core or two and is twice as fast on two; c2 needs two.
MinCoresMC == [c \in Comp |-> IF c = c1 THEN 1 ELSE 2]
MaxCoresMC == [c \in Comp |-> 2]
FlopsMC == [c \in Comp |-> 3]
SpeedupMC == [c \in Comp |-> [n \in 1..CoresTotal |-> IF c = c1 THEN n ELSE 1]]
MemoryMC == [c \in Comp |-> 1]
AllocationMC == [cores : {1}, memory : {0, 1}]

\* d1 is smaller than d2 and limits its operations; m1 is a prefix of m2, m2 of p1.
CapacityMC   == [d \in Disk |-> IF d = d1 THEN 1 ELSE 2]
TotalLimitMC == [d \in Disk |-> IF d = d1 THEN 2 ELSE NoLimit]
OpsLimitMC   == [d \in Disk |-> [t \in OpType |-> IF d = d1 THEN 1 ELSE NoLimit]]
CoversMC     == [m \in MountPoint |-> Path]

VARIABLE part   \* which of the two runs; never changes

ComputeStep == part = "compute" /\ ComputeNext /\ UNCHANGED <<vars, part>>

StorageStep == part = "storage" /\ Next /\ UNCHANGED <<clientVars, part>>

OnePart == part \in {"compute", "storage"} /\ ComputeInit /\ Init

PartStep == ComputeStep \/ StorageStep

\* What is not part of a behaviour gets no event, and fairness asks nothing of it.
MachineSpec ==
    OnePart /\ [][PartStep]_<<clientVars, vars, part>> /\ ComputeFairness /\ Fairness
=============================================================================
