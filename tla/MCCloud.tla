------------------------------- MODULE MCCloud -------------------------------
(* Instances of CloudAllocation for TLC. *)
EXTENDS CloudAllocation

CONSTANTS v1, v2, v3, h1, h2, s1, s2

Sum(f) == [S \in SUBSET Vm |-> SumFunctionOnSet(f, S)]

UsageOf(cpu, memory) == [cpu |-> Sum(cpu), memory |-> Sum(memory)]
Two   == [h \in Host |-> [cpu |-> 2, memory |-> 2]]
Three == [h \in Host |-> [cpu |-> 3, memory |-> 3]]
\* With UsageMixed and overcommit: v1 and v3 each need more CPUs than there are,
\* and too much memory together.
Tight == [h \in Host |-> [cpu |-> 1, memory |-> 2]]

\* Two of three VMs fill a host of capacity Two.
UsageOne == UsageOf([v \in Vm |-> 1], [v \in Vm |-> 1])

\* On a host of capacity Three, v1 and v2 fit together, v1 and v3 need too many
\* CPUs, v2 and v3 too much memory.
UsageMixed == UsageOf([v \in Vm |-> IF v = v2 THEN 1 ELSE 2],
                      [v \in Vm |-> IF v = v1 THEN 1 ELSE 2])

Singles == {{v} : v \in Vm \ DirectVm}
PairOrSingle == {{v1}, {v2, v3}}

SchedSymmetry == Permutations(Sched)
=============================================================================
