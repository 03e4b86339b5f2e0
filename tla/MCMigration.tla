----------------------------- MODULE MCMigration -----------------------------
(* Instances of CloudMigration for TLC. *)
EXTENDS CloudMigration

CONSTANTS v1, h1, h2, h3, s1

Ones == [S \in SUBSET Vm |-> SumFunctionOnSet([v \in Vm |-> 1], S)]
UsageOne == [cpu |-> Ones, memory |-> Ones]

\* h1 has room for a VM twice, h2 once, and h3 does not have any.
Room == [h \in Host |->
           LET n == CASE h = h1 -> 2 [] h = h2 -> 1 [] h = h3 -> 0
           IN [cpu |-> n, memory |-> n]]

Singles == {{v} : v \in Vm}
=============================================================================
