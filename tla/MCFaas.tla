-------------------------------- MODULE MCFaas --------------------------------
(***************************************************************************)
(* Instances of FaasPlatform: traces of three or four invocations, one or  *)
(* two hosts, every policy.                                                *)
(***************************************************************************)
EXTENDS FaasPlatform

\* Two small applications, one whose containers take two invocations at once, and
\* one that needs all the memory and the cpu of a small host.
AppMC == {"small", "other", "pair", "big"}

LimitMC == [a \in AppMC |-> IF a = "pair" THEN 2 ELSE 1]

ShareMC == [a \in AppMC |-> IF a = "big" THEN 2 ELSE 1]

NeedsMC == [a \in AppMC |-> [memory |-> IF a = "big" THEN 2 ELSE 1]]

Host(memory, cores) == [capacity |-> [memory |-> memory], cores |-> cores]

\* Memory for two small containers, a core for one of them: cpu is contended.
One == <<Host(2, 1)>>
OneTwoCores == <<Host(2, 2)>>
TwoHosts == <<Host(2, 2), Host(3, 2)>>

Fixed(keepalive, prewarm, reset) ==
    [name |-> "Fixed", keepalive |-> keepalive, prewarm |-> prewarm, reset |-> reset]

Scenario(trace, machines, invoker, cpu, coldstart, scheduler, deployer) ==
    [trace |-> trace, hosts |-> machines, invoker |-> invoker, cpu |-> cpu,
     coldstart |-> coldstart, scheduler |-> scheduler, deployer |-> deployer]

BasicOne == [name |-> "Basic"]
HashMC == [a \in AppMC |-> IF a = "big" THEN 0 ELSE 1]
LocalityOne == [name |-> "Locality", hash |-> HashMC, step |-> 1]

ColdStarts ==
    {Fixed(1, 0, FALSE), Fixed(1, 0, TRUE), Fixed(0, 0, FALSE), Fixed(1, 1, FALSE),
     [name |-> "Histogram"]}

\* One host: every invoker, cpu and cold start policy.  Fifo with containers of
\* two invocations is left to CpuNotOverloaded where the cpu is contended.
OnOneHost ==
    {Scenario(<<"small", "big", "small", "small">>, OneTwoCores, v, p, k, BasicOne, BasicOne) :
        v \in {"Naive", "FIFO"}, p \in {"Contended"}, k \in ColdStarts}
    \cup
    {Scenario(<<"pair", "pair", "small", "pair">>, One, v, p, k, BasicOne, BasicOne) :
        v \in {"Naive"}, p \in {"Contended", "Isolated"}, k \in ColdStarts}
    \cup
    {Scenario(<<"pair", "pair", "big", "pair">>, OneTwoCores, v, "Isolated", k, BasicOne, BasicOne) :
        v \in {"FIFO", "Naive"}, k \in {Fixed(1, 0, TRUE), Fixed(1, 1, FALSE)}}

Schedulers ==
    {[name |-> n] : n \in {"Basic", "RoundRobin", "Random"}}
    \cup [name : {"Locality"}, hash : {HashMC}, step : {1, 2}, warmOnly : BOOLEAN]
    \cup [name : {"LeastLoaded", "Hermod"}, preferWarm : BOOLEAN, useCount : BOOLEAN,
          avoidQueueing : BOOLEAN]

\* Two hosts: every scheduler, and every deployer for some of them.
OnTwoHosts ==
    {Scenario(<<"small", "big", "small">>, TwoHosts, "FIFO", "Ignored", Fixed(1, 1, TRUE),
              s, BasicOne) : s \in Schedulers}
    \cup
    {Scenario(<<"big", "small", "big">>, TwoHosts, "Naive", "Ignored", k, BasicOne,
              LocalityOne) : k \in {Fixed(1, 0, FALSE), Fixed(1, 1, FALSE)}}

ScenariosMC == OnOneHost \cup OnTwoHosts

\* Two invocations wait for the container of "pair" that becomes idle, behind one
\* of an application that has no room yet.
QueueMC ==
    {Scenario(<<"pair", "pair", "small", "other", "pair", "pair">>, One, "FIFO", "Isolated",
              Fixed(1, 0, TRUE), BasicOne, BasicOne)}
===============================================================================
