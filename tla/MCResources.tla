----------------------------- MODULE MCResources -----------------------------
(***************************************************************************)
(* Each behaviour is one of: the three sharing models side by side, a      *)
(* single core, clients on a network, a master with its workers, processes *)
(* that ping each other, an experiment run by a pool of threads, a         *)
(* scheduler with one of the placement algorithms.                         *)
(***************************************************************************)
EXTENDS ResourceProperties

vars == <<tester, core, network, toSend, toAdd, workersVars, pinging, experiment, placing>>

programs == <<pinging, experiment, placing>>

Shares == <<6, 3, 1>>
Flops == [c \in CoreComp |-> CASE c = "a" -> 72 [] c = "b" -> 24 [] c = "c" -> 48]
MemoryNeeds == [c \in CoreComp |-> IF c = "c" THEN 2 ELSE 1]

\* Four nodes: a fast way of three links and a slow link from 1 to 4.
Ring == Fold(LAMBDA t, e : AddFullDuplexLink(t, e[1], e[2], SharedLink(e[3], e[4])),
             NewTopology(4), << <<1, 2, 120, 1>>, <<2, 3, 60, 2>>, <<3, 4, 180, 1>>, <<1, 4, 60, 5>> >>)

Tree == AddUnidirectionalLink(
          Fold(LAMBDA t, e : AddLink(t, e[1], e[2], e[3]), NewTopology(4),
               << <<1, 2, SharedLink(120, 1)>>, <<2, 3, NonSharedLink(60, 2)>> >>),
          1, 4, SharedLink(60, 1))

MixedMesh == AddFullDuplexLink(AddFullDuplexLink(FullMesh(3, SharedLink(60, 1)),
                                                 1, 2, SharedLink(120, 3)), 2, 3, SharedLink(24, 1))

\* From 1 by way of 2 to the others: what goes on to 3 is slow, and keeps its
\* throughput when what goes to 2 or 4 has ended.
Junction(first) ==
    Fold(LAMBDA t, e : AddFullDuplexLink(t, e[1], e[2], e[3]), NewTopology(4),
         << <<1, 2, first>>, <<2, 3, SharedLink(24, 1)>>, <<2, 4, NonSharedLink(60, 1)>> >>)

TopologyAware(topology, algorithm, optimized) ==
    NewNetwork(NewTopologyAware(topology, algorithm, optimized),
               [n \in NodesOf(topology) |-> NewShared])

Data(from, to, notify) == [from |-> from, to |-> to, notify |-> notify]

Crossing == {Data(1, 4, "Client"), Data(2, 4, "Server"), Data(3, 2, "Client")}

Scenario(net, sends, links) == [network |-> net, toSend |-> sends, toAdd |-> links]

NewLink(from, to, link, form) == [from |-> from, to |-> to, link |-> link, form |-> form]

Clients ==
    {Scenario(NewNetwork(NewShared, [n \in 1..2 |-> NewConstant]),
              {Data(1, 2, "Server"), Data(2, 1, "Client"), Data(1, 1, "Client")},
              <<>>)}
    \cup {Scenario(TopologyAware(Ring, a, FALSE), Crossing, <<NewLink(2, 4, SharedLink(60, 1), "bidirectional")>>) :
            a \in {"FloydWarshall", "Dijkstra"}}
    \cup {Scenario(TopologyAware(Tree, "Dijkstra", FALSE),
                   {Data(1, 4, "Client"), Data(3, 1, "Server"), Data(4, 2, "Client")},
                   <<NewLink(4, 3, NonSharedLink(120, 1), "full-duplex")>>)}
    \cup {Scenario(InitNetwork(config, 4, SharedLink(60, 1)),
                   {Data(1, 4, "Client"), Data(2, 4, "Client"), Data(3, 2, "Client"), Data(4, 3, "Client")}, <<>>) :
            config \in {"Star", "FullMesh", "SharedBandwidth"}}
    \cup {Scenario(TopologyAware(MixedMesh, a, TRUE),
                   {Data(1, 2, "Server"), Data(3, 2, "Client"), Data(1, 3, "Client")},
                   <<>>) : a \in {"FloydWarshall", "Dijkstra"}}
    \cup {Scenario(TopologyAware(Junction(SharedLink(120, 1)), "Dijkstra", TRUE),
                   {Data(1, 2, "Client"), Data(1, 3, "Client"), Data(2, 3, "Server"), Data(1, 4, "Client")},
                   <<NewLink(1, 3, SharedLink(24, 1), "unidirectional")>>)}

\* The link from 1 to 2 gives each transfer its full bandwidth.
NonSharedClients ==
    Scenario(TopologyAware(Junction(NonSharedLink(60, 1)), "Dijkstra", TRUE),
             {Data(1, 2, "Client"), Data(1, 3, "Client"), Data(1, 4, "Client")}, <<>>)

WorkersNetwork(model) == NewNetwork(model, [w \in Worker |-> NewShared])

\* Tasks that run at the same time, and tasks of which one has to wait.
Workloads == {<<{1, 2, 3}, WorkersNetwork(NewConstant), FALSE>>}
    \cup {<<{1, 3, 4}, WorkersNetwork(m), a>> : m \in {NewConstant, NewShared}, a \in BOOLEAN}

Machines == [w \in Worker |-> [cores |-> w, memory |-> w + 1, speed |-> w]]
DiskSpace == [d \in Disk |-> 2]
NoTotalLimit == [d \in Disk |-> NoLimit]
NoOpsLimits == [d \in Disk |-> [t \in OpType |-> NoLimit]]
Needs == << [cores |-> 1, memory |-> 1, input |-> 1, output |-> 1],
            [cores |-> 1, memory |-> 2, input |-> 1, output |-> 1],
            [cores |-> 1, memory |-> 1, input |-> 1, output |-> 1],
            [cores |-> 1, memory |-> 3, input |-> 1, output |-> 1] >>

Quiet == NewNetwork(NewConstant, <<>>)

\* Nobody pings.
NoPinging == NewPinging([i \in {} |-> {}], FALSE, "callbacks", FALSE, 1)

Pingings ==
    {NewPinging(RingPeers(3), FALSE, style, n, 2) :
       style \in {"callbacks", "coroutines"}, n \in BOOLEAN}
    \cup {NewPinging(peers, TRUE, style, TRUE, 2) :
            peers \in DrawnPeers(3, 2), style \in {"callbacks", "coroutines"}}

\* A range, a single value, a parameter with two values, one with three.
Parameters == <<ValueRange(1, 5, 2), OneValue(7), SomeValues(<<1, 2>>)>>

AllExperiments ==
    {IaasExperiment(Parameters, 2), IaasExperiment(<<OneValue(1)>>, 1),
     DagExperiment(<<1, 2>>, <<1>>, <<1, 2>>, 2),
     ParallelSimulation(<<1, 2, 3>>, <<1>>, <<4, 5, 6>>),
     ParallelSimulationRawNWorkers(<<1, 2, 3, 4>>, <<1, 2, 3, 4>>, <<7>>, 2)}

\* The hosts and the VMs of test_algorithms.rs, except that the last two hosts
\* share a rack: four VMs that are there before and three to be placed; besides, a
\* VM that fills one of the first two hosts.
HostCapacity == << [cpu |-> 10, memory |-> 5], [cpu |-> 10, memory |-> 5],
                   [cpu |-> 13, memory |-> 4], [cpu |-> 13, memory |-> 4] >>
HostRack == <<1, 2, 3, 3>>
VmNeeds == << <<6, 2>>, <<6, 2>>, <<7, 1>>, <<9, 1>>, <<2, 2>>, <<3, 1>>, <<1, 1>>, <<10, 5>> >>
VmUsage == [r \in Resource |-> [S \in SUBSET Vm |->
              MapThenSumSet(LAMBDA v : VmNeeds[v][IF r = "cpu" THEN 1 ELSE 2], S)]]
Half == <<1, 2>>

PoolWith(vms) == [h \in Host |-> Allocate(NewHostInfo(h), {h} \cap vms)]

Separate == {<<5>>, <<7>>, <<8>>}
Batched == {<<5, 6, 7>>, <<8>>}

\* The hosts that test_algorithms.rs expects for the three VMs.
Expected == {<<"FirstFit", <<1, 2, 1>>>>, <<"BestFit", <<1, 2, 2>>>>, <<"WorstFit", <<3, 1, 2>>>>,
             <<"DotProduct", <<3, 4, 1>>>>, <<"WeightedDotProduct", <<3, 1, 4>>>>,
             <<"L2NormDiff", <<4, 1, 4>>>>, <<"CosineSimilarity", <<1, 3, 3>>>>,
             <<"DeltaPerpDistance", <<4, 3, 3>>>>}
NoReports == [h \in Host |-> 0]

\* Three requests of one VM each.
InTurn(algorithm) ==
    Fold(LAMBDA sofars, v :
           UNION {{Placed([s.pool EXCEPT ![c[1]] = Allocate(@, {v})], Append(s.chosen, c[1])) :
                     c \in ComputePlacements(algorithm, s.pool, NoReports, <<v>>)} : s \in sofars},
         {Placed(PoolWith(1..4), <<>>)}, <<5, 6, 7>>)

ASSUME AsInTests ==
    /\ \A e \in Expected : \E s \in InTurn(e[1]) : s.chosen = e[2]
    /\ RackAntiAffinity(PoolWith(1..4), <<5, 6, 7>>) = <<1, 2, 3>>

NoPlacing == NewPlacing("FirstFit", PoolWith({}), {})

Placings ==
    {NewPlacing(a, PoolWith(1..4), requests) :
       a \in Algorithms \ {"BestFitThreshold"}, requests \in {Separate, Batched}}
    \cup {NewPlacing("BestFitThreshold", PoolWith({2, 3}), requests) :
            requests \in {Separate, Batched}}

NothingElse == pinging = NoPinging /\ experiment = NoExperiment /\ placing = NoPlacing

Init ==
    \/ /\ tester = NewTester(MaxActivities) /\ core = NewCore({})
       /\ network = Quiet /\ toSend = {} /\ toAdd = <<>>
       /\ WorkersInit({}, FALSE)
       /\ NothingElse
    \/ /\ tester = NewTester(0) /\ core = NewCore(CoreComp)
       /\ network = Quiet /\ toSend = {} /\ toAdd = <<>>
       /\ WorkersInit({}, FALSE)
       /\ NothingElse
    \/ /\ tester = NewTester(0) /\ core = NewCore({})
       /\ \E s \in Clients : network = s.network /\ toSend = s.toSend /\ toAdd = s.toAdd
       /\ WorkersInit({}, FALSE)
       /\ NothingElse
    \/ /\ tester = NewTester(0) /\ core = NewCore({})
       /\ \E w \in Workloads : network = w[2] /\ WorkersInit(w[1], w[3])
       /\ toSend = {} /\ toAdd = <<>>
       /\ NothingElse
    \/ /\ tester = NewTester(0) /\ core = NewCore({})
       /\ network = Quiet /\ toSend = {} /\ toAdd = <<>>
       /\ WorkersInit({}, FALSE)
       /\ \/ pinging \in Pingings /\ experiment = NoExperiment /\ placing = NoPlacing
          \/ pinging = NoPinging /\ experiment \in AllExperiments /\ placing = NoPlacing
          \/ pinging = NoPinging /\ experiment = NoExperiment /\ placing \in Placings

NonSharedInit ==
    /\ tester = NewTester(0) /\ core = NewCore({})
    /\ LET s == NonSharedClients
       IN network = s.network /\ toSend = s.toSend /\ toAdd = s.toAdd
    /\ WorkersInit({}, FALSE)
    /\ NothingElse

WithWorkers ==
    master.requested \cup master.unassigned \cup master.assigned \cup master.completed # {}

SharingStep == TesterStep /\ UNCHANGED <<core, network, clientVars, workersVars, programs>>

SingleCoreStep == CoreStep /\ UNCHANGED <<tester, network, clientVars, workersVars, programs>>

SendStep == ClientStep /\ UNCHANGED <<tester, core, workersVars, programs>>

NetworkStep == NetworkDelivers /\ UNCHANGED <<tester, core, workersVars, programs>>

NotifyStep == ReceiverStep /\ UNCHANGED <<tester, core, workersVars, programs>>

EventsStep ==
    /\ MasterStep \/ WorkerStep \/ ComputeStep \/ DiskStep
    /\ UNCHANGED <<tester, core, clientVars, programs>>

TimerStep == OnScheduleTasks /\ UNCHANGED <<tester, core, clientVars, programs>>

PingStep ==
    PingingStep /\ UNCHANGED <<tester, core, network, clientVars, workersVars, experiment, placing>>

RunStep ==
    ExperimentStep /\ UNCHANGED <<tester, core, network, clientVars, workersVars, pinging, placing>>

PlaceStep ==
    PlacingStep
    /\ UNCHANGED <<tester, core, network, clientVars, workersVars, pinging, experiment>>

Next ==
    \/ SharingStep \/ SingleCoreStep \/ SendStep \/ NetworkStep \/ PingStep \/ RunStep
    \/ PlaceStep
    \/ ~ WithWorkers /\ NotifyStep
    \/ WithWorkers /\ (EventsStep \/ TimerStep)

Spec == Init /\ [][Next]_vars

NonSharedSpec == NonSharedInit /\ [][Next]_vars

(* Every event of the simulation is delivered; computations, transfers and *)
(* disk operations take their time; threads and caller of an experiment go *)
(* on.  The clients need not send anything.                                *)
(* NetworkFair is WF_vars(NetworkStep), with ENABLED written out.          *)
NetworkFair ==
    []<>(network.starting = {} /\ Announced(network) = {}) \/ []<><<NetworkStep>>_vars

FairSpec ==
    /\ Spec
    /\ NetworkFair
    /\ WF_vars(SingleCoreStep)
    /\ WF_vars(PingStep)
    /\ WF_vars(RunStep)
    /\ WF_vars(~ WithWorkers /\ NotifyStep)
    /\ WF_vars(WithWorkers /\ EventsStep)
    /\ WF_vars(WithWorkers /\ TimerStep)
=============================================================================
