-------------------------- MODULE ResourceProperties --------------------------
(***************************************************************************)
(* What the resource models promise to their clients: the network, and the *)
(* workers that use network, disks and computations together; what the     *)
(* programs that run simulations promise: rounds of pings, and experiments *)
(* of many runs.  (What is promised of fair sharing is in SingleCore.)     *)
(***************************************************************************)
EXTENDS SingleCore, Examples, Experiments, VmPlacementAlgorithms

AddUp(S, value(_)) == MapThenSumSet(value, S)

(* A table of routes leads each node on shortest ways to all nodes that it *)
(* can reach, and only there.                                              *)
RoutesShortest(topology, table) ==
    LET N == NodesOf(topology)
        cost(p) == PathLatency(topology, PathBetween(topology, table, p[1], p[2]))
        known == {p \in N \X N : p[1] = p[2] \/ HasPath(table, p[1], p[2])}
        shortest(c) ==
            \A e \in DOMAIN topology.out, t \in N : <<e[2], t>> \in known =>
              /\ <<e[1], t>> \in known
              /\ c[<<e[1], t>>] <= LatencyOf(topology, e[1], e[2]) + c[<<e[2], t>>]
        arrives(p) == LET way == Way(topology, table, p[1], p[2]) IN way[Len(way)] = p[2]
    IN /\ \A p \in known : arrives(p)
       /\ Bind([p \in known |-> IF p[1] = p[2] THEN 0 ELSE cost(p)], shortest)

Throughput(S) == AddUp(S, LAMBDA t : t.throughput)

(* Max-min fairness: no shared link gives more than it has, and each       *)
(* transfer has a link that explains why it does not get more.             *)
FairlyShared(m) ==
    LET through(l) == Through(m.transfers, l)
        bottleneck(t, l) ==
            \/ /\ m.topology.links[l].policy = "NonShared"
               /\ t.throughput = m.topology.links[l].bandwidth
            \/ /\ m.topology.links[l].policy = "Shared"
               /\ Throughput(through(l)) = m.topology.links[l].bandwidth
               /\ \A u \in through(l) : u.throughput <= t.throughput
    IN /\ \A l \in DOMAIN m.topology.links : m.topology.links[l].policy = "Shared" =>
            Throughput(through(l)) <= m.topology.links[l].bandwidth
       /\ \A t \in m.transfers : \E l \in Range(t.path) : bottleneck(t, l)

InModel(m) ==
    CASE m.kind = "constant" -> m.transfers
      [] m.kind = "shared"   -> Range(m.transfers)
      [] m.kind = "topology" -> {t.id : t \in m.transfers}

\* The end of each transfer, or of one of them, is announced.
EndsAnnounced(m) ==
    IF m.kind = "constant" THEN m.announced = m.transfers
    ELSE /\ m.announced \subseteq m.next \cap InModel(m)
         /\ Cardinality(m.announced) = IF InModel(m) = {} THEN 0 ELSE 1

(* The network loses no transfer and ends none twice, whatever starts,     *)
(* ends or is added at the same time: each is waiting to start or in the   *)
(* model of its nodes, and the models have announced the end of those that *)
(* end next.  On a topology, the bandwidth of the links is shared fairly,  *)
(* also when only the transfers affected by a change are computed again,   *)
(* and all routes are shortest (a topology changes with and without        *)
(* transfers; the routes are looked at without).                           *)
NetworkExact ==
    LET outside == network.models[Outside]
        models == DOMAIN network.models
    IN /\ \A f \in network.flows :
            {n \in models : f.id \in InModel(network.models[n])}
              = IF f.id \in network.starting THEN {} ELSE {ModelFor(f)}
       /\ \A n \in models : /\ EndsAnnounced(network.models[n])
                            /\ InModel(network.models[n]) \subseteq {f.id : f \in network.flows}
       /\ outside.kind = "topology" =>
            /\ network.flows = {} => RoutesShortest(outside.topology, outside.table)
            /\ FairlyShared(outside)

(* "NonShared: each transfer gets the full link bandwidth" (link.rs): on a *)
(* way of such links only, a transfer gets the bandwidth of the narrowest, *)
(* whatever else is sent (topology_aware.rs, calc).                        *)
NonSharedInFull ==
    LET m == network.models[Outside]
        bandwidths(t) == {m.topology.links[l].bandwidth : l \in Range(t.path)}
    IN m.kind = "topology" =>
         \A t \in m.transfers :
           (\A l \in Range(t.path) : m.topology.links[l].policy = "NonShared") =>
             t.throughput = Min(bandwidths(t))

-----------------------------------------------------------------------------

InState(w, states) == {j.task : j \in {i \in jobs[w] : i.state \in states}}

TasksOf(w) ==
    Range(toWorker[w]) \cup {j.task : j \in jobs[w]}
      \cup {a.task : a \in {b \in Range(toMaster[w]) : b.type = "TaskCompleted"}}

NeedOf(S, field) == AddUp(S, LAMBDA t : TaskNeeds[t][field])

\* Each task is at one place, and what the master thinks a worker has left is
\* what the tasks given to it do not take.
WorkersAccounted ==
    LET m == master
        known == DOMAIN m.workers
        tasks == DOMAIN TaskNeeds
    IN /\ m.assigned = UNION {TasksOf(w) : w \in Worker}
       /\ \A v, w \in Worker : v # w => TasksOf(v) \cap TasksOf(w) = {}
       /\ m.cores = AddUp(known, LAMBDA w : m.workers[w].cores)
       /\ m.memory = AddUp(known, LAMBDA w : m.workers[w].memory)
       /\ \A w \in known :
            /\ m.workers[w].cores = Capacities[w].cores - NeedOf(TasksOf(w), "cores")
            /\ m.workers[w].memory = Capacities[w].memory - NeedOf(TasksOf(w), "memory")
            /\ IF m.workers[w].cores > 0 /\ m.workers[w].memory > 0
               THEN w \in DOMAIN m.queue
                      /\ m.queue[w] = Score(w, m.workers[w].memory, m.workers[w].cores)
               ELSE w \notin DOMAIN m.queue
       /\ \A w \in Worker :
            /\ disks[w].used = NeedOf(InState(w, {"Writing", "Uploading"}), "output")
            /\ \A a \in Range(comps[w].answers) : a.type # "CompFailed"
       /\ \A a \in Range(toFs) : a.type \in {"DataReadCompleted", "DataWriteCompleted"}
       /\ m.unassigned # {} => m.timers > 0

\* A pinger has one ping or pong under way until its rounds are made.
RoundsAccounted ==
    LET s == pinging
        own(i) == {m \in s.messages : IF m.type = "Ping" THEN m.from = i ELSE m.to = i}
        started(i) == i \in s.pingers /\ i \notin Range(s.starts)
    IN /\ \A i \in DOMAIN s.peers : ~ started(i) => own(i) = {} /\ s.answered[i] = 0
       /\ \A i \in s.pingers : started(i) =>
            IF s.style = "callbacks"
            THEN /\ s.answered[i] + s.left[i] = s.iterations
                 /\ Cardinality(own(i)) = IF s.left[i] > 0 THEN 1 ELSE 0
            ELSE /\ s.answered[i] + s.left[i] + Cardinality(own(i)) = LoopRounds(s)
                 /\ \A m \in own(i) : s.awaits[i] = IF m.type = "Ping" THEN m.to ELSE m.from
                 /\ own(i) = {} => s.left[i] = 0 /\ s.awaits[i] = Nobody

AllCombinations(variables) ==
    {c \in [DOMAIN variables -> UNION {Range(variables[i].values) : i \in DOMAIN variables}] :
       \A i \in DOMAIN variables : c[i] \in Range(variables[i].values)}

\* Each combination of values is one run, each run is queued, running, reported
\* or lost; the caller gets all that are not lost, in the order of the
\* configurations where it is told so, and nobody else holds them then.
RunsAccounted ==
    LET e == experiment
        simulated == {j.run : j \in {i \in e.running : i.step \in {"simulate", "report"}}}
        runs == Range(e.queue) \cup simulated \cup Range(e.results) \cup e.lost
        configs == {r.config : r \in runs}
    IN /\ Cardinality(runs) = e.submitted
       /\ Len(e.queue) + Cardinality(simulated) + Len(e.results) + Cardinality(e.lost) = e.submitted
       /\ Cardinality(e.running) <= e.threads
       /\ e.kind = "iaas" =>
            /\ Cardinality(configs) = e.submitted
            /\ e.at # "submitting" => configs = AllCombinations(e.config.variables)
       /\ e.shown \subseteq 1..e.total
       /\ e.at # "panicked"
       /\ e.at = "returned" =>
            /\ Range(e.answer) = runs \ e.lost
            /\ e.kind \in {"dag", "faas", "faas-raw"} =>
                 \A j, k \in DOMAIN e.answer : j < k => e.answer[j].id < e.answer[k].id
            /\ IsFaas(e) => \A k \in 1..e.total : e.answer[k].id = k

(* Each task, round and run is at one place.  What the master thinks a     *)
(* worker has left is what the tasks given to it do not take: so a worker  *)
(* never gets a task that its cores or its memory do not suffice for, and  *)
(* no worker with something left is forgotten; the disk of a worker holds  *)
(* the outputs that are not uploaded.  An experiment runs each combination *)
(* of its parameters once and reports it once, whatever the threads do at  *)
(* the same time; only a run that panics is missing.                       *)
TasksAccounted == WorkersAccounted /\ RoundsAccounted /\ RunsAccounted

-----------------------------------------------------------------------------

AllWorkDone ==
    /\ core.toRequest = {} /\ core.events = {} /\ core.work = {}
    /\ network.flows = {} /\ network.arrived = {}
    /\ master.unassigned \cup master.assigned \cup master.requested = {}
    /\ pinging.starts = <<>> /\ pinging.messages = {}
    /\ \A i \in pinging.pingers : pinging.left[i] = 0
    /\ \/ experiment.at = "returned"
       \/ IsFaas(experiment) /\ experiment.lost # {}

(* In the end each computation of the core is finished or refused, each    *)
(* transfer has ended and who asked for it knows, and each task is         *)
(* completed: no event that would lead on is cancelled or missed, with     *)
(* callbacks and with coroutines.  All rounds of pings are made, and the   *)
(* caller of an experiment returns - except that of dslab-faas if a run    *)
(* panics: it waits for a result that does not come.                       *)
WorkCompletes == <>[]AllWorkDone
=============================================================================
