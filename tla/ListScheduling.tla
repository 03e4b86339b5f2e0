---------------------------- MODULE ListScheduling ----------------------------
(***************************************************************************)
(* The schedulers of dslab-dag that plan the whole execution before it     *)
(* starts: HEFT, PEFT, DLS and Lookahead, over evaluate_assignment of      *)
(* schedulers/common.rs.  A plan is a sequence of bookings, in the order   *)
(* they were made.  What the code keeps of it is read off the plan: the    *)
(* tasks of each core, the memory in use (the treap of treap.rs), where    *)
(* tasks and data are and when tasks finish.                               *)
(*                                                                         *)
(* Times are integers: a resource takes FlopTime for a flop, the network   *)
(* UnitTime for a unit of data and Latency.  A rank is an average; it is   *)
(* multiplied by the number of what it is an average of, its Scale.        *)
(***************************************************************************)
EXTENDS DagRunner, FiniteSetsExt

CONSTANTS
    FlopTime,       \* 1 / speed of each resource
    UnitTime,       \* 1 / bandwidth of the network
    Latency         \* of the network

ASSUME TimeAssumption ==
    /\ FlopTime \in [Resource -> Nat \ {0}]
    /\ UnitTime \in Nat
    /\ Latency \in Nat

\* Those with a LinearWithFixed or Custom dependency differ in Speedup only.
Speedup(n) == n

\* DataTransferMode::net_time
NetTime(mode, x, y) ==
    CASE mode = "ViaMasterNode" -> 2 * UnitTime
      [] mode = "Direct"        -> IF x = y THEN 0 ELSE UnitTime
      [] mode = "Manual"        -> 0

Workers == Resource \ {Master}
Pairs == Len(Cores) * Len(Cores)
Scale == 2 * Pairs * Cardinality(Workers)

\* avg_flop_time, avg_net_time and the median of dls.rs, times Scale
AvgFlopTime == 2 * Pairs * MapThenSumSet(LAMBDA x : FlopTime[x], Workers)

AvgNetTime(mode) ==
    2 * Cardinality(Workers)
      * MapThenSumSet(LAMBDA p : NetTime(mode, p[1], p[2]), Resource \X Resource)

MedianFlopTime ==
    LET v == SortedBy(Workers, LAMBDA x, y :
               FlopTime[x] < FlopTime[y] \/ (FlopTime[x] = FlopTime[y] /\ x < y))
        n == Len(v)
    IN Pairs * n * IF n % 2 = 1 THEN 2 * FlopTime[v[(n \div 2) + 1]]
                   ELSE FlopTime[v[(n \div 2) + 1]] + FlopTime[v[n \div 2]]

Edges(g, t) ==
    {e \in ToSet(g.tasks[t].outputs) \X Tasks(g) : e[2] \in ToSet(g.items[e[1]].consumers)}

(* calc_ranks: the longest way to an end of the graph.  The longest ways   *)
(* of no edge, of one edge at most and so on, to as many as there can be.  *)
Ranks(g, flopTime, netTime) ==
    LET longer(rank, k) ==
          [t \in Tasks(g) |->
             g.tasks[t].flops * flopTime
             + Max({0} \cup {rank[e[2]] + g.items[e[1]].size * netTime : e \in Edges(g, t)})]
    IN Fold(longer, [t \in Tasks(g) |-> 0], g.tasks)

ByRank(g, ranks) ==
    LET sorted(rank) ==
          SortedBy(Tasks(g), LAMBDA t, u : rank[t] > rank[u] \/ (rank[t] = rank[u] /\ t < u))
    IN Bind(ranks, sorted)

-----------------------------------------------------------------------------

Booked(p) == ToSet(p)
IsBooked(p, t) == \E b \in Booked(p) : b.task = t
Booking(p, t) == CHOOSE b \in Booked(p) : b.task = t

MaxOrZero(S) == Max({0} \cup S)

\* When the inputs from tasks that are booked can be at x.
DataReady(g, mode, strategy, p, t, x) ==
    MaxOrZero(
      {LET u == g.items[i].producer
           b == Booking(p, u)
       IN IF strategy = "Eager"
          THEN b.finish + IF b.resource = x /\ mode = "Direct" THEN 0
                          ELSE g.items[i].size * NetTime(mode, b.resource, x)
          ELSE b.finish + IF mode = "ViaMasterNode"
                          THEN Latency + g.items[i].size * UnitTime ELSE 0
       : i \in {j \in ToSet(g.tasks[t].inputs) :
                  g.items[j].producer # NoProducer /\ IsBooked(p, g.items[j].producer)}})

\* With the lazy strategy the inputs are brought when the task has its cores.
DownloadTime(g, mode, strategy, p, t, x) ==
    IF strategy = "Eager" THEN 0
    ELSE MaxOrZero(
           {IF \/ mode = "Manual"
               \/ mode = "Direct" /\ Booking(p, g.items[i].producer).resource = x
            THEN 0 ELSE Latency + g.items[i].size * UnitTime : i \in ToSet(g.tasks[t].inputs)})

\* Treap::max
MemoryUsed(p, x, from, to) ==
    LET here == {b \in Booked(p) : b.resource = x}
        at(s) == MapThenSumSet(LAMBDA b : b.memory,
                               {b \in here : b.start <= s /\ s < b.finish})
    IN IF from >= to THEN 0
       ELSE Max({at(s) : s \in {from} \cup {b.start : b \in {c \in here :
                                              from < c.start /\ c.start < to}}})

\* Mutant: what is booked to start later is not looked at.
FreeNow(p, x, from, to) ==
    {c \in 1..Cores[x] : ~ \E b \in Booked(p) :
       /\ b.resource = x /\ c \in b.cores
       /\ b.start <= from /\ b.finish > from}

\* The cores without a task at from and up to to.
FreeCores(p, x, from, to) ==
    {c \in 1..Cores[x] : ~ \E b \in Booked(p) :
       /\ b.resource = x /\ c \in b.cores
       /\ \/ b.start <= from /\ b.finish > from
          \/ from < b.start /\ b.start < to}

\* Only where a task ends can there be more room than before.
FindEarliestSlot(p, x, ready, length, task) ==
    LET times == {ready} \cup {b.finish : b \in {c \in Booked(p) :
                                 c.resource = x /\ c.finish > ready}}
    IN Min({s \in times :
              /\ Cardinality(FreeCores(p, x, s, s + length)) >= task.min
              /\ MemoryUsed(p, x, s, s + length) + task.memory <= Memory[x]})

\* A booking for the task on the first cores that are free, for min_cores.
EvaluateAssignment(g, mode, strategy, p, t, x) ==
    LET task   == g.tasks[t]
        length == ((task.flops * FlopTime[x]) \div Speedup(task.min))
                    + DownloadTime(g, mode, strategy, p, t, x)
        ready  == DataReady(g, mode, strategy, p, t, x)
        book(start, len) ==
          [task |-> t, resource |-> x, memory |-> task.memory,
           cores |-> ToSet(SubSeq(InOrder(FreeCores(p, x, start, start + len)), 1, task.min)),
           start |-> start, finish |-> start + len]
    IN Bind(length, LAMBDA len :
         Bind(Bind(ready, LAMBDA s : FindEarliestSlot(p, x, s, len, task)),
              LAMBDA start : book(start, len)))

Candidates(g, mode, strategy, p, t) ==
    {EvaluateAssignment(g, mode, strategy, p, t, x) : x \in {y \in Resource : Fits(g.tasks[t], y)}}

\* The candidate with the least cost, on the first resource that has it.
Cheapest(C, cost(_)) ==
    LET best(D) == CHOOSE d \in D : \A e \in D :
          d.cost < e.cost \/ (d.cost = e.cost /\ d.booking.resource <= e.booking.resource)
    IN Bind({[booking |-> b, cost |-> cost(b)] : b \in C}, best).booking

EarliestFinish(g, mode, strategy, p, t) ==
    Cheapest(Candidates(g, mode, strategy, p, t), LAMBDA b : b.finish)

-----------------------------------------------------------------------------

BookAll(g, mode, strategy, p, tasks) ==
    Fold(LAMBDA q, t : Append(q, EarliestFinish(g, mode, strategy, q, t)), p, tasks)

Heft(g, mode, strategy) ==
    BookAll(g, mode, strategy, <<>>, ByRank(g, Ranks(g, AvgFlopTime, AvgNetTime(mode))))

(* Lookahead books a task where HEFT would have the tasks after it finish  *)
(* first: all, or only the task's successors.  The code stops an attempt   *)
(* that is no better than another: its makespan would not get less.        *)
LookaheadStep(g, mode, strategy, depth, order, p, t) ==
    LET later(q) == SelectSeq(order, LAMBDA u :
                      ~ IsBooked(q, u) /\ (depth = "Local" => u \in Successors(g, t)))
        ahead(q) == BookAll(g, mode, strategy, q, later(q))
        makespan(b) == Bind(Bind(Append(p, b), ahead), LAMBDA q :
                         Max({q[k].finish : k \in (Len(p) + 1)..Len(q)}))
    IN Append(p, Cheapest(Candidates(g, mode, strategy, p, t), makespan))

Lookahead(g, mode, strategy, depth) ==
    LET plan(order) == Fold(LAMBDA p, t : LookaheadStep(g, mode, strategy, depth, order, p, t),
                            <<>>, order)
    IN Bind(ByRank(g, Ranks(g, AvgFlopTime, AvgNetTime(mode))), plan)

\* The tasks whose predecessors are booked.
Free(g, p) ==
    {t \in Tasks(g) : ~ IsBooked(p, t) /\ \A u \in Producers(g, t) : IsBooked(p, u)}

(* PEFT: the optimistic cost table says how long what comes after a task   *)
(* takes at least, if the task is on a resource.                           *)
OptimisticCost(g, mode, original) ==
    LET net(x, y) == IF ~ original THEN Scale * NetTime(mode, x, y)
                     ELSE IF x = y THEN 0 ELSE AvgNetTime(mode)
        longer(oct, k) ==
          [t \in Tasks(g) |-> [x \in Resource |-> MaxOrZero(
             {Min({oct[e[2]][y] + Scale * g.tasks[e[2]].flops * FlopTime[y]
                   + g.items[e[1]].size * net(x, y) : y \in Resource}) : e \in Edges(g, t)})]]
    IN Fold(longer, [t \in Tasks(g) |-> [x \in Resource |-> 0]], g.tasks)

Peft(g, mode, strategy, original) ==
    LET plan(oct) ==
          LET rank == [t \in Tasks(g) |-> MapThenSumSet(LAMBDA x : oct[t][x], Resource)]
              next(order, p) == SelectSeq(order, LAMBDA u : u \in Free(g, p))[1]
              step(p, t) == Append(p, Cheapest(Candidates(g, mode, strategy, p, t),
                              LAMBDA b : Scale * b.finish + oct[t][b.resource]))
          IN Bind(ByRank(g, rank), LAMBDA order :
               Fold(LAMBDA p, k : Bind(next(order, p), LAMBDA t : step(p, t)), <<>>, order))
    IN Bind(OptimisticCost(g, mode, original), plan)

\* DLS: the pair of a free task and a resource with the best dynamic level.
Dls(g, mode, strategy) ==
    LET score(level, b) ==
          level[b.task] - Scale * b.start
            + g.tasks[b.task].flops * (MedianFlopTime - Scale * FlopTime[b.resource])
        best(level, C) == CHOOSE b \in C : \A c \in C :
          \/ score(level, b) > score(level, c)
          \/ /\ score(level, b) = score(level, c)
             /\ \/ level[b.task] > level[c.task]
                \/ level[b.task] = level[c.task] /\ b.task < c.task
                \/ b.task = c.task /\ b.resource <= c.resource
        pairs(p) == UNION {Candidates(g, mode, strategy, p, t) : t \in Free(g, p)}
    IN Bind(Ranks(g, MedianFlopTime, AvgNetTime(mode)), LAMBDA level :
         Fold(LAMBDA p, k : Append(p, Bind(pairs(p), LAMBDA C : best(level, C))),
              <<>>, g.tasks))

-----------------------------------------------------------------------------

(* makespan_lower_bound: the longest way through the graph with each task  *)
(* on the resource that is best for it, in time units of 1 / Parts, and    *)
(* all the work on all the cores.                                          *)
Parts == MapThenFoldSet(LAMBDA n, m : n * m, 1, LAMBDA n : n, LAMBDA S : Max(S),
                        1..Max(ToSet(Cores)))

BestTime(task) ==
    Min({(Parts * task.flops * FlopTime[x]) \div Speedup(Min({Cores[x], task.max})) :
           x \in Resource})

CriticalPathTime(g) ==
    LET longer(rank, k) ==
          [t \in Tasks(g) |->
             BestTime(g.tasks[t]) + Max({0} \cup {rank[u] : u \in Successors(g, t)})]
    IN Bind(Fold(longer, [t \in Tasks(g) |-> 0], g.tasks),
            LAMBDA rank : Max({rank[t] : t \in Tasks(g)}))

Product(f, S) == MapThenFoldSet(LAMBDA n, m : n * m, 1, LAMBDA x : f[x],
                                LAMBDA T : CHOOSE x \in T : TRUE, S)

\* total_comp_time is at most time.
WorkDoneBy(g, time) ==
    MapThenSumSet(LAMBDA t : g.tasks[t].flops, Tasks(g)) * Product(FlopTime, Resource)
      <= time * MapThenSumSet(LAMBDA x : Cores[x] * Product(FlopTime, Resource \ {x}), Resource)

-----------------------------------------------------------------------------

Plan(g, mode, policy) ==
    CASE policy.name = "HEFT"      -> Heft(g, mode, policy.strategy)
      [] policy.name = "Lookahead" -> Lookahead(g, mode, policy.strategy, policy.depth)
      [] policy.name = "PEFT"      -> Peft(g, mode, policy.strategy, policy.original)
      [] policy.name = "DLS"       -> Dls(g, mode, policy.strategy)

\* The actions, in the order of the starts.
ActionsOf(p) ==
    LET order == SortedBy(DOMAIN p, LAMBDA k, l :
                   p[k].start < p[l].start \/ (p[k].start = p[l].start /\ k < l))
    IN [n \in DOMAIN p |->
          LET b == p[order[n]]
          IN [type |-> "ScheduleTaskOnCores", task |-> b.task, resource |-> b.resource,
              on |-> InOrder(b.cores)]]
=============================================================================
