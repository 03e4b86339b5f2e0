----------------------------- MODULE DagSchedulers -----------------------------
(***************************************************************************)
(* The schedulers of dslab-dag that decide at each task completion:        *)
(* SimpleScheduler, SimpleDataScheduler, DynamicListScheduler and DYTAS    *)
(* (dytas.rs).  Each looks at the graph and at the runner's count of free  *)
(* cores and memory, and returns actions.                                  *)
(***************************************************************************)
EXTENDS ListScheduling

(* Cores of a resource are u32.  DYTAS may take away more than there are;  *)
(* a release build wraps.  CoreWrap stands for 2^32.                       *)
CONSTANT CoreWrap

ASSUME CoreWrapAssumption == CoreWrap \in Nat /\ \A x \in Resource : Cores[x] < CoreWrap

\* The copy of the books a scheduler works on, and what it has decided.
Books(r, memo) == [cores |-> r.cores, memory |-> r.memory, actions |-> <<>>, memo |-> memo]

ScheduleTask(t, x, n) ==
    [type |-> "ScheduleTask", task |-> t, resource |-> x, cores |-> n]

Move(i, from, to) == [type |-> "TransferData", item |-> i, from |-> from, to |-> to]

Suitable(g, b, t) ==
    {x \in Resource : /\ x \in g.tasks[t].allowed
                      /\ g.tasks[t].min <= b.cores[x]
                      /\ g.tasks[t].memory <= b.memory[x]}

Assign(g, b, t, x, n) ==
    [b EXCEPT !.cores[x]  = (@ - n) % CoreWrap,
              !.memory[x] = @ - g.tasks[t].memory,
              !.actions   = Append(@, ScheduleTask(t, x, n))]

MinOf(a, b) == IF a < b THEN a ELSE b

First(S) == CHOOSE x \in S : \A y \in S : x <= y

-----------------------------------------------------------------------------

\* Ready tasks in order, each on the first resource that has room.
SimpleStep(g, b, t) ==
    LET where == Suitable(g, b, t)
    IN IF where = {} THEN b
       ELSE LET x == First(where)
            IN Assign(g, b, t, x, MinOf(b.cores[x], g.tasks[t].max))

Simple(r) ==
    {Fold(LAMBDA b, t : SimpleStep(r.dag, b, t), Books(r, <<>>), InOrder(r.dag.ready))}

(* The same for Manual mode: a task's inputs are moved to it from where    *)
(* they were produced, what nobody takes to the runner.                    *)
SimpleDataStep(r, b, t) ==
    LET c    == SimpleStep(r.dag, b, t)
        x    == c.actions[Len(c.actions)].resource
        from(i) == LET p == r.dag.items[i].producer
                   IN IF p = NoProducer THEN Runner ELSE r.location[p]
        fetch == [k \in DOMAIN r.dag.tasks[t].inputs |->
                    LET i == r.dag.tasks[t].inputs[k] IN Move(i, from(i), x)]
        send  == [k \in DOMAIN r.dag.tasks[t].outputs |->
                    Move(r.dag.tasks[t].outputs[k], x, Runner)]
    IN IF c = b THEN b
       ELSE [c EXCEPT !.actions =
               b.actions \o SelectSeq(fetch, LAMBDA a : a.from # a.to)
               \o <<c.actions[Len(c.actions)]>>
               \o SelectSeq(send, LAMBDA a : r.dag.items[a.item].consumers = <<>>)]

SimpleData(r) ==
    {Fold(LAMBDA b, t : SimpleDataStep(r, b, t), Books(r, <<>>), InOrder(r.dag.ready))}

-----------------------------------------------------------------------------

(* DynamicListScheduler (dynamic_list.rs).  Its criteria are keys: a       *)
(* larger first component goes before a smaller one, then a larger second  *)
(* component, then what came first.  The code divides amounts by the       *)
(* largest there is; here the keys are multiplied by these instead.        *)

Better(p, q) == p[1] > q[1] \/ (p[1] = q[1] /\ p[2] > q[2])

Ordered(S, key) ==
    SortedBy(S, LAMBDA x, y : Better(key[x], key[y]) \/ (key[x] = key[y] /\ x < y))

BestOf(seq, key) ==
    seq[CHOOSE k \in DOMAIN seq : \A l \in DOMAIN seq :
          Better(key[seq[k]], key[seq[l]]) \/ (key[seq[k]] = key[seq[l]] /\ k <= l)]

SizeOf(g, items) == Fold(LAMBDA sum, i : sum + g.items[i].size, 0, items)

Largest(S) == CHOOSE n \in S : \A m \in S : m <= n

TaskKey(g, criterion, rank, t) ==
    LET task == g.tasks[t]
        sum == task.max * Largest({g.tasks[u].memory : u \in Tasks(g)})
                 + task.memory * Largest({g.tasks[u].max : u \in Tasks(g)})
    IN CASE criterion = "CompSize"        -> <<task.flops, 0>>
         [] criterion = "DataSize"        -> <<SizeOf(g, task.inputs \o task.outputs), 0>>
         [] criterion = "ChildrenCount"   -> <<Len(task.outputs), 0>>
         [] criterion = "BottomLevel"     -> <<rank[t], 0>>
         [] criterion = "Cores"           -> <<task.max, task.flops>>
         [] criterion = "Memory"          -> <<task.memory, task.flops>>
         [] criterion = "CoresMemorySum"  -> <<sum, task.flops>>
         [] criterion = "CoresMemoryMult" -> <<task.max * task.memory, task.flops>>
         [] criterion = "CoresFlops"      -> <<task.max * task.flops, task.flops>>
         [] criterion = "MemoryFlops"     -> <<task.memory * task.flops, task.flops>>

\* CoresMemoryFlops compares a task with itself in part: it is no order, and a
\* sort by it may return any.
TaskOrders(g, criterion, rank) ==
    IF criterion = "CoresMemoryFlops" THEN SetToSeqs(g.ready)
    ELSE {Ordered(g.ready, [t \in g.ready |-> TaskKey(g, criterion, rank, t)])}

\* dot_product, times 2 * DotScale.
SquareOr1(n) == IF n = 0 THEN 1 ELSE n * n

DotScale == Product([x \in Resource |-> SquareOr1(Cores[x]) * SquareOr1(Memory[x])], Resource)

Dot(g, b, t, x) ==
    b.cores[x] * g.tasks[t].max * (DotScale \div SquareOr1(Cores[x]))
      + b.memory[x] * g.tasks[t].memory * (DotScale \div SquareOr1(Memory[x]))

\* The speed of a resource relative to the fastest, times 2 * DotScale * NormScale.
NormScale == Product(FlopTime, Resource)
NormSpeed(x) == 2 * DotScale * Min(Range(FlopTime)) * (NormScale \div FlopTime[x])

DataAt(g, memo, t, x) ==
    SizeOf(g, SelectSeq(g.tasks[t].inputs, LAMBDA i : i \in DOMAIN memo /\ memo[i] = x))

ResourceKey(g, b, criterion, t, x) ==
    LET slowness == FlopTime[x]
    IN CASE criterion = "Speed"              -> <<-slowness, 0>>
         [] criterion = "TaskData"           -> <<DataAt(g, b.memo, t, x), -slowness>>
         [] criterion = "MaxAvailableCores"  -> <<b.cores[x], -slowness>>
         [] criterion = "MaxAvailableMemory" -> <<b.memory[x], -slowness>>
         [] criterion = "MinAvailableCores"  -> <<-b.cores[x], -slowness>>
         [] criterion = "MinAvailableMemory" -> <<-b.memory[x], -slowness>>
         [] criterion = "DotProduct"         -> <<Dot(g, b, t, x), -slowness>>
         [] criterion = "DotProductSpeed"    -> <<Dot(g, b, t, x) * NormScale + NormSpeed(x), 0>>

\* get_max_cores_for_efficiency, in percent
EfficientCores(available, efficiency) ==
    Largest({1} \cup {n \in 1..available : 100 * Speedup(n) >= efficiency * n})

ListCores(task, available, criterion) ==
    LET wanted == CASE criterion = "MaxCores"     -> available
                    [] criterion = "Efficiency90" -> EfficientCores(available, 90)
                    [] criterion = "Efficiency50" -> EfficientCores(available, 50)
    IN IF wanted < task.min THEN task.min ELSE MinOf(wanted, task.max)

\* The memory of the scheduler: where the outputs of tasks are made.
ListAssign(g, b, criterion, t, x) ==
    [Assign(g, b, t, x, ListCores(g.tasks[t], b.cores[x], criterion)) EXCEPT
       !.memo = [i \in ToSet(g.tasks[t].outputs) |-> x] @@ @]

ListStep(g, b, p, t) ==
    LET where == Suitable(g, b, t)
        key == [x \in where |-> ResourceKey(g, b, p.resource, t, x)]
    IN IF where = {} THEN b ELSE ListAssign(g, b, p.cores, t, BestOf(InOrder(where), key))

ScheduleByTask(r, p, memo, rank) ==
    {Fold(LAMBDA b, t : ListStep(r.dag, b, p, t), Books(r, memo), order) :
       order \in TaskOrders(r.dag, p.task, rank)}

\* The weight of the rank, in quarters.
RankWeight(criterion) ==
    CASE criterion = "RankPack0"   -> 0
      [] criterion = "RankPack025" -> 1
      [] criterion = "RankPack05"  -> 2
      [] criterion = "RankPack075" -> 3
      [] criterion = "RankPack1"   -> 4

PackKey(g, b, criterion, rank, t, x) ==
    LET weight == RankWeight(criterion)
    IN <<CASE criterion = "RankPackSel"  -> Dot(g, b, t, x)
           [] criterion = "RankPackMult" -> rank[t] * Dot(g, b, t, x)
           [] OTHER -> rank[t] * weight * 2 * DotScale
                         + Dot(g, b, t, x) * (4 - weight) * Largest(Range(rank)),
         g.tasks[t].flops>>

(* A resource takes the best task that fits, whether or not it may run     *)
(* there; RankPackSel takes the best of the ten first by rank.             *)
PackStep(g, b, p, rank, x) ==
    LET left == g.ready \ {a.task : a \in ToSet(b.actions)}
        fit == {t \in left : g.tasks[t].min <= b.cores[x] /\ g.tasks[t].memory <= b.memory[x]}
        byRank == Ordered(fit, [t \in fit |-> <<rank[t], 0>>])
        offered == IF p.task = "RankPackSel" THEN SubSeq(byRank, 1, MinOf(10, Len(byRank)))
                   ELSE InOrder(fit)
        key == [t \in fit |-> PackKey(g, b, p.task, rank, t, x)]
    IN IF fit = {} THEN b ELSE ListAssign(g, b, p.cores, BestOf(offered, key), x)

\* The fastest resource first; each takes tasks until none fits.
ScheduleByResource(r, p, memo, rank) ==
    LET free == {x \in Resource : r.cores[x] > 0}
        order == Ordered(free, [x \in free |-> <<-FlopTime[x], r.cores[x]>>])
        fill(b, x) == Fold(LAMBDA c, k : PackStep(r.dag, c, p, rank, x), b, InOrder(r.dag.ready))
    IN {Fold(fill, Books(r, memo), order)}

RankPacks == {"RankPack0", "RankPack025", "RankPack05", "RankPack075", "RankPack1",
              "RankPackSel", "RankPackMult"}

DynamicList(r, p, memo) ==
    Bind(Ranks(r.dag, AvgFlopTime, AvgNetTime("Direct")), LAMBDA rank :
      IF p.task \in RankPacks THEN ScheduleByResource(r, p, memo, rank)
      ELSE ScheduleByTask(r, p, memo, rank))

-----------------------------------------------------------------------------

\* task_successors: one for each item and consumer
SuccessorSeq(g, t) ==
    FlattenSeq([o \in DOMAIN g.tasks[t].outputs |-> g.items[g.tasks[t].outputs[o]].consumers])

(* khan_topological_sort: tasks are taken from a queue, and join it when   *)
(* the last of their predecessors has been taken.                          *)
KhanStep(g, k) ==
    LET t      == k.queue[Len(k.sorted) + 1]
        sorted == Append(k.sorted, t)
        next   == SelectSeq(SuccessorSeq(g, t),
                            LAMBDA u : /\ u \notin ToSet(k.queue)
                                       /\ Producers(g, u) \subseteq ToSet(sorted))
    IN [sorted |-> sorted,
        queue |-> k.queue \o FoldRight(LAMBDA u, s : IF u \in ToSet(s) THEN s ELSE <<u>> \o s,
                                       next, <<>>)]

KhanTopologicalSort(g) ==
    Fold(LAMBDA k, i : KhanStep(g, k),
         [sorted |-> <<>>, queue |-> InOrder({t \in Tasks(g) : Producers(g, t) = {}})],
         g.tasks).sorted

\* topsort: a task comes before all that its search has found.
TopsortDfs(g) ==
    LET search[order \in Seq(Tasks(g)), t \in Tasks(g)] ==
          IF t \in ToSet(order) THEN order
          ELSE Append(Fold(LAMBDA o, u : search[o, u], order, SuccessorSeq(g, t)), t)
    IN search

Topsort(g) ==
    Reverse(Fold(LAMBDA o, t : TopsortDfs(g)[o, t], <<>>, [t \in Tasks(g) |-> t]))

(* DYTAS distributes the tasks to the queues of the processors round robin *)
(* at the start: a processor that cannot run the next task passes.  The    *)
(* loop ends when each task fits somewhere: see Schedulable.               *)
Distribute(g, order) ==
    LET enqueue(s, t) ==
          LET turn(k) == ((s.next + k - 2) % Len(Cores)) + 1
              x == turn(First({k \in Resource : Fits(g.tasks[t], turn(k))}))
          IN [next |-> (x % Len(Cores)) + 1, queues |-> [s.queues EXCEPT ![x] = Append(@, t)]]
    IN Fold(enqueue, [next |-> 1, queues |-> [x \in Resource |-> <<>>]], order).queues

\* The position j of queue q is offered to processor x.
Offer(g, policy, b, x, q, j) ==
    LET t == b.memo[q][j]
        n == MinOf(g.tasks[t].max, Cores[x])
    IN IF \/ b.stop
          \/ j > Len(b.memo[q])
          \/ g.tasks[t].state # "Ready"
          \/ x \notin Suitable(g, b, t)
       THEN b
       ELSE [Assign(g, b, t, x, n) EXCEPT
               !.memo[q] = RemoveAt(@, j),
               !.stop = policy.multicore = "SkipActiveProcessors"]

\* The queue's positions at the time the loop comes to it, or the first.
Navigate(g, policy, b, x, q) ==
    LET n == IF policy.navigation = "Front" THEN 1 ELSE Len(b.memo[q])
    IN Fold(LAMBDA c, j : Offer(g, policy, c, x, q, j), b, [j \in 1..n |-> j])

\* Its own queue first, then those of the processors after it.
Serve(g, policy, b, x) ==
    LET queues == [i \in Resource |-> ((x + i - 2) % Len(Cores)) + 1]
        active == \/ policy.multicore = "SkipActiveProcessors" /\ b.cores[x] # Cores[x]
                  \/ policy.multicore = "UseAllCores" /\ b.cores[x] = 0
    IN IF active THEN b
       ELSE Fold(LAMBDA c, q : Navigate(g, policy, c, x, q),
                     [b EXCEPT !.stop = FALSE], queues)

Dytas(r, policy, memo) ==
    LET queues == IF memo # <<>> THEN memo
                  ELSE Distribute(r.dag, IF policy.sorting = "Khan"
                                         THEN KhanTopologicalSort(r.dag) ELSE Topsort(r.dag))
        start  == [cores |-> r.cores, memory |-> r.memory, actions |-> <<>>,
                   memo |-> queues, stop |-> FALSE]
    IN {Fold(LAMBDA b, x : Serve(r.dag, policy, b, x), start, [x \in Resource |-> x])}
=============================================================================
