--------------------------------- MODULE Dag ---------------------------------
(***************************************************************************)
(* The graph of tasks and data items of dslab-dag (dag.rs, task.rs,        *)
(* data_item.rs) and the tasks DagSimulation::init adds to it.  A graph is *)
(* a record; its operations are operators from graphs to graphs.  Tasks    *)
(* and data items are their positions in the graph's sequences.            *)
(***************************************************************************)
EXTENDS Integers, Sequences, FiniteSets, SequencesExt, Folding

CONSTANTS
    Cores,          \* cores of each resource, in the order of configuration
    Memory          \* memory of each resource

ASSUME ResourceAssumption ==
    /\ Cores \in Seq(Nat \ {0})
    /\ Memory \in Seq(Nat) /\ Len(Memory) = Len(Cores)

\* The last resource is the one init adds: "master", one core, no memory.
Resource == 1..Len(Cores)
Master == Len(Cores)

\* A new task: flops, memory, the numbers of cores it may have.
NewTask(flops, memory, minCores, maxCores) ==
    [flops |-> flops, memory |-> memory, min |-> minCores, max |-> maxCores,
     state |-> "Ready", inputs |-> <<>>, outputs |-> <<>>, readyInputs |-> 0,
     allowed |-> Resource]

NoProducer == 0

NewItem(size, state, producer) ==
    [size |-> size, state |-> state, producer |-> producer, consumers |-> <<>>]

EmptyDag ==
    [tasks |-> <<>>, items |-> <<>>, ready |-> {}, completed |-> 0,
     inputs |-> {}, outputs |-> {}]

Tasks(g) == DOMAIN g.tasks
Items(g) == DOMAIN g.items

-----------------------------------------------------------------------------

AddTask(g, task) ==
    [g EXCEPT !.tasks = Append(@, task), !.ready = @ \cup {Len(g.tasks) + 1}]

AddDataItem(g, size) ==
    LET i == Len(g.items) + 1
    IN [g EXCEPT !.items = Append(@, NewItem(size, "Ready", NoProducer)),
                 !.inputs = @ \cup {i}, !.outputs = @ \cup {i}]

AddTaskOutput(g, producer, size) ==
    LET i == Len(g.items) + 1
    IN [g EXCEPT !.items = Append(@, NewItem(size, "Pending", producer)),
                 !.tasks[producer].outputs = Append(@, i),
                 !.outputs = @ \cup {i}]

AddDataDependency(g, i, consumer) ==
    LET h == [g EXCEPT !.items[i].consumers = Append(@, consumer),
                       !.tasks[consumer].inputs = Append(@, i),
                       !.outputs = @ \ {i}]
    IN CASE g.items[i].state = "Ready" ->
              [h EXCEPT !.tasks[consumer].readyInputs = @ + 1]
         [] g.items[i].state = "Pending" /\ g.tasks[consumer].state = "Ready" ->
              [h EXCEPT !.tasks[consumer].state = "Pending", !.ready = @ \ {consumer}]
         [] OTHER -> h

\* An input item becomes the output of a task.
SetAsTaskOutput(g, i, producer) ==
    LET consumers == ToSet(g.items[i].consumers)
        times(t)  == Cardinality({k \in DOMAIN g.items[i].consumers : g.items[i].consumers[k] = t})
    IN [g EXCEPT !.inputs = @ \ {i},
                 !.items[i].state = "Pending", !.items[i].producer = producer,
                 !.tasks = [t \in DOMAIN @ |->
                    IF t = producer THEN [@[t] EXCEPT !.outputs = Append(@, i)]
                    ELSE IF t \in consumers
                         THEN [@[t] EXCEPT !.state = "Pending", !.readyInputs = @ - times(t)]
                         ELSE @[t]],
                 !.ready = @ \ consumers]

-----------------------------------------------------------------------------

\* A consumer that has all inputs at once in another state is a panic!.
InputReady(g, t) ==
    LET task == g.tasks[t]
        all  == task.readyInputs + 1 = Len(task.inputs)
    IN [g EXCEPT
          !.tasks[t].readyInputs = @ + 1,
          !.tasks[t].state = IF ~ all THEN @
                             ELSE CASE @ = "Pending"   -> "Ready"
                                    [] @ = "Scheduled" -> "Runnable"
                                    [] OTHER           -> "Panic",
          !.ready = IF all /\ task.state = "Pending" THEN @ \cup {t} ELSE @]

\* update_data_item_state(i, Ready)
ItemReady(g, i) ==
    Fold(InputReady, [g EXCEPT !.items[i].state = "Ready"], g.items[i].consumers)

UpdateTaskState(g, t, state) ==
    LET h == [g EXCEPT !.tasks[t].state = state,
                       !.ready = IF state = "Ready" THEN @ ELSE @ \ {t}]
    IN IF state = "Done"
       THEN Fold(ItemReady, [h EXCEPT !.completed = @ + 1], g.tasks[t].outputs)
       ELSE h

Completed(g) == g.completed = Len(g.tasks)

-----------------------------------------------------------------------------

\* User tasks run anywhere but on the master.
RestrictUserTasks(g) ==
    [g EXCEPT !.tasks = [t \in DOMAIN @ |-> [@[t] EXCEPT !.allowed = Resource \ {Master}]]]

MasterTask == [NewTask(0, 0, 1, 1) EXCEPT !.allowed = {Master}]

\* A task that brings the inputs of the graph.
AddInputTask(g) ==
    IF g.inputs = {} THEN g
    ELSE LET t == Len(g.tasks) + 1
             h == Fold(LAMBDA x, i : SetAsTaskOutput(x, i, t),
                           AddTask(g, MasterTask), InOrder(g.inputs))
         IN [h EXCEPT !.inputs = g.inputs]

\* A task that takes its outputs.
AddOutputTask(g) ==
    IF g.outputs = {} THEN g
    ELSE LET t == Len(g.tasks) + 1
             h == Fold(LAMBDA x, i : AddDataDependency(x, i, t),
                           AddTask(g, MasterTask), InOrder(g.outputs))
         IN [h EXCEPT !.outputs = g.outputs]

AddInputOutputTasks(g) == AddOutputTask(AddInputTask(RestrictUserTasks(g)))

-----------------------------------------------------------------------------

Successors(g, t) == UNION {ToSet(g.items[i].consumers) : i \in ToSet(g.tasks[t].outputs)}

Producers(g, t) ==
    {g.items[i].producer : i \in ToSet(g.tasks[t].inputs)} \ {NoProducer}

\* A task can run on some resource, so that a scheduler has a choice for it.
Fits(task, r) == r \in task.allowed /\ task.min <= Cores[r] /\ task.memory <= Memory[r]

Schedulable(g) == \A t \in Tasks(g) : \E r \in Resource : Fits(g.tasks[t], r)

-----------------------------------------------------------------------------

GraphFields == {"tasks", "items", "ready", "completed", "inputs", "outputs"}
TaskFields  == {"flops", "memory", "min", "max", "state", "inputs", "outputs", "readyInputs",
                "allowed"}
ItemFields  == {"size", "state", "producer", "consumers"}

\* Tasks and items name each other.
TaskTyped(g, t) ==
    /\ DOMAIN g.tasks[t] = TaskFields /\ g.tasks[t].memory \in Nat
    /\ g.tasks[t].inputs \in Seq(Items(g)) /\ g.tasks[t].outputs \in Seq(Items(g))
    /\ \A i \in Range(g.tasks[t].outputs) : g.items[i].producer = t

ItemTyped(g, i) ==
    /\ DOMAIN g.items[i] = ItemFields /\ g.items[i].consumers \in Seq(Tasks(g))
    /\ \A t \in Range(g.items[i].consumers) : i \in Range(g.tasks[t].inputs)

\* Where a task stands among the consumers of the items.
Slots(g, t) ==
    UNION {{<<i, k>> : k \in {k \in DOMAIN g.items[i].consumers : g.items[i].consumers[k] = t}} :
             i \in Items(g)}

\* Every item has a producer; tasks and items name each other as often.
Wired(g) ==
    /\ \A i \in Items(g) : /\ g.items[i].producer \in Tasks(g)
                           /\ i \in Range(g.tasks[g.items[i].producer].outputs)
    /\ \A t \in Tasks(g) :
         /\ IsInjective(g.tasks[t].outputs)
         /\ \A i \in Range(g.tasks[t].inputs) : t \in Range(g.items[i].consumers)
         /\ IsFiniteSet(Slots(g, t)) /\ Cardinality(Slots(g, t)) = Len(g.tasks[t].inputs)

\* A graph before its run: nothing is made, and a task is ready that needs nothing.
NewGraph(g) ==
    /\ DOMAIN g = GraphFields /\ g.tasks \in Seq(ToSet(g.tasks)) /\ Wired(g)
    /\ \A t \in Tasks(g) :
         /\ TaskTyped(g, t) /\ g.tasks[t].readyInputs = 0
         /\ g.tasks[t].state = IF g.tasks[t].inputs = <<>> THEN "Ready" ELSE "Pending"
    /\ \A i \in Items(g) : ItemTyped(g, i) /\ g.items[i].state = "Pending"
=============================================================================
