------------------------------- MODULE DagRunner -------------------------------
(***************************************************************************)
(* DAGRunner (dslab-dag, runner.rs): it carries out the actions a          *)
(* scheduler returns.  Its state is a record r, its methods are operators  *)
(* from states to states.  DagExecution makes steps of them.               *)
(*                                                                         *)
(* An entry of a core's queue whose action has started is dropped at once, *)
(* where the code drops it when it meets it at the head.                   *)
(***************************************************************************)
EXTENDS Dag, Bags

\* The runner is a node of the network besides the resources.
Runner == 0
Nowhere == -1
Node == {Runner} \cup Resource

Mode == {"ViaMasterNode", "Direct", "Manual"}

EmptyQueue == [x \in Resource |-> [c \in 1..Cores[x] |-> <<>>]]

NewRunner(g, mode) ==
    [dag      |-> g,
     mode     |-> mode,
     started  |-> FALSE,
     actions  |-> <<>>,                              \* not yet processed
     nextAction |-> 0,                               \* action_id
     queue    |-> EmptyQueue,                        \* resource_queue
     free     |-> [x \in Resource |-> 1..Cores[x]],  \* available_cores
     cores    |-> Cores,                             \* cores_available
     memory   |-> Memory,                            \* memory_available
     location |-> [t \in Tasks(g) |-> Nowhere],      \* task_location
     taskCores |-> [t \in Tasks(g) |-> {}],          \* task_cores
     held     |-> [n \in Node |-> {}],               \* resource_data_items
     wanted   |-> [n \in Node |-> [i \in Items(g) |-> <<>>]], \* data_transfer_tasks
     at       |-> [i \in Items(g) |-> Nowhere],      \* data_location
     moving   |-> EmptyBag,                          \* data_transfers
     computing |-> {},                               \* computations
     requests |-> <<>>,                              \* CompRequest events sent
     finished |-> 0]                                 \* check_and_log_completed

\* is_completed
RunCompleted(r) == Completed(r.dag) /\ r.moving = EmptyBag

CheckCompleted(r) == IF RunCompleted(r) THEN [r EXCEPT !.finished = @ + 1] ELSE r

-----------------------------------------------------------------------------

TransferData(r, i, from, to) ==
    [r EXCEPT !.moving = @ (+) SetToBag({[item |-> i, from |-> from, to |-> to]})]

\* Now, or when the item arrives at from.
AddDataTransferTask(r, i, from, to) ==
    IF i \in r.held[from] THEN TransferData(r, i, from, to)
    ELSE [r EXCEPT !.wanted[from][i] = Append(@, to)]

\* The item is at a node, and goes on to those it is wanted at.
SendWanted(r, i, n) ==
    Fold(LAMBDA s, to : TransferData(s, i, n, to),
             [r EXCEPT !.wanted[n][i] = <<>>], r.wanted[n][i])

\* Mutant: the item is not sent to those who asked for it before.
ArriveUnasked(r, i, n) == [r EXCEPT !.held[n] = @ \cup {i}]

Arrive(r, i, n) == SendWanted([r EXCEPT !.held[n] = @ \cup {i}], i, n)

-----------------------------------------------------------------------------

\* A queue but the entries of an action.
Kept(queue, b, id) == IF b.id = id THEN queue ELSE Append(queue, b)

Without(queue, id) == Fold(LAMBDA kept, b : Kept(kept, b, id), <<>>, queue)

\* CompRequest with as many cores as the task holds.
StartTask(r, x, a, cores) ==
    LET task == r.dag.tasks[a.task]
    IN [r EXCEPT
          !.queue[x]  = [c \in DOMAIN @ |-> Without(@[c], a.id)],
          !.free[x]   = @ \ cores,
          !.cores[x]  = @ - a.cores,
          !.memory[x] = @ - task.memory,
          !.taskCores[a.task] = cores,
          !.dag       = UpdateTaskState(@, a.task, "Running"),
          !.computing = @ \cup {a.task},
          !.requests  = Append(@, [task |-> a.task, resource |-> x,
                                   cores |-> a.cores, memory |-> task.memory])]

\* Mutant: what a pass has started before is not taken into account.
StartIgnoringMemory(r, x, a, ready) ==
    IF Cardinality(ready) < a.cores THEN r
    ELSE StartTask(r, x, a, ToSet(SubSeq(InOrder(ready), 1, a.cores)))

\* The action at the head of enough free cores; tasks started before it in
\* this pass have taken memory.
StartIfReady(r, x, a, ready) ==
    IF Cardinality(ready) < a.cores \/ r.dag.tasks[a.task].memory > r.memory[x] THEN r
    ELSE StartTask(r, x, a, ToSet(SubSeq(InOrder(ready), 1, a.cores)))

(* One pass of process_resource_queue: the tasks at the heads of the free  *)
(* cores whose memory and data are there, in the order of their actions.   *)
Pass(r, x) ==
    LET heads == {c \in r.free[x] :
                    /\ r.queue[x][c] # <<>>
                    /\ LET task == r.dag.tasks[Head(r.queue[x][c]).task]
                       IN /\ task.memory <= r.memory[x]
                          /\ ToSet(task.inputs) \subseteq r.held[x]}
        start(H) == Fold(LAMBDA s, a :
                           StartIfReady(s, x, a, {c \in H : Head(r.queue[x][c]) = a}),
                         r, SortedBy({Head(r.queue[x][c]) : c \in H},
                                     LAMBDA a, b : a.id < b.id))
    IN Bind(heads, start)

\* Passes until one starts nothing; each before it starts a task.
ProcessResourceQueue(r, x) ==
    LET pass(s, k) == Pass(s, x) IN Fold(pass, r, r.dag.tasks)

-----------------------------------------------------------------------------

WrongAction(r, t, x, need) ==
    LET task == r.dag.tasks[t]
    IN \/ x \notin task.allowed
       \/ need > Cores[x]
       \/ task.memory > Memory[x]
       \/ need < task.min \/ need > task.max
       \/ task.state \notin {"Ready", "Pending"}

\* The inputs that are somewhere already, or all of them from the master node.
FetchInput(r, i, x) ==
    CASE r.mode = "ViaMasterNode" -> AddDataTransferTask(r, i, Runner, x)
      [] r.mode = "Direct" /\ r.at[i] \notin {Nowhere, x} ->
           AddDataTransferTask(r, i, r.at[i], x)
      [] OTHER -> r

ProcessScheduleAction(r, t, x, need, allowed) ==
    IF WrongAction(r, t, x, need) THEN r
    ELSE LET state   == IF r.dag.tasks[t].state = "Ready" THEN "Runnable" ELSE "Scheduled"
             located == [r EXCEPT !.dag = UpdateTaskState(@, t, state),
                                  !.location[t] = x]
             fetched == Fold(LAMBDA s, i : FetchInput(s, i, x),
                                 located, r.dag.tasks[t].inputs)
             entry   == [task |-> t, cores |-> need, id |-> r.nextAction]
             queued  == [fetched EXCEPT !.queue[x] = [c \in DOMAIN @ |->
                            IF c \in allowed THEN Append(@[c], entry) ELSE @[c]]]
         IN ProcessResourceQueue(queued, x)

\* ScheduleTask, ScheduleTaskOnCores, TransferData
ProcessAction(r, a) ==
    LET s == CASE a.type = "ScheduleTask" ->
                    ProcessScheduleAction(r, a.task, a.resource, a.cores, 1..Cores[a.resource])
               [] a.type = "ScheduleTaskOnCores" ->
                    ProcessScheduleAction(r, a.task, a.resource, Len(a.on), ToSet(a.on))
               [] a.type = "TransferData" ->
                    AddDataTransferTask(r, a.item, a.from, a.to)
    IN [s EXCEPT !.nextAction = @ + 1]

RepeatsCore(a) == a.type = "ScheduleTaskOnCores" /\ ~ IsInjective(a.on)

(* All queues, then the actions.  One that names a core twice is dropped,  *)
(* and those after it are left for the next time.                          *)
ProcessActions(r) ==
    LET ready == Fold(ProcessResourceQueue, r, [x \in Resource |-> x])
        wrong == {k \in DOMAIN r.actions : RepeatsCore(r.actions[k])}
        n     == IF wrong = {} THEN Len(r.actions)
                 ELSE CHOOSE k \in wrong : \A j \in wrong : k <= j
        now   == IF wrong = {} THEN r.actions ELSE SubSeq(r.actions, 1, n - 1)
    IN Fold(ProcessAction, [ready EXCEPT !.actions = SubSeq(@, n + 1, Len(@))], now)

-----------------------------------------------------------------------------

\* start, up to the call of the scheduler: the inputs are at the runner.
BeginRun(r) ==
    LET given == {i \in Items(r.dag) : r.dag.items[i].state = "Ready"}
    IN [r EXCEPT !.started = TRUE,
                 !.held[Runner] = @ \cup given,
                 !.at = [i \in DOMAIN @ |-> IF i \in given THEN Runner ELSE @[i]]]

\* In Direct mode the outputs go to the consumers that have a location.
SendToConsumers(r, i, x) ==
    Fold(LAMBDA s, t : IF s.location[t] \in {Nowhere, x} THEN s
                           ELSE AddDataTransferTask(s, i, x, s.location[t]),
             r, r.dag.items[i].consumers)

\* What no task takes, and in ViaMasterNode all outputs, go to the runner.
Upload(r, i, x) ==
    IF r.mode = "Direct" /\ r.dag.items[i].consumers # <<>> THEN r
    ELSE TransferData(r, i, x, Runner)

FreeTask(r, t) ==
    LET x == r.location[t]
    IN [r EXCEPT !.computing = @ \ {t},
                 !.cores[x]  = @ + Cardinality(r.taskCores[t]),
                 !.free[x]   = @ \cup r.taskCores[t],
                 !.memory[x] = @ + r.dag.tasks[t].memory,
                 !.dag       = UpdateTaskState(@, t, "Done")]

\* on_task_completed, up to the call of the scheduler
TaskCompleted(r, t) ==
    LET x        == r.location[t]
        outputs  == r.dag.tasks[t].outputs
        freed    == FreeTask(r, t)
        arrived  == IF r.mode = "ViaMasterNode" THEN freed
                    ELSE Fold(LAMBDA s, i : Arrive(s, i, x), freed, outputs)
        located  == [arrived EXCEPT !.at = [i \in DOMAIN @ |->
                       IF i \in ToSet(outputs) THEN x ELSE @[i]]]
        direct   == IF r.mode # "Direct" THEN arrived
                    ELSE Fold(LAMBDA s, i : SendToConsumers(s, i, x), located, outputs)
    IN IF r.mode = "Manual" THEN direct
       ELSE Fold(LAMBDA s, i : Upload(s, i, x), direct, outputs)

\* Mutant: what waits for the data on the resource is not started.
ArriveOnly(r, m) ==
    CheckCompleted(Arrive([r EXCEPT !.moving = @ (-) SetToBag({m})], m.item, m.to))

\* on_data_transfer_completed
TransferCompleted(r, m) ==
    LET here == Arrive([r EXCEPT !.moving = @ (-) SetToBag({m})], m.item, m.to)
    IN CheckCompleted(IF m.to = Runner THEN here ELSE ProcessResourceQueue(here, m.to))

\* The actions of the scheduler after a step.
CarryOut(r, actions) == Bind([r EXCEPT !.actions = @ \o actions], ProcessActions)
=============================================================================
