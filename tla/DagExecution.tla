----------------------------- MODULE DagExecution -----------------------------
(***************************************************************************)
(* The execution of a graph: the runner of DagRunner with a scheduler of   *)
(* DagSchedulers or ListScheduling, the Compute of each resource, and the  *)
(* network.  Computations and transfers take any time.                     *)
(***************************************************************************)
EXTENDS DagSchedulers

CONSTANTS
    Scenarios,      \* pairs of a graph of the user and a policy: a scheduler,
                    \* its strategies, the transfer mode
    UserDecisions   \* what a scheduler of the user may answer: sequences of actions

\* The actions on the graph g, whether or not they can be carried out.
ActionType(g) ==
    [type : {"ScheduleTask"}, task : Tasks(g), resource : Resource, cores : Nat]
    \cup [type : {"ScheduleTaskOnCores"}, task : Tasks(g), resource : Resource, on : Seq(Nat)]
    \cup [type : {"TransferData"}, item : Items(g), from : Node, to : Node]

ASSUME ScenariosAssumption ==
    \A s \in Scenarios :
      LET g == AddInputOutputTasks(s[1])
      IN /\ NewGraph(g)
         /\ s[2].name = "User" => UserDecisions \subseteq Seq(ActionType(g))

VARIABLES
    runner,         \* the DAGRunner
    policy,         \* its scheduler
    memo,           \* what the scheduler remembers
    plan,           \* what a scheduler planned at the start
    comps,          \* Compute of each resource
    answers,        \* CompFinished events sent to the runner
    failures        \* CompFailed events sent to the runner

vars == <<runner, policy, memo, plan, comps, answers, failures>>

NewComp(x) == [cores |-> Cores[x], memory |-> Memory[x], running |-> {}]

Init ==
    /\ \E s \in Scenarios :
         /\ runner = NewRunner(AddInputOutputTasks(s[1]), s[2].mode)
         /\ policy = s[2]
    /\ memo = <<>>
    /\ plan = <<>>
    /\ comps = [x \in Resource |-> NewComp(x)]
    /\ answers = {}
    /\ failures = {}

Static == policy.name \in {"HEFT", "PEFT", "DLS", "Lookahead"}

\* The scheduler's answers to the state of the runner: actions and new memory.
Decisions(r) ==
    CASE policy.name = "Simple"      -> Simple(r)
      [] policy.name = "SimpleData"  -> SimpleData(r)
      [] policy.name = "DynamicList" -> DynamicList(r, policy, memo)
      [] policy.name = "DYTAS"       -> Dytas(r, policy, memo)
      [] policy.name = "User"        -> {[actions |-> s, memo |-> memo] : s \in UserDecisions}

-----------------------------------------------------------------------------

StartStatic ==
    /\ Static
    /\ \E p \in {Plan(runner.dag, runner.mode, policy)} :
         /\ plan' = p
         /\ runner' = CarryOut(BeginRun(runner), ActionsOf(p))
    /\ UNCHANGED memo

StartDynamic ==
    /\ ~ Static
    /\ \E b \in Decisions(BeginRun(runner)) :
         /\ runner' = CarryOut(BeginRun(runner), b.actions)
         /\ memo' = b.memo
    /\ UNCHANGED plan

Start ==
    /\ ~ runner.started
    /\ StartStatic \/ StartDynamic
    /\ UNCHANGED <<policy, comps, answers, failures>>

\* Compute: a request gets its cores and memory, or fails.
OnCompRequest ==
    /\ runner.requests # <<>>
    /\ LET q == Head(runner.requests)
           c == comps[q.resource]
       IN \/ /\ c.memory < q.memory \/ c.cores < q.cores
             /\ failures' = failures \cup {q.task}
             /\ UNCHANGED comps
          \/ /\ c.memory >= q.memory /\ c.cores >= q.cores
             /\ comps' = [comps EXCEPT ![q.resource] =
                  [cores |-> @.cores - q.cores, memory |-> @.memory - q.memory,
                   running |-> @.running \cup {q}]]
             /\ UNCHANGED failures
    /\ runner' = [runner EXCEPT !.requests = Tail(@)]
    /\ UNCHANGED <<policy, memo, plan, answers>>

OnCompFinished(x) ==
    /\ \E q \in comps[x].running :
         /\ comps' = [comps EXCEPT ![x] =
              [cores |-> @.cores + q.cores, memory |-> @.memory + q.memory,
               running |-> @.running \ {q}]]
         /\ answers' = answers \cup {q.task}
    /\ UNCHANGED <<runner, policy, memo, plan, failures>>

\* The runner is told: the scheduler is asked again unless it is static.
OnTaskCompleted(t) ==
    /\ t \in answers
    /\ \E r \in {TaskCompleted(runner, t)} :
         \/ /\ Static
            /\ runner' = CheckCompleted(CarryOut(r, <<>>))
            /\ UNCHANGED memo
         \/ /\ ~ Static
            /\ \E b \in Decisions(r) :
                 /\ runner' = CheckCompleted(CarryOut(r, b.actions))
                 /\ memo' = b.memo
    /\ answers' = answers \ {t}
    /\ UNCHANGED <<policy, plan, comps, failures>>

OnDataTransferCompleted(m) ==
    /\ BagIn(m, runner.moving)
    /\ runner' = TransferCompleted(runner, m)
    /\ UNCHANGED <<policy, memo, plan, comps, answers, failures>>

ComputeStep == OnCompRequest \/ \E x \in Resource : OnCompFinished(x)

RunnerStep ==
    \/ \E t \in answers : OnTaskCompleted(t)
    \/ \E m \in BagToSet(runner.moving) : OnDataTransferCompleted(m)

Next == Start \/ ComputeStep \/ RunnerStep

Spec == Init /\ [][Next]_vars

\* Every event is handled, every computation and every transfer ends.
FairSpec ==
    /\ Spec
    /\ WF_vars(Start) /\ WF_vars(ComputeStep) /\ WF_vars(RunnerStep)

-----------------------------------------------------------------------------
(* What the runner of a graph and its schedulers promise.                  *)
Task(t) == runner.dag.tasks[t]

OnResource(x, states) ==
    {t \in Tasks(runner.dag) : runner.location[t] = x /\ Task(t).state \in states}

SumOver(f(_), S) == MapThenSumSet(f, S)

(* The runner's own count of cores and memory and the one of each Compute  *)
(* differ exactly by what is on its way between them, so that a request of *)
(* the runner never fails; and no core has two tasks (runner.rs, which     *)
(* handles no CompFailed).                                                 *)
BooksAgree ==
    /\ failures = {}
    /\ \A x \in Resource :
         LET running  == OnResource(x, {"Running"})
             asked    == {q \in ToSet(runner.requests) : q.resource = x}
             answered == {t \in answers : runner.location[t] = x}
         IN /\ runner.free[x] = 1..Cores[x] \ UNION {runner.taskCores[t] : t \in running}
            /\ \A t, u \in running : t # u => runner.taskCores[t] \cap runner.taskCores[u] = {}
            /\ runner.cores[x] = Cardinality(runner.free[x])
            /\ runner.memory[x] = Memory[x] - SumOver(LAMBDA t : Task(t).memory, running)
            /\ comps[x].cores = runner.cores[x]
                 + SumOver(LAMBDA q : q.cores, asked)
                 + SumOver(LAMBDA t : Cardinality(runner.taskCores[t]), answered)
            /\ comps[x].memory = runner.memory[x]
                 + SumOver(LAMBDA q : q.memory, asked)
                 + SumOver(LAMBDA t : Task(t).memory, answered)

Moving(i, n) == \E m \in BagToSet(runner.moving) : m.item = i /\ m.to = n

Available(t) == \A u \in Producers(runner.dag, t) : Task(u).state = "Done"

(* An input a task waits for on its resource is on its way there: it is    *)
(* moving, or is wanted from a node where it is expected, or will be sent  *)
(* when the task that makes it is done (runner.rs, the three transfer      *)
(* modes); and the state of each task tells whether its inputs are made.   *)
InputsOnTheirWay ==
    /\ \A t \in Tasks(runner.dag) :
         /\ Task(t).state \in {"Ready", "Runnable", "Running", "Done"} <=> Available(t)
         /\ Task(t).state \in {"Scheduled", "Runnable"} =>
              \A i \in ToSet(Task(t).inputs) :
                LET x == runner.location[t]
                    made == Task(runner.dag.items[i].producer).state = "Done"
                IN \/ i \in runner.held[x]
                   \/ Moving(i, x)
                   \/ /\ runner.mode # "Direct"
                      /\ \E n \in Node : /\ x \in ToSet(runner.wanted[n][i])
                                         /\ made => Moving(i, n)
                   \/ runner.mode = "Direct" /\ ~ made
    /\ \A n \in Node : \A i \in runner.held[n] :
         Task(runner.dag.items[i].producer).state = "Done"

Overlap(a, b) == a.start < b.finish /\ b.start < a.finish

(* A plan can be carried out as it is: no core has two tasks at a time, no *)
(* memory is used beyond what there is, a task starts after the tasks it   *)
(* needs and, unless it fetches the data itself, after their data has come *)
(* (common.rs, treap.rs; heft.rs, peft.rs, dls.rs, lookahead.rs); and it   *)
(* takes no less time than the bound of lower_bound.rs.                    *)
PlanFeasible ==
    /\ \A a, b \in Booked(plan) :
         /\ a # b /\ a.resource = b.resource /\ Overlap(a, b) => a.cores \cap b.cores = {}
         /\ a.task \in Producers(runner.dag, b.task) => a.finish <= b.start
         /\ \A i \in ToSet(Task(b.task).inputs) :
              policy.strategy = "Eager" /\ runner.dag.items[i].producer = a.task
                /\ (a.resource # b.resource \/ runner.mode = "ViaMasterNode")
                => a.finish + runner.dag.items[i].size
                     * NetTime(runner.mode, a.resource, b.resource) <= b.start
    /\ \A a \in Booked(plan) :
         SumOver(LAMBDA b : b.memory,
                 {b \in Booked(plan) : /\ b.resource = a.resource
                                       /\ b.start <= a.start /\ a.start < b.finish})
           <= Memory[a.resource]
    /\ plan # <<>> =>
         LET makespan == Max({b.finish : b \in Booked(plan)})
         IN /\ CriticalPathTime(runner.dag) <= Parts * makespan
            /\ WorkDoneBy(runner.dag, makespan)

(* A packing criterion chooses tasks that may not run on the resource that *)
(* asks for one (dynamic_list.rs, schedule_by_resource).                   *)
Misplaced ==
    /\ policy.name = "DynamicList" /\ policy.task \in RankPacks
    /\ \E b \in DynamicList(runner, policy, memo) :
         \E a \in ToSet(b.actions) : a.resource \notin Task(a.task).allowed

(* Whatever the scheduler of the crate, the transfer mode and the time     *)
(* things take, all tasks get done, all transfers end, and the runner      *)
(* notices it once (runner.rs, process_resource_queue and                  *)
(* check_and_log_completed) - except under a packing criterion that keeps  *)
(* asking for a task on a resource where it is not allowed.                *)
DagCompletes ==
    policy.name # "User" =>
      <>[]((RunCompleted(runner) /\ runner.finished = 1) \/ Misplaced)
=============================================================================
