--------------------------------- MODULE MCDag ---------------------------------
(* An instance of DagExecution for TLC. *)
EXTENDS DagExecution

\* A fast resource with two cores, a slow one with one, and the master.
CoresMC    == <<2, 1, 1>>
MemoryMC   == <<2, 1, 0>>
FlopTimeMC == <<1, 2, 1>>

\* The output of a task and who takes it.
Edge(g, t, size, consumers) ==
    FoldLeft(LAMBDA h, u : AddDataDependency(h, Len(h.items), u),
             AddTaskOutput(g, t, size), consumers)

Input(g, size, consumers) ==
    FoldLeft(LAMBDA h, u : AddDataDependency(h, Len(h.items), u), AddDataItem(g, size), consumers)

TasksOf(s) == FoldLeft(AddTask, EmptyDag, s)

\* One task before two, one input, one item that both of the latter take.
Fork == Edge(Edge(Edge(Input(
          TasksOf(<<NewTask(2, 1, 1, 2), NewTask(2, 1, 1, 1), NewTask(4, 2, 1, 2)>>),
          1, <<1, 3>>), 1, 2, <<2, 3>>), 2, 1, <<>>), 3, 1, <<>>)

\* While the second waits for the data of the first, the third may run, but
\* not for long: both need all cores.
Gap == Edge(Edge(Edge(
          TasksOf(<<NewTask(2, 2, 2, 2), NewTask(2, 1, 2, 2), NewTask(4, 1, 1, 2)>>),
          1, 1, <<2>>), 2, 1, <<>>), 3, 1, <<>>)

\* A chain with two items between its first tasks, one of them for the third.
Chain == Edge(Edge(Edge(
          TasksOf(<<NewTask(2, 1, 1, 1), NewTask(2, 1, 1, 2), NewTask(2, 0, 1, 1)>>),
          1, 1, <<2>>), 1, 2, <<2, 3>>), 2, 1, <<3>>)

\* Two tasks that need all the memory become ready at once, on different
\* cores if the first task is done before the second.
Rivals == Edge(TasksOf(<<NewTask(5, 0, 1, 1), NewTask(2, 0, 1, 1), NewTask(3, 2, 1, 1),
                         NewTask(3, 2, 1, 1)>>), 2, 0, <<3, 4>>)

\* Two tasks of which the second may follow the first, and no input.
Two == Edge(Edge(TasksOf(<<NewTask(1, 1, 1, 2), NewTask(1, 2, 1, 2)>>), 1, 1, <<2>>), 2, 1, <<>>)

OnCores(t, on) == [type |-> "ScheduleTaskOnCores", task |-> t, resource |-> 1, on |-> on]

\* Right and wrong actions, up to two at a time.
UserActions ==
    {ScheduleTask(1, 1, 2), ScheduleTask(1, 2, 1), ScheduleTask(2, 1, 1),
     ScheduleTask(2, 2, 1), ScheduleTask(3, 3, 1), Move(1, 1, 2)}
    \cup {OnCores(1, <<2>>), OnCores(2, <<2, 1>>), OnCores(2, <<1, 1>>)}

UserDecisionsMC ==
    {<<>>} \cup {<<a>> : a \in UserActions}
    \cup {<<a, b>> : a \in UserActions, b \in UserActions}

GraphsMC == {Fork, Gap, Chain, Rivals}

NetModes == {"ViaMasterNode", "Direct"}

\* A list policy: what orders the tasks, what chooses the resource, how many
\* cores a task gets.
List(task, resource, cores, mode) ==
    [name |-> "DynamicList", task |-> task, resource |-> resource, cores |-> cores,
     mode |-> mode]

TaskCriteria == {"CompSize", "DataSize", "ChildrenCount", "BottomLevel", "Cores", "Memory",
                 "CoresMemorySum", "CoresMemoryMult", "CoresFlops", "MemoryFlops",
                 "CoresMemoryFlops"}

ResourceCriteria == {"Speed", "TaskData", "MaxAvailableCores", "MaxAvailableMemory",
                     "MinAvailableCores", "MinAvailableMemory", "DotProduct",
                     "DotProductSpeed"}

\* Each criterion with the usual choice for the others.
ListPolicies ==
    {List(c, "Speed", "MaxCores", "Direct") : c \in TaskCriteria}
    \cup {List("BottomLevel", c, "MaxCores", "ViaMasterNode") : c \in ResourceCriteria}
    \cup {List(c, "Speed", "Efficiency50", "Direct") : c \in RankPacks}
    \cup {List("CompSize", "TaskData", "Efficiency90", "ViaMasterNode")}

PoliciesMC ==
    [name : {"Simple"}, mode : NetModes]
    \cup ListPolicies
    \cup [name : {"SimpleData"}, mode : {"Manual"}]
    \cup [name : {"DYTAS"}, mode : NetModes, navigation : {"All", "Front"},
          sorting : {"Khan", "DFS"}, multicore : {"SkipActiveProcessors", "UseAllCores"}]
    \cup [name : {"HEFT", "DLS"}, mode : NetModes, strategy : {"Eager", "Lazy"}]
    \cup [name : {"PEFT"}, mode : NetModes, strategy : {"Eager", "Lazy"}, original : BOOLEAN]
    \cup [name : {"Lookahead"}, mode : NetModes, strategy : {"Eager", "Lazy"}, depth : {"Global"}]
    \cup [name : {"Lookahead"}, mode : NetModes, strategy : {"Eager"}, depth : {"Local"}]

ScenariosMC ==
    (GraphsMC \X PoliciesMC) \cup ({Two} \X [name : {"User"}, mode : NetModes])

ASSUME GraphsMCAssumption == \A g \in GraphsMC : Schedulable(AddInputOutputTasks(g))
=============================================================================
