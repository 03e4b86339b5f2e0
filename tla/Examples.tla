------------------------------- MODULE Examples -------------------------------
(***************************************************************************)
(* The example programs: master-workers, and ping-pong below.              *)
(*                                                                         *)
(* A master that gives tasks to workers (examples/master-workers): for a   *)
(* task a worker downloads its input, reads it from its disk, computes,    *)
(* writes the output and uploads it.  The workers handle events one by one *)
(* with tables of what they wait for (worker.rs), or run a coroutine per   *)
(* task (worker.rs of examples/master-workers-async).                      *)
(*                                                                         *)
(* The resources are those of the library: Network, StorageDisk, Multicore *)
(* (its allocation; a computation takes any time).  Worker w is on node w, *)
(* the master on node MasterNode.                                          *)
(***************************************************************************)
EXTENDS Network, StorageDisk

CONSTANTS
    Worker,         \* the nodes of the workers; each has a disk
    MasterNode,
    Capacities,     \* of each worker: cores, memory, speed
    TaskNeeds       \* of each task 1..n: cores (min = max), memory, input, output

ASSUME WorkersAssumption == Disk = Worker /\ DOMAIN Capacities = Worker

VARIABLES
    async,          \* the workers run coroutines
    master,
    jobs,           \* tasks of each worker: [task, state, key], key is what it waits for
    comps,          \* Compute of each worker
    toWorker,       \* TaskRequest on their way to each worker
    toMaster        \* WorkerRegister and TaskCompleted on their way from each worker

workersVars == <<async, master, jobs, comps, toWorker, toMaster, disks, toFs>>

Score(w, memory, cores) == [memory |-> memory, cores |-> cores, speed |-> Capacities[w].speed]

\* score: PriorityQueue gives the greatest; the speeds of the workers differ.
Higher(s, t) ==
    \/ s.memory > t.memory
    \/ s.memory = t.memory /\ s.cores > t.cores
    \/ s.memory = t.memory /\ s.cores = t.cores /\ s.speed > t.speed

NewMaster(requested) ==
    [requested |-> requested,   \* TaskRequest on their way to the master
     workers |-> <<>>,          \* cores and memory available, by worker
     queue |-> <<>>,            \* score by worker
     unassigned |-> {}, assigned |-> {}, completed |-> {},
     cores |-> 0, memory |-> 0, \* available at all workers
     timers |-> 1]              \* ScheduleTasks events

NewCompute(w) ==
    [cores |-> Capacities[w].cores, memory |-> Capacities[w].memory, nextId |-> 0,
     requests |-> <<>>, running |-> {}, answers |-> <<>>]

-----------------------------------------------------------------------------
(* Master *)

OnTaskRequestAtMaster(t) ==
    /\ t \in master.requested
    /\ master' = [master EXCEPT !.requested = @ \ {t}, !.unassigned = @ \cup {t}]
    /\ UNCHANGED <<async, jobs, comps, toWorker, toMaster, disks, toFs>>

OnWorkerRegister(w) ==
    /\ toMaster[w] # <<>> /\ Head(toMaster[w]).type = "WorkerRegister"
    /\ LET c == Capacities[w]
       IN master' = [master EXCEPT
            !.workers = With(@, {w}, [cores |-> c.cores, memory |-> c.memory]),
            !.queue = With(@, {w}, Score(w, c.memory, c.cores)),
            !.cores = @ + c.cores, !.memory = @ + c.memory]
    /\ toMaster' = [toMaster EXCEPT ![w] = Tail(@)]
    /\ UNCHANGED <<async, jobs, comps, toWorker, disks, toFs>>

Without(f, keys) == [k \in DOMAIN f \ keys |-> f[k]]

Fits(t, s) == s.cores >= TaskNeeds[t].cores /\ s.memory >= TaskNeeds[t].memory

\* The workers taken from the queue for a task: in order of their score, up to
\* the first that the task fits, or that has no more memory than it needs.
CheckedWorkers(queue, t) ==
    LET stops == {w \in DOMAIN queue :
                    Fits(t, queue[w]) \/ queue[w].memory <= TaskNeeds[t].memory}
    IN {w \in DOMAIN queue : ~ \E v \in stops : v # w /\ Higher(queue[v], queue[w])}

\* Mutant: a worker that got a task does not come back to the queue.
RequeueUnassigned(queue, checked, chosen, score) ==
    LET free == {w \in checked \ chosen : queue[w].memory > 0 /\ queue[w].cores > 0}
    IN Without(queue, checked \ free)

\* The workers checked go back to the queue, with what they have left, unless
\* they have no core or no memory.
Requeue(queue, checked, chosen, score) ==
    LET now == [w \in DOMAIN queue |-> IF w \in chosen THEN score ELSE queue[w]]
        free == {w \in checked : now[w].memory > 0 /\ now[w].cores > 0}
    IN Without(now, checked \ free)

\* One task of the loop of schedule_tasks.  s: the master and the messages.
ScheduleTask(s, t) ==
    LET m == s.master
        checked == CheckedWorkers(m.queue, t)
        chosen == {w \in checked : Fits(t, m.queue[w])}
        w == CHOOSE v \in chosen : TRUE
        score == Score(w, m.workers[w].memory - TaskNeeds[t].memory,
                          m.workers[w].cores - TaskNeeds[t].cores)
        queued == [m EXCEPT !.queue = Requeue(@, checked, chosen, score)]
    IN IF TaskNeeds[t].cores > m.cores \/ TaskNeeds[t].memory > m.memory THEN s
       ELSE IF chosen = {} THEN [s EXCEPT !.master = queued]
       ELSE [master |-> [queued EXCEPT
               !.workers[w] = [cores |-> score.cores, memory |-> score.memory],
               !.cores = @ - TaskNeeds[t].cores, !.memory = @ - TaskNeeds[t].memory,
               !.unassigned = @ \ {t}, !.assigned = @ \cup {t}],
             toWorker |-> [s.toWorker EXCEPT ![w] = Append(@, t)]]

\* schedule_tasks: it is called again later while there is something to do.
ScheduleTasks(m) ==
    LET repeat(s) == [s EXCEPT !.master.timers = @ + 1]
    IN IF m.unassigned = {} THEN [master |-> m, toWorker |-> toWorker]
       ELSE Bind(Fold(ScheduleTask, [master |-> m, toWorker |-> toWorker],
                      InOrder(m.unassigned)), repeat)

\* The first round comes when the clients and the workers have sent all.
OnScheduleTasks ==
    /\ master.timers > 0
    /\ master.requested = {} /\ DOMAIN master.workers = Worker
    /\ \E s \in {ScheduleTasks([master EXCEPT !.timers = @ - 1])} :
         master' = s.master /\ toWorker' = s.toWorker
    /\ UNCHANGED <<async, jobs, comps, toMaster, disks, toFs, network>>

OnTaskCompletedAtMaster(w) ==
    /\ toMaster[w] # <<>> /\ Head(toMaster[w]).type = "TaskCompleted"
    /\ LET t == Head(toMaster[w]).task
           a == [cores |-> master.workers[w].cores + TaskNeeds[t].cores,
                 memory |-> master.workers[w].memory + TaskNeeds[t].memory]
           m == [master EXCEPT
                   !.assigned = @ \ {t}, !.completed = @ \cup {t}, !.workers[w] = a,
                   !.queue = With(@, {w}, Score(w, a.memory, a.cores)),
                   !.cores = @ + TaskNeeds[t].cores, !.memory = @ + TaskNeeds[t].memory]
       IN \E s \in {IF m.assigned = {} THEN ScheduleTasks(m)
                    ELSE [master |-> m, toWorker |-> toWorker]} :
            master' = s.master /\ toWorker' = s.toWorker
    /\ toMaster' = [toMaster EXCEPT ![w] = Tail(@)]
    /\ UNCHANGED <<async, jobs, comps, disks, toFs>>

-----------------------------------------------------------------------------
(* What a worker asks of its resources for a task. *)

Job(t, state, key) == [task |-> t, state |-> state, key |-> key]

BeginDownload(w, t) ==
    /\ network' = TransferData(network, MasterNode, w, w)
    /\ jobs' = [jobs EXCEPT ![w] = @ \cup {Job(t, "Downloading", network.nextId)}]

BeginRead(w, j) ==
    /\ DiskRead(w, TaskNeeds[j.task].input)
    /\ jobs' = [jobs EXCEPT ![w] = (@ \ {j}) \cup {Job(j.task, "Reading", disks[w].nextId)}]

BeginRun(w, j) ==
    /\ comps' = [comps EXCEPT ![w].nextId = @ + 1,
                              ![w].requests = Append(@, [id |-> comps[w].nextId, task |-> j.task])]
    /\ jobs' = [jobs EXCEPT ![w] = (@ \ {j}) \cup {Job(j.task, "Running", comps[w].nextId)}]

BeginWrite(w, j) ==
    /\ DiskWrite(w, TaskNeeds[j.task].output)
    /\ jobs' = [jobs EXCEPT ![w] = (@ \ {j}) \cup {Job(j.task, "Writing", disks[w].nextId)}]

BeginUpload(w, j) ==
    /\ network' = TransferData(network, w, MasterNode, w)
    /\ jobs' = [jobs EXCEPT ![w] = (@ \ {j}) \cup {Job(j.task, "Uploading", network.nextId)}]

FinishTask(w, j) ==
    /\ MarkFree(w, TaskNeeds[j.task].output)
    /\ jobs' = [jobs EXCEPT ![w] = @ \ {j}]
    /\ toMaster' = [toMaster EXCEPT ![w] = Append(@, [type |-> "TaskCompleted", task |-> j.task])]

-----------------------------------------------------------------------------
(* Worker: the events it gets. *)

\* The tables of worker.rs in which an event looks for its task: downloads and
\* uploads, reads, computations, writes.
LookedUp ==
    [DataTransferCompleted |-> {"Downloading", "Uploading"},
     DataReadCompleted |-> {"Reading"},
     CompStarted |-> {"Running"}, CompFinished |-> {"Running"},
     DataWriteCompleted |-> {"Writing"}]

\* Where the coroutine of a task awaits an event with its key.
Awaited ==
    [DataTransferCompleted |-> {"Downloading", "Uploading"},
     DataReadCompleted |-> {"Reading"},
     CompStarted |-> {"Running"}, CompFinished |-> {"Started"},
     DataWriteCompleted |-> {"Writing"}]

JobsFor(w, type, key) ==
    {j \in jobs[w] : j.key = key /\ j.state \in (IF async THEN Awaited ELSE LookedUp)[type]}

OnTaskRequest(w) ==
    /\ toWorker[w] # <<>>
    /\ BeginDownload(w, Head(toWorker[w]))
    /\ toWorker' = [toWorker EXCEPT ![w] = Tail(@)]
    /\ UNCHANGED <<async, master, comps, toMaster, disks, toFs>>

OnDataTransferCompleted(w, f) ==
    /\ f.notify = w
    /\ network' = [network EXCEPT !.arrived = @ \ {f}]
    /\ \E j \in JobsFor(w, "DataTransferCompleted", f.id) :
         \/ j.state = "Downloading" /\ BeginRead(w, j) /\ UNCHANGED toMaster
         \/ j.state = "Uploading" /\ FinishTask(w, j) /\ UNCHANGED toFs
    /\ UNCHANGED <<async, master, comps, toWorker>>

OnDataReadCompleted(w) ==
    /\ toFs # <<>> /\ Head(toFs).disk = w
    /\ \E j \in JobsFor(w, "DataReadCompleted", Head(toFs).id) :
         Head(toFs).type = "DataReadCompleted" /\ BeginRun(w, j)
    /\ toFs' = Tail(toFs)
    /\ UNCHANGED <<async, master, toWorker, toMaster, disks, network>>

OnDataWriteCompleted(w) ==
    /\ toFs # <<>> /\ Head(toFs).disk = w
    /\ \E j \in JobsFor(w, "DataWriteCompleted", Head(toFs).id) :
         Head(toFs).type = "DataWriteCompleted" /\ BeginUpload(w, j)
    /\ toFs' = Tail(toFs)
    /\ UNCHANGED <<async, master, comps, toWorker, toMaster, disks>>

NextAnswer(w, type) == comps[w].answers # <<>> /\ Head(comps[w].answers).type = type

OnCompStarted(w) ==
    /\ NextAnswer(w, "CompStarted")
    /\ \E j \in JobsFor(w, "CompStarted", Head(comps[w].answers).id) :
         jobs' = IF async THEN [jobs EXCEPT ![w] = (@ \ {j}) \cup {[j EXCEPT !.state = "Started"]}]
                          ELSE jobs
    /\ comps' = [comps EXCEPT ![w].answers = Tail(@)]
    /\ UNCHANGED <<async, master, toWorker, toMaster, disks, toFs, network>>

OnCompFinished(w) ==
    /\ NextAnswer(w, "CompFinished")
    /\ \E j \in JobsFor(w, "CompFinished", Head(comps[w].answers).id) : BeginWrite(w, j)
    /\ comps' = [comps EXCEPT ![w].answers = Tail(@)]
    /\ UNCHANGED <<async, master, toWorker, toMaster, network>>

-----------------------------------------------------------------------------
(* Compute of a worker. *)

OnRunRequest(w) ==
    /\ comps[w].requests # <<>>
    /\ LET q == Head(comps[w].requests)
           c == [comps[w] EXCEPT !.requests = Tail(@)]
           need == TaskNeeds[q.task]
       IN comps' = [comps EXCEPT ![w] =
            IF c.memory < need.memory \/ c.cores < need.cores
            THEN [c EXCEPT !.answers = Append(@, [type |-> "CompFailed", id |-> q.id])]
            ELSE [c EXCEPT !.cores = @ - need.cores, !.memory = @ - need.memory,
                           !.running = @ \cup {q},
                           !.answers = Append(@, [type |-> "CompStarted", id |-> q.id])]]
    /\ UNCHANGED <<async, master, jobs, toWorker, toMaster, disks, toFs>>

OnComputed(w, q) ==
    /\ comps' = [comps EXCEPT
         ![w].cores = @ + TaskNeeds[q.task].cores, ![w].memory = @ + TaskNeeds[q.task].memory,
         ![w].running = @ \ {q},
         ![w].answers = Append(@, [type |-> "CompFinished", id |-> q.id])]
    /\ UNCHANGED <<async, master, jobs, toWorker, toMaster, disks, toFs>>

-----------------------------------------------------------------------------

\* The registrations are on their way: each worker sends one when it starts.
WorkersInit(requested, coroutines) ==
    /\ async = coroutines
    /\ master = NewMaster(requested)
    /\ jobs = [w \in Worker |-> {}]
    /\ comps = [w \in Worker |-> NewCompute(w)]
    /\ toWorker = [w \in Worker |-> <<>>]
    /\ toMaster = [w \in Worker |-> IF requested = {} THEN <<>>
                                    ELSE <<[type |-> "WorkerRegister"]>>]
    /\ DisksInit

MasterStep ==
    /\ \/ \E t \in master.requested : OnTaskRequestAtMaster(t)
       \/ \E w \in Worker : OnWorkerRegister(w) \/ OnTaskCompletedAtMaster(w)
    /\ UNCHANGED network

WorkerStep ==
    \E w \in Worker :
      \/ OnTaskRequest(w)
      \/ \E f \in network.arrived : OnDataTransferCompleted(w, f)
      \/ OnDataReadCompleted(w)
      \/ OnDataWriteCompleted(w)
      \/ OnCompStarted(w)
      \/ OnCompFinished(w)

ComputeStep ==
    /\ \E w \in Worker : OnRunRequest(w) \/ \E q \in comps[w].running : OnComputed(w, q)
    /\ UNCHANGED network

DiskStep ==
    /\ \E d \in Disk, t \in OpType :
         \/ \E id \in disks[d].model[t].scheduled : OnDiskOperationCompleted(d, t, id)
         \/ Progress(d, t)
    /\ UNCHANGED <<async, master, jobs, comps, toWorker, toMaster, network>>

-----------------------------------------------------------------------------
(***************************************************************************)
(* Processes that send pings to their peers and answer with pongs          *)
(* (examples/ping-pong with callbacks, examples/ping-pong-async with       *)
(* coroutines, each with and without a network).  Delays are any, random   *)
(* or the latency of the network: messages arrive in any order.            *)
(***************************************************************************)

\* style: "callbacks", "coroutines".  For each process: left, the pings (with callbacks: the pongs) to come;
\* awaits, the peer whose pong a coroutine waits for, or nobody;
\* answered, a history: the pongs that reached it.
VARIABLE pinging

Nobody == 0

\* The peers of process i when each has one: its successor in a ring.
RingPeers(n) == [i \in 1..n |-> {(i % n) + 1}]

\* The peers drawn at random: some of the others, of the given number.
DrawnPeers(n, count) ==
    {peers \in [1..n -> SUBSET (1..n)] :
       \A i \in 1..n : i \notin peers[i] /\ Cardinality(peers[i]) = count}

IsPinger(i, asymmetric) == ~ asymmetric \/ i % 2 = 1

\* Each process gets its Start, in the order of creation, before other events.
NewPinging(peers, asymmetric, style, overNetwork, iterations) ==
    [style |-> style, overNetwork |-> overNetwork, iterations |-> iterations, peers |-> peers,
     pingers |-> {i \in DOMAIN peers : IsPinger(i, asymmetric)},
     starts |-> [i \in 1..Cardinality(DOMAIN peers) |-> i],
     left |-> [i \in DOMAIN peers |-> iterations],
     awaits |-> [i \in DOMAIN peers |-> Nobody],
     answered |-> [i \in DOMAIN peers |-> 0],
     messages |-> {}]

Message(type, from, to) == [type |-> type, from |-> from, to |-> to]

Send(s, m) == [s EXCEPT !.messages = @ \cup {m}]

\* The states after i has sent a ping to one of its peers.
PingSomeone(s, i) == {Send(s, Message("Ping", i, p)) : p \in s.peers[i]}

\* The rounds of pinger_loop: NetworkProcess makes one more (0..=iterations).
LoopRounds(s) == IF s.overNetwork THEN s.iterations + 1 ELSE s.iterations

\* pinger_loop up to the next await.
PingerLoop(s, i) ==
    IF s.left[i] = 0 THEN {[s EXCEPT !.awaits[i] = Nobody]}
    ELSE {[Send(s, Message("Ping", i, p)) EXCEPT !.left[i] = @ - 1, !.awaits[i] = p] :
            p \in s.peers[i]}

OnStart(s, i) ==
    IF i \notin s.pingers THEN {s}
    ELSE IF s.style = "callbacks" THEN PingSomeone(s, i)
    ELSE PingerLoop([s EXCEPT !.left[i] = LoopRounds(s)], i)

OnPing(s, m) == {Send(s, Message("Pong", m.to, m.from))}

\* The number of rounds counts down; its width is not reached (iterations >= 1).
OnPongCallback(s, m) ==
    LET counted == [s EXCEPT !.left[m.to] = @ - 1]
    IN IF counted.left[m.to] = 0 THEN {counted} ELSE PingSomeone(counted, m.to)

\* recv_event_from::<Pong>(peer).await
OnPongCoroutine(s, m) == IF s.awaits[m.to] = m.from THEN PingerLoop(s, m.to) ELSE {s}

OnPong(s, m) ==
    LET told == [s EXCEPT !.answered[m.to] = @ + 1]
    IN IF s.style = "callbacks" THEN OnPongCallback(told, m) ELSE OnPongCoroutine(told, m)

StartProcess ==
    /\ pinging.starts # <<>>
    /\ pinging' \in OnStart([pinging EXCEPT !.starts = Tail(@)], Head(pinging.starts))

DeliverMessage ==
    /\ pinging.starts = <<>>
    /\ \E m \in pinging.messages :
         LET rest == [pinging EXCEPT !.messages = @ \ {m}]
         IN pinging' \in IF m.type = "Ping" THEN OnPing(rest, m) ELSE OnPong(rest, m)

PingingStep == StartProcess \/ DeliverMessage
=============================================================================
