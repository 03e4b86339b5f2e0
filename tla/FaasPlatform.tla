----------------------------- MODULE FaasPlatform -----------------------------
(***************************************************************************)
(* The platform of dslab-faas: the controller (controller.rs) passes the   *)
(* invocations of a trace to hosts and deploys prewarmed containers; the   *)
(* hosts handle the events they have sent to themselves (host.rs).         *)
(***************************************************************************)
EXTENDS FaasPolicies

CONSTANT Scenarios      \* configurations: capacity and cores of each host,
                        \* policies, the applications of the trace in order

ASSUME ScenariosAssumption ==
    \A s \in Scenarios :
      /\ s.trace \in Seq(App)
      /\ \A x \in DOMAIN s.hosts :
           LET capacity == s.hosts[x].capacity IN \A r \in DOMAIN capacity : capacity[r] \in Nat
      /\ \A x \in DOMAIN s.hosts : s.hosts[x].cores \in Nat
      /\ s.cpu \in {"Ignored", "Isolated", "Contended"}
      /\ s.coldstart.name \in {"Fixed", "Histogram"}
      /\ s.coldstart.name = "Fixed" => s.coldstart.prewarm \in Int

VARIABLES
    config,         \* the scenario
    hosts,
    arrived,        \* how much of the trace has arrived
    turn,           \* the index of RoundRobin
    invocations,    \* invocations of each application so far (stats.rs)
    idleDeploys     \* IdleDeployEvents sent to the controller

vars == <<config, hosts, arrived, turn, invocations, idleDeploys>>

Init ==
    /\ config \in Scenarios
    /\ hosts = [x \in DOMAIN config.hosts |->
         NewHost(config.hosts[x].capacity, config.hosts[x].cores,
                 config.invoker, config.cpu)]
    /\ arrived = 0
    /\ turn = 0
    /\ invocations = [a \in App |-> 0]
    /\ idleDeploys = EmptyBag

\* Host x becomes h, with the end event Contended chooses.
SetHost(x, h) == \E g \in Rescheduled(hosts[x], h) : hosts' = [hosts EXCEPT ![x] = g]

\* The requests of a trace are sent, and arrive, in its order.
RequestsLeft == arrived < Len(config.trace)

\* InvocationStartEvent of the next invocation of the trace.
Invoke ==
    /\ RequestsLeft
    /\ LET i == arrived + 1
           app == config.trace[i]
       IN /\ \E x \in SelectHost(hosts, app, config.scheduler, turn) :
               \E h \in {HostInvoke(hosts[x], i, app)} : SetHost(x, h)
          /\ invocations' = [invocations EXCEPT ![app] = @ + 1]
          /\ turn' = IF config.scheduler.name = "RoundRobin"
                     THEN (turn % Len(hosts)) + 1 ELSE turn
    /\ arrived' = arrived + 1
    /\ UNCHANGED <<config, idleDeploys>>

\* IdleDeployEvent: nothing is deployed if the application was invoked since.
IdleDeploy ==
    \E e \in BagToSet(idleDeploys) :
      /\ idleDeploys' = idleDeploys (-) SetToBag({e})
      /\ LET x == IF invocations[e.app] = e.expected
                  THEN DeployerHost(hosts, e.app, config.deployer) ELSE 0
         IN hosts' = IF x = 0 THEN hosts
                     ELSE [hosts EXCEPT ![x] = HostTryDeploy(@, e.app)]
      /\ UNCHANGED <<config, arrived, turn, invocations>>

\* A host takes one of its events out.
Delivered(h, event) ==
    [h EXCEPT !.pending = @ (-) SetToBag({event}),
              !.cpu.end = IF event = InvocationEnd(@) THEN NoInvocation ELSE @]

DeliverContainerStart(x, c) ==
    /\ BagIn(ContainerStart(c), hosts[x].pending)
    /\ \E d \in KeepAliveDecisions(hosts[x], c, config.coldstart) :
         \E h \in {OnContainerStart(Delivered(hosts[x], ContainerStart(c)), c, d)} :
           \E g \in {DequeueRequests(h)} : SetHost(x, g)
    /\ UNCHANGED <<config, arrived, turn, invocations, idleDeploys>>

\* A mutant of DeliverContainerEnd: the queue is not tried again.
EndWithoutDequeue(x, c) ==
    /\ BagIn(ContainerEnd(c), hosts[x].pending)
    /\ \E h \in {OnContainerEnd(Delivered(hosts[x], ContainerEnd(c)), c)} : SetHost(x, h)
    /\ UNCHANGED <<config, arrived, turn, invocations, idleDeploys>>

DeliverContainerEnd(x, c) ==
    /\ BagIn(ContainerEnd(c), hosts[x].pending)
    /\ \E h \in {OnContainerEnd(Delivered(hosts[x], ContainerEnd(c)), c)} :
         \E g \in {DequeueRequests(h)} : SetHost(x, g)
    /\ UNCHANGED <<config, arrived, turn, invocations, idleDeploys>>

\* The end of the last invocation of a container is up to the cold start policy.
DeliverInvocationEnd(x, i) ==
    /\ BagIn(InvocationEnd(i), hosts[x].pending) \/ hosts[x].cpu.end = i
    /\ LET c == hosts[x].registry[i].container
           app == AppOf(hosts[x], i)
           last == Invocations(hosts[x], c) = {i}
       IN \E d \in IdleDecisions(hosts[x], c, config.coldstart) :
            /\ \E h \in {OnInvocationEnd(Delivered(hosts[x], InvocationEnd(i)), i, d)} :
                 \E g \in {DequeueRequests(h)} : SetHost(x, g)
            /\ idleDeploys' =
                 IF last /\ d.prewarm
                 THEN idleDeploys (+) SetToBag({[app |-> app, expected |-> invocations[app]]})
                 ELSE idleDeploys
    /\ UNCHANGED <<config, arrived, turn, invocations>>

\* The containers a host may have deployed so far.
Deployed(x) == 0..hosts[x].next - 1

Event(x) ==
    \/ \E c \in Deployed(x) : DeliverContainerStart(x, c) \/ DeliverContainerEnd(x, c)
    \/ \E i \in DOMAIN hosts[x].registry : DeliverInvocationEnd(x, i)

Next ==
    \/ Invoke
    \/ IdleDeploy
    \/ \E x \in DOMAIN hosts : Event(x)

Spec == Init /\ [][Next]_vars

\* step_until_no_events: the simulation delivers every event.  An event of a
\* finite number; more are sent only by those delivered.
FairSpec ==
    /\ Spec
    /\ WF_vars(Invoke)
    /\ WF_vars(IdleDeploy)
    /\ WF_vars(\E x \in DOMAIN hosts : Event(x))

-----------------------------------------------------------------------------
(* What the hosts promise.                                                 *)
Copies(event, bag) == IF BagIn(event, bag) THEN bag[event] ELSE 0

Occurrences(s, x) == Cardinality({k \in DOMAIN s : s[k] = x})

Containers(h) == DOMAIN h.containers

Occupancy(h, c) == Cardinality(Invocations(h, c)) + Len(Reserved(h, c))

\* How often the host holds an invocation, and how often its end is to come.
Places(h, i) ==
    Occurrences(h.queue, i)
    + MapThenSumSet(LAMBDA c : Occurrences(h.reservations[c], i), DOMAIN h.reservations)
    + Cardinality({c \in Containers(h) : i \in Invocations(h, c)})

EndsToCome(h, i) ==
    Copies(InvocationEnd(i), h.pending)
    + MapThenSumSet(LAMBDA c : Occurrences(h.cpu.waiting[c], i), DOMAIN h.cpu.waiting)
    + (IF i \in h.cpu.work THEN 1 ELSE 0)

InvocationPlaced(h, i) ==
    LET entry == h.registry[i]
        c == entry.container
    IN /\ Places(h, i) = (IF entry.status = "Finished" THEN 0 ELSE 1)
       /\ EndsToCome(h, i) = (IF entry.status = "Running" THEN 1 ELSE 0)
       /\ entry.status = "Queued" => i \in Range(h.queue)
       /\ entry.status = "WaitingForContainer" =>
            c \in Containers(h) /\ i \in Range(Reserved(h, c))
       /\ entry.status = "Running" => c \in Containers(h) /\ i \in Invocations(h, c)

\* What the registry says of an invocation is where it is: once in the queue, in
\* the reservations of a container that is being deployed, or in a container that
\* runs it and whose cpu has its end to come once.  The active invocations are
\* those not finished.  (host.rs, invoker.rs, container.rs: invocations move
\* between these places in handlers of different events.)
InvocationsPlaced ==
    \A x \in DOMAIN hosts :
      LET h == hosts[x] IN
      /\ \A i \in DOMAIN h.registry : InvocationPlaced(h, i)
      /\ h.active = Cardinality({i \in DOMAIN h.registry : h.registry[i].status # "Finished"})

\* The events of a container's life cycle that are to come.
LifeCycle(h, c) ==
    LET starts == Copies(ContainerStart(c), h.pending)
        ends == Copies(ContainerEnd(c), h.pending)
    IN CASE h.containers[c].status = "Deploying" ->
              starts = 1 /\ ends = 0 /\ Invocations(h, c) = {}
         [] h.containers[c].status = "Running" ->
              starts = 0 /\ ends <= 1 /\ Invocations(h, c) # {} /\ Reserved(h, c) = <<>>
         [] h.containers[c].status \in {"Idle", "Terminated"} ->
              starts = 0 /\ ends = 1 /\ Invocations(h, c) = {} /\ Reserved(h, c) = <<>>

Listed(h, c) ==
    LET app == h.containers[c].app
        count == Occupancy(h, c)
    IN /\ count <= Limit[app]
       /\ Occurrences(h.free[app], c) = (IF count < Limit[app] THEN 1 ELSE 0)
       /\ (c \in h.full[app]) <=> (count = Limit[app])

\* The resources handed out are those of the containers there are, within the
\* capacity; a container is listed as free exactly if it takes another invocation;
\* an idle container has one end event to come, one that is deployed its start:
\* none is kept for ever, and no outdated event is left when a new window begins.
\* (container.rs; host.rs: events of containers race with invocations.)
ContainersAccounted ==
    \A x \in DOMAIN hosts :
      LET h == hosts[x] IN
      /\ \A r \in DOMAIN h.capacity :
           /\ h.consumed[r] <= h.capacity[r]
           /\ h.consumed[r] =
                MapThenSumSet(LAMBDA c : IF r \in DOMAIN Needs[h.containers[c].app]
                                         THEN Needs[h.containers[c].app][r] ELSE 0,
                              Containers(h))
      /\ \A c \in Containers(h) : LifeCycle(h, c) /\ Listed(h, c)
      /\ DOMAIN h.reservations \subseteq Containers(h)

\* The containers that use the cpu: Isolated makes those without room wait.
Executing(h) == {c \in Containers(h) : Invocations(h, c) # {}} \ DOMAIN h.cpu.waiting

CpuAccounted(h) ==
    /\ ~ h.cpu.panicked
    /\ h.cpu.load = MapThenSumSet(LAMBDA c : ShareOf(h, c), Executing(h))
    /\ h.cpu.policy = "Isolated" =>
         /\ h.cpu.load <= h.cpu.cores
         /\ DOMAIN h.cpu.waiting = Range(h.cpu.queue)
         /\ h.cpu.queue # <<>> => h.cpu.load + ShareOf(h, Head(h.cpu.queue)) > h.cpu.cores
    /\ h.cpu.policy = "Contended" => h.cpu.end # NoInvocation <=> h.cpu.work # {}

\* "CPU shares of active containers should not exceed the number of cores"
\* (cpu.rs:111, of IsolatedCpuPolicy).  Two queued invocations that enter an idle
\* container in one dequeue are told to the cpu when both are in it: neither is
\* alone, and the container's share is not added.
CpuNotOverloaded ==
    \A x \in DOMAIN hosts :
      hosts[x].cpu.policy = "Isolated" =>
        MapThenSumSet(LAMBDA c : ShareOf(hosts[x], c), Executing(hosts[x])) <= hosts[x].cpu.cores

\* A queue without overtaking may start several invocations of a container at
\* once, see CpuNotOverloaded.
OneAtATime == config.invoker = "Naive" \/ \A i \in DOMAIN config.trace : Limit[config.trace[i]] = 1

\* The load is that of the containers that execute, Isolated keeps it within the
\* cores and lets no container wait that fits, and Contended has an end event to
\* come while there is work.  (cpu.rs: containers enter and leave in handlers of
\* the host, several in one dequeue.)
CpuShared == OneAtATime => \A x \in DOMAIN hosts : CpuAccounted(hosts[x])

\* No invocation is left in a queue that could be served: none of the naive
\* invoker's, not the first of the FIFO invoker's.  (invoker.rs: what frees room
\* must be followed by dequeue, prewarmed containers included.)
NothingWaitsNeedlessly ==
    \A x \in DOMAIN hosts :
      LET h == hosts[x] IN
      \A k \in DOMAIN h.queue :
        config.invoker = "Naive" \/ k = 1 =>
          ~ CanInvoke(h, AppOf(h, h.queue[k]), TRUE) /\ ~ CanAllocate(h, AppOf(h, h.queue[k]))

\* Every invocation of the trace is served in the end, if windows are finite and
\* every host has room for a container of every application.
EveryInvocationFinishes ==
    <>(/\ arrived = Len(config.trace)
       /\ \A x \in DOMAIN hosts : \A i \in DOMAIN hosts[x].registry :
            hosts[x].registry[i].status = "Finished")
==============================================================================
