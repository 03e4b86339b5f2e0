------------------------------- MODULE FaasHost -------------------------------
(***************************************************************************)
(* A host of dslab-faas: its invoker (invoker.rs) and the handlers of its  *)
(* events (host.rs), as operators from hosts to hosts.  "registry" holds   *)
(* the entries of the InvocationRegistry whose host_id is this host.       *)
(***************************************************************************)
EXTENDS FaasContainers

NewHost(capacity, cores, invoker, cpuPolicy) ==
    [containers |-> <<>>, next |-> 0,
     free |-> [a \in App |-> <<>>], full |-> [a \in App |-> {}],
     reservations |-> <<>>, active |-> 0, pending |-> EmptyBag,
     capacity |-> capacity, consumed |-> [r \in DOMAIN capacity |-> 0],
     cpu |-> NewCpu(cpuPolicy, cores),
     registry |-> <<>>, invoker |-> invoker, queue |-> <<>>]

AppOf(h, i) == h.registry[i].app

\* The invocation's status and container in the registry.
Assign(h, i, status, c) ==
    [h EXCEPT !.registry[i].status = status, !.registry[i].container = c]

NoContainer == -1

-----------------------------------------------------------------------------
(* Invoker. *)

\* The first element of a list that is in S.
FirstIn(list, S) ==
    list[CHOOSE k \in DOMAIN list : list[k] \in S /\ \A j \in 1..k - 1 : list[j] \notin S]

\* try_invoke: a container that runs, the first in the list; else the one that
\* is deployed next, containers of an application in the order of their ids;
\* else a new one.
TryInvoke(h, app) ==
    LET ids == PossibleContainers(h, app, TRUE)
        warm == PossibleContainers(h, app, FALSE)
    IN CASE warm # {} -> [kind |-> "Warm", container |-> FirstIn(h.free[app], warm), host |-> h]
         [] warm = {} /\ ids # {} ->
              [kind |-> "Cold", host |-> h,
               container |-> CHOOSE c \in ids : \A d \in ids : c <= d]
         [] ids = {} /\ CanAllocate(h, app) ->
              [kind |-> "Cold", container |-> h.next, host |-> DeployContainer(h, app)]
         [] ids = {} /\ ~ CanAllocate(h, app) ->
              [kind |-> "Rejected", container |-> NoContainer, host |-> h]

IfFull(h, c, count) ==
    IF count = Limit[h.containers[c].app] THEN MoveToFull(h, c) ELSE h

EnterContainer(h, c, i) ==
    [h EXCEPT !.containers[c].status = "Running",
              !.containers[c].invocations = Invocations(h, c) \cup {i}]

EnterReservation(h, c, i) ==
    Bind(Reserve(Assign(h, i, "WaitingForContainer", c), c, i),
         LAMBDA g : IfFull(g, c, Len(Reserved(g, c))))

\* An invocation that is rejected is queued.
Enqueue(h, i) == [h EXCEPT !.queue = Append(@, i)]

\* The FIFO invoker stops at the first item that is rejected.
Stopped(acc) == acc.host.invoker = "FIFO" /\ acc.kept # <<>>

\* dequeue tries the next item of the queue.
DequeueItem(acc, i) ==
    LET tried(t) ==
            CASE t.kind = "Warm" ->
                   [acc EXCEPT
                     !.host = Bind(EnterContainer(t.host, t.container, i), LAMBDA g :
                                IfFull(g, t.container, Cardinality(Invocations(g, t.container)))),
                     !.started = Append(@, <<i, t.container>>)]
              [] t.kind = "Cold" ->
                   [acc EXCEPT !.host = EnterReservation(t.host, t.container, i)]
              [] t.kind = "Rejected" ->
                   [acc EXCEPT !.kept = Append(@, i)]
    IN IF Stopped(acc)
       THEN [acc EXCEPT !.kept = Append(@, i)]
       ELSE Bind(TryInvoke(acc.host, AppOf(acc.host, i)), tried)

\* dequeue_requests: the invocations started on running containers are told to
\* the cpu after the whole queue has been tried.
DequeueRequests(h) ==
    LET tell(g, s) == CpuStart(Assign(g, s[1], "Running", s[2]), s[1], s[2])
    IN Bind(Fold(DequeueItem, [host |-> h, started |-> <<>>, kept |-> <<>>], h.queue),
            LAMBDA acc : Fold(tell, [acc.host EXCEPT !.queue = acc.kept], acc.started))

-----------------------------------------------------------------------------
(* Host. *)

StartInvocation(h, c, i) ==
    CpuStart(Assign(EnterContainer(h, c, i), i, "Running", c), i, c)

\* invoke: a new invocation.  The queue is not looked at.
HostInvoke(h, i, app) ==
    LET arrived == [h EXCEPT
            !.active = @ + 1,
            !.registry = With(@, i, [app |-> app, status |-> "Queued",
                                     container |-> NoContainer])]
        decided(t) ==
            CASE t.kind = "Warm" ->
                   Bind(StartInvocation(t.host, t.container, i), LAMBDA g :
                        IfFull(g, t.container, Cardinality(Invocations(g, t.container))))
              [] t.kind = "Cold" -> EnterReservation(t.host, t.container, i)
              [] t.kind = "Rejected" -> Enqueue(t.host, i)
    IN Bind(TryInvoke(arrived, app), decided)

HostTryDeploy(h, app) == IF CanAllocate(h, app) THEN DeployContainer(h, app) ELSE h

\* new_container_end_event: without delay, the container is as good as gone.
NewEndEvent(h, c, now) ==
    Emit([h EXCEPT !.containers[c].status = IF now THEN "Terminated" ELSE @],
         ContainerEnd(c))

\* A mutant of KeepAlive: a new window leaves the end event of the old one.
KeepAliveWithoutCancel(h, c, decision) ==
    LET told == [h EXCEPT !.containers[c].windowSet = @ \/ decision.remember] IN
    IF decision.keep = "OldWindow" THEN told
    ELSE NewEndEvent(told, c, decision.keep = "TerminateNow")

\* The cold start policy's answer for an idle container, carried out: a new
\* window replaces the container's end event, the old one keeps it.
KeepAlive(h, c, decision) ==
    LET told == [h EXCEPT !.containers[c].windowSet = @ \/ decision.remember] IN
    CASE decision.keep = "NewWindow"    -> NewEndEvent(Cancel(told, ContainerEnd(c)), c, FALSE)
      [] decision.keep = "TerminateNow" -> NewEndEvent(Cancel(told, ContainerEnd(c)), c, TRUE)
      [] decision.keep = "OldWindow"    -> told

\* A mutant of OnContainerStart: the reservations are read and not removed.
StartAndKeepReservations(h, c, decision) ==
    IF c \in DOMAIN h.reservations
    THEN Fold(LAMBDA g, i : StartInvocation(g, c, i), h, h.reservations[c])
    ELSE KeepAlive([h EXCEPT !.containers[c].status = "Idle"], c, decision)

OnContainerStart(h, c, decision) ==
    IF c \in DOMAIN h.reservations
    THEN Fold(LAMBDA g, i : StartInvocation(g, c, i),
              DropReservations(h, c), h.reservations[c])
    ELSE KeepAlive([h EXCEPT !.containers[c].status = "Idle"], c, decision)

OnContainerEnd(h, c) ==
    IF c \in DOMAIN h.containers /\ h.containers[c].status \in {"Idle", "Terminated"}
    THEN DeleteContainer(h, c) ELSE h

LeaveContainer(h, c, i) ==
    LET left == Invocations(h, c) \ {i} IN
    [h EXCEPT !.containers[c].invocations = left,
              !.containers[c].status = IF left = {} THEN "Idle" ELSE h.containers[c].status]

\* A prewarm window ends the container at once, whatever the keepalive is.
OnInvocationEnd(h, i, decision) ==
    LET c == h.registry[i].container
        ended == [Assign(h, i, "Finished", c) EXCEPT !.active = @ - 1]
    IN Bind(CpuEnd(LeaveContainer(TryMoveToFree(ended, c), c, i), i, c), LAMBDA g :
         IF g.containers[c].status = "Idle" THEN KeepAlive(g, c, decision) ELSE g)

ActiveInvocationCount(h) == h.active

TotalInvocationCount(h) == h.active + Len(h.queue)
==============================================================================
