--------------------------- MODULE FaasContainers ---------------------------
(***************************************************************************)
(* The container manager of a host of dslab-faas (container.rs) and the    *)
(* resources it hands out (resource.rs).  A host is a record; the fields   *)
(* of this module are those of ContainerManager, and "pending", the events *)
(* the host has sent to itself and that are not delivered yet.  Durations  *)
(* are left out: events are delivered in any order.                        *)
(***************************************************************************)
EXTENDS Integers, Sequences, FiniteSets, Bags, Folding

CONSTANTS
    App,            \* applications
    Limit,          \* concurrent invocations of a container of an application
    Share,          \* cpu share of a container of an application
    Needs           \* resources of a container of an application

ASSUME AppAssumption ==
    \A a \in App :
      /\ Limit[a] \in Nat \ {0} /\ Share[a] \in Nat
      /\ \A r \in DOMAIN Needs[a] : Needs[a][r] \in Nat

\* Events of a host: about a container or an invocation.
ContainerStart(c) == [kind |-> "ContainerStart", id |-> c]
ContainerEnd(c) == [kind |-> "ContainerEnd", id |-> c]
InvocationEnd(i) == [kind |-> "InvocationEnd", id |-> i]

With(f, x, value) == [y \in DOMAIN f \cup {x} |-> IF y = x THEN value ELSE f[y]]

Without(f, x) == [y \in DOMAIN f \ {x} |-> f[y]]

Emit(h, event) == [h EXCEPT !.pending = @ (+) SetToBag({event})]

\* Cancelling an event that has been delivered has no effect.
Cancel(h, event) == [h EXCEPT !.pending = @ (-) SetToBag({event})]

CanAllocate(h, app) ==
    \A r \in DOMAIN Needs[app] :
        r \in DOMAIN h.capacity /\ Needs[app][r] + h.consumed[r] <= h.capacity[r]

\* consumed, with the resources of containers of app added (or taken away).
Consumed(h, app, sign) ==
    [r \in DOMAIN h.consumed |->
        IF r \in DOMAIN Needs[app] THEN h.consumed[r] + sign * Needs[app][r]
                                   ELSE h.consumed[r]]

DeployContainer(h, app) ==
    Emit([h EXCEPT
            !.next = @ + 1,
            !.consumed = Consumed(h, app, 1),
            !.containers = With(@, h.next, [app |-> app, status |-> "Deploying",
                                            invocations |-> {}, windowSet |-> FALSE]),
            !.free[app] = Append(@, h.next)],
         ContainerStart(h.next))

\* remove of an IndexSet: the last element takes the place of the removed one.
SwapRemove(s, x) ==
    LET last == Len(s) IN
    IF \E k \in 1..last : s[k] = x
    THEN [k \in 1..last - 1 |-> IF s[k] = x THEN s[last] ELSE s[k]]
    ELSE s

DeleteContainer(h, c) ==
    LET app == h.containers[c].app IN
    [h EXCEPT !.containers = Without(@, c),
              !.free[app] = SwapRemove(@, c),
              !.full[app] = @ \ {c},
              !.consumed = Consumed(h, app, -1)]

TryMoveToFree(h, c) ==
    LET app == h.containers[c].app IN
    IF c \in h.full[app]
    THEN [h EXCEPT !.full[app] = @ \ {c}, !.free[app] = Append(@, c)]
    ELSE h

MoveToFull(h, c) ==
    LET app == h.containers[c].app IN
    [h EXCEPT !.free[app] = SwapRemove(@, c), !.full[app] = @ \cup {c}]

Reserved(h, c) == IF c \in DOMAIN h.reservations THEN h.reservations[c] ELSE <<>>

Reserve(h, c, i) ==
    [h EXCEPT !.reservations = With(@, c, Append(Reserved(h, c), i))]

DropReservations(h, c) ==
    [h EXCEPT !.reservations = Without(@, c)]

\* get_possible_containers: those that take one more invocation.
PossibleContainers(h, app, allowDeploying) ==
    {c \in {h.free[app][k] : k \in DOMAIN h.free[app]} :
        /\ h.containers[c].status # "Terminated"
        /\ h.containers[c].status = "Deploying" => allowDeploying}

CanInvoke(h, app, allowDeploying) == PossibleContainers(h, app, allowDeploying) # {}

-----------------------------------------------------------------------------
(***************************************************************************)
(* The CPU of a host (cpu.rs): field "cpu" of the host, with the policy    *)
(* that shares it.  Under "Contended" the progress of the invocations is   *)
(* left out: any of them may be the one that finishes first.               *)
(***************************************************************************)

NoInvocation == 0

NewCpu(policy, cores) ==
    [policy |-> policy, cores |-> cores, load |-> 0,
     waiting |-> <<>>, queue |-> <<>>,              \* Isolated
     work |-> {}, end |-> NoInvocation,             \* Contended
     panicked |-> FALSE]

ShareOf(h, c) == Share[h.containers[c].app]

Invocations(h, c) == h.containers[c].invocations

Alone(h, c) == Cardinality(Invocations(h, c)) = 1

\* The first invocation of a container brings the container's share.
AddLoad(h, c) == IF Alone(h, c) THEN [h EXCEPT !.cpu.load = @ + ShareOf(h, c)] ELSE h

IsolatedStart(h, i, c) ==
    IF c \in DOMAIN h.cpu.waiting
    THEN [h EXCEPT !.cpu.waiting[c] = Append(@, i)]
    ELSE IF Alone(h, c) /\ h.cpu.load + ShareOf(h, c) > h.cpu.cores
    THEN [h EXCEPT !.cpu.waiting = With(@, c, <<i>>), !.cpu.queue = Append(@, c)]
    ELSE Emit(AddLoad(h, c), InvocationEnd(i))

\* The shares of the container's invocations are computed again: an invocation
\* the policy does not know of is a panic (remove_invocation).
ContendedStart(h, i, c) ==
    [AddLoad(h, c) EXCEPT
        !.cpu.panicked = @ \/ ~ (Invocations(h, c) \ {i} \subseteq h.cpu.work),
        !.cpu.work = @ \cup {i}]

\* on_new_invocation: invocation i is already among those of container c.
CpuStart(h, i, c) ==
    CASE h.cpu.policy = "Ignored"   -> Emit(AddLoad(h, c), InvocationEnd(i))
      [] h.cpu.policy = "Isolated"  -> IsolatedStart(h, i, c)
      [] h.cpu.policy = "Contended" -> ContendedStart(h, i, c)

\* A mutant of DropLoad: every invocation takes the share away.
DropLoadAlways(h, c) == [h EXCEPT !.cpu.load = @ - ShareOf(h, c)]

\* The last invocation of a container takes the container's share away.
DropLoad(h, c) ==
    IF Invocations(h, c) = {} THEN [h EXCEPT !.cpu.load = @ - ShareOf(h, c)] ELSE h

\* Isolated: the container at the head of the queue starts if its share fits.
StartWaiting(h, c) ==
    IF h.cpu.queue # <<>> /\ Head(h.cpu.queue) = c /\ h.cpu.load + ShareOf(h, c) <= h.cpu.cores
    THEN Fold(LAMBDA g, i : Emit(g, InvocationEnd(i)),
              [h EXCEPT !.cpu.load = @ + ShareOf(h, c), !.cpu.queue = Tail(@),
                        !.cpu.waiting = Without(@, c)],
              h.cpu.waiting[c])
    ELSE h

IsolatedEnd(h, c) ==
    IF Invocations(h, c) = {}
    THEN Fold(StartWaiting, DropLoad(h, c), h.cpu.queue)
    ELSE h

ContendedEnd(h, i, c) ==
    [DropLoad(h, c) EXCEPT
        !.cpu.panicked = @ \/ ~ (Invocations(h, c) \cup {i} \subseteq h.cpu.work),
        !.cpu.work = @ \ {i}]

\* on_invocation_end: invocation i is no longer among those of container c.
CpuEnd(h, i, c) ==
    CASE h.cpu.policy = "Ignored"   -> DropLoad(h, c)
      [] h.cpu.policy = "Isolated"  -> IsolatedEnd(h, c)
      [] h.cpu.policy = "Contended" -> ContendedEnd(h, i, c)

\* reschedule_end: Contended has one end event, for the invocation that is to
\* finish first, and sends it again whenever the invocations change.
Rescheduled(before, after) ==
    IF after.cpu.work = before.cpu.work THEN {after}
    ELSE {[after EXCEPT !.cpu.end = i] :
            i \in IF after.cpu.work = {} THEN {NoInvocation} ELSE after.cpu.work}
=============================================================================
