------------------------------ MODULE SingleCore ------------------------------
(***************************************************************************)
(* A computing resource with a single core (dslab-compute, singlecore.rs): *)
(* any number of computations share its speed, by the fast model of        *)
(* ThroughputSharing, as long as its memory suffices.                      *)
(*                                                                         *)
(* Events wait in the queue of the simulation with the time they come at;  *)
(* those of one time come in the order they were emitted.                  *)
(***************************************************************************)
EXTENDS ThroughputSharing, FiniteSetsExt

CONSTANTS
    CoreComp,       \* computations; each is requested once
    CoreFlops,      \* of each
    CoreMemory,
    MemoryTotal,
    Pause           \* a requester waits so long, or until something happens

ASSUME CoreAssumption ==
    /\ IsFiniteSet(CoreComp) /\ Cardinality(CoreComp) <= Len(PerActivity)
    /\ CoreFlops \in [CoreComp -> Nat \ {0}] /\ CoreMemory \in [CoreComp -> Nat]
    /\ MemoryTotal \in Nat /\ Pause \in Nat
    /\ \A c \in CoreComp : Divisible(CoreFlops[c])
    /\ \A n \in DOMAIN PerActivity : Divisible(Pause * PerActivity[n])

VARIABLE core

\* Event 0 is another component's: next_event is 0 as long as there is none.
NewCore(comps) ==
    [toRequest |-> comps, clock |-> 0, events |-> {}, nextEventId |-> 1,
     memory |-> MemoryTotal,    \* memory_available
     model |-> NewFast,
     nextEvent |-> 0,
     work |-> {},               \* what is left, in truth
     failed |-> {}, finished |-> {},
     panicked |-> FALSE]

EmitAt(c, time, type, comp) ==
    [c EXCEPT !.events = @ \cup {[id |-> c.nextEventId, time |-> time,
                                  type |-> type, comp |-> comp]},
              !.nextEventId = @ + 1]

\* Compute::run.
RunComputation(c) ==
    /\ c \in core.toRequest
    /\ core' = [EmitAt(core, core.clock, "CompRequest", c) EXCEPT !.toRequest = @ \ {c}]

\* The completion of the computation that ends next.
EmitNextCompletion(c) ==
    IF c.model.activities = {} THEN c
    ELSE LET next == FastPeek(c.model)
         IN [EmitAt(c, next.time, "InternalCompFinished", next.item)
               EXCEPT !.nextEvent = c.nextEventId]

\* The shares change, so the completion emitted before is cancelled.
StartOnCore(s, c) ==
    [s EXCEPT !.memory = @ - CoreMemory[c],
              !.events = {e \in @ : e.id # s.nextEvent},
              !.model = FastInsert(@, c, CoreFlops[c], s.clock),
              !.work = @ \cup {[id |-> s.model.nextId, left |-> CoreFlops[c]]}]

OnCompRequest(s, c) ==
    IF s.memory < CoreMemory[c] THEN [s EXCEPT !.failed = @ \cup {c}]
    ELSE EmitNextCompletion(StartOnCore(s, c))

\* The event names the computation that the model gives, or the assert fails.
OnInternalCompFinished(s, c) ==
    IF s.model.activities = {} \/ FastPeek(s.model).item # c
    THEN [s EXCEPT !.panicked = TRUE]
    ELSE EmitNextCompletion(
           [s EXCEPT !.memory = @ + CoreMemory[c], !.model = FastPop(@),
                     !.work = {a \in @ : a.id # FirstBy(s.model.activities, FinishWork).id},
                     !.finished = @ \cup {c}])

\* Time passes up to the event that comes next.
At(s, time) == [s EXCEPT !.clock = time, !.work = WorkAfter(@, time - s.clock)]

Deliver(e) ==
    LET s == [At(core, e.time) EXCEPT !.events = @ \ {e}]
    IN /\ \A f \in core.events : e.time < f.time \/ (e.time = f.time /\ e.id <= f.id)
       /\ core' = IF e.type = "CompRequest" THEN OnCompRequest(s, e.comp)
                                            ELSE OnInternalCompFinished(s, e.comp)

RequesterWaits ==
    /\ core.toRequest # {}
    /\ \A e \in core.events : core.clock + Pause <= e.time
    /\ core.events = {} => core.clock = core.model.last
    /\ core' = At(core, core.clock + Pause)

CoreStep ==
    \/ \E c \in core.toRequest : RunComputation(c)
    \/ ~ core.panicked /\ \E e \in core.events : Deliver(e)
    \/ RequesterWaits
-----------------------------------------------------------------------------
(* The clients of the sharing models and of the core, as they are without  *)
(* the rest of a simulation.                                               *)

SharingInit ==
    /\ tester \in {NewTester(n) : n \in 0..MaxActivities}
    /\ core \in {NewCore(comps) : comps \in SUBSET CoreComp}

SharingNext ==
    \/ TesterStep /\ UNCHANGED core
    \/ CoreStep /\ UNCHANGED tester

SharingSpec == SharingInit /\ [][SharingNext]_<<tester, core>>

-----------------------------------------------------------------------------

\* What each model believes is left of each activity at the given time.
FastLeft(m, now) ==
    {[id |-> a.id, left |-> a.finish - m.total - (now - m.last) * m.share] : a \in m.activities}

CancelableLeft(m, now) ==
    {[id |-> e.id, left |-> e.finish - m.total - (now - m.last) * m.share] : e \in Live(m)}

SlowLeft(m, now) ==
    {[id |-> e.id, left |-> e.left - (now - m.last) * m.share] : e \in m.entries}

\* The models agree with the truth about what is left and about what is next.
ModelsExact ==
    LET t == tester
        next == [item |-> NextToEnd(t.work).id, time |-> t.clock + TimeToEnd(t.work)]
    IN /\ CancelableLeft(t.cancelable, t.clock) = t.work
       /\ t.work # {} => CancelablePeek(t.cancelable) = next
       /\ t.volumeRight
       /\ \/ t.cancelled
          \/ /\ FastLeft(t.fast, t.clock) = t.work
             /\ SlowLeft(t.slow, t.clock) = t.work
             /\ t.work # {} => FastPeek(t.fast) = next /\ SlowPeek(t.slow) = next

\* No division is rounded, and no activity has got more than it asked for.
DivisionsExact(work) ==
    /\ \A a \in work : a.left >= 0
    /\ work # {} => NextToEnd(work).left % Share(Cardinality(work)) = 0

\* The core has one completion ahead: of the computation that ends next, when
\* its flops are done.
CoreExact ==
    LET completions == {e \in core.events : e.type = "InternalCompFinished"}
        running == {a.item : a \in core.model.activities}
    IN /\ ~ core.panicked
       /\ FastLeft(core.model, core.clock) = core.work
       /\ core.memory = MemoryTotal - MapThenSumSet(LAMBDA c : CoreMemory[c], running)
       /\ IF running = {} THEN completions = {}
          ELSE \E e \in completions :
                 /\ completions = {e}
                 /\ e.comp = FastPeek(core.model).item
                 /\ e.time = core.clock + TimeToEnd(core.work)

(* Whatever the activities that start, end and are cancelled in between:   *)
(* each model gives to all that run the same work in the same time, though *)
(* it looks at them only when their number changes; the fast models agree  *)
(* with the slow one on what ends next and when, also when the total work  *)
(* starts again from 0; the single core announces exactly this end.        *)
SharingExact ==
    /\ ModelsExact /\ DivisionsExact(tester.work)
    /\ CoreExact /\ DivisionsExact(core.work)

=============================================================================
