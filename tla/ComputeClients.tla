---------------------------- MODULE ComputeClients ----------------------------
(***************************************************************************)
(* The machine of Multicore with those who use it (the methods of Compute  *)
(* in multicore.rs): requesters that run, preempt, resume and cancel       *)
(* computations, and owners that allocate by hand.                         *)
(*                                                                         *)
(* A requester commands a computation according to the answers it got, and *)
(* waits for the answer before the next command.  It cannot know that the  *)
(* computation has just finished.                                          *)
(***************************************************************************)
EXTENDS Multicore

VARIABLE view   \* the state of each computation as its requester sees it

clientVars == <<machineVars, view>>

Waiting == {"asked", "preempting", "resuming", "cancelling"}
View == {"new", "running", "preempted", "over"} \cup Waiting

TypeOK == MachineTypeOK /\ view \in [Comp -> View]

ComputeInit == MachineInit /\ view = [c \in Comp |-> "new"]

-----------------------------------------------------------------------------

\* The requester of c, which sees it as from, sends a command.
Ask(c, type, from, to) ==
    /\ view[c] = from
    /\ view' = [view EXCEPT ![c] = to]
    /\ Send(c, type)
    /\ UNCHANGED <<resourceVars, computations, finishIn, allocations, notices,
                   allocationCalls, panicked>>

Run(c) == Ask(c, "CompRequest", "new", "asked")
PreemptComputation(c) == Ask(c, "PreemptComp", "running", "preempting")
ResumeComputation(c) == Ask(c, "ResumeComp", "preempted", "resuming")
CancelComputation(c) ==
    \E from \in {"running", "preempted"} :
      Ask(c, "CancelComp", from, "cancelling")

\* What the requester knows after an answer.  A failure to resume leaves the
\* computation preempted.
ViewAfter(c, notice) ==
    CASE notice \in {"CompStarted", "CompResumed"} -> "running"
      [] notice = "CompPreempted" -> "preempted"
      [] notice = "CompFailed" ->
           IF view[c] = "resuming" THEN "preempted" ELSE "over"
      [] notice \in {"CompCancelled", "CompFinished"} -> "over"

OnNotice(c, notice) ==
    /\ notices[c][notice] > 0
    /\ notices' = [notices EXCEPT ![c][notice] = @ - 1]
    /\ view' = [view EXCEPT ![c] = ViewAfter(c, notice)]
    /\ UNCHANGED <<resourceVars, computations, finishIn, allocations, commands,
                   allocationCalls, panicked>>

\* An owner allocates or gives back, maybe more than it holds.
\* Bound: one request of an owner at a time.
CallAllocation(o) ==
    /\ \A t \in AllocationCall, a \in Allocation : allocationCalls[o][t][a] = 0
    /\ \E t \in AllocationCall, a \in Allocation : SendAllocation(o, t, a)
    /\ UNCHANGED <<resourceVars, computations, finishIn, allocations, commands,
                   notices, panicked, view>>

-----------------------------------------------------------------------------

HandleCommand(c) ==
    /\ ~ panicked
    /\ OnCompRequest(c) \/ OnPreemptComp(c) \/ OnCancelComp(c) \/ OnResumeComp(c)
    /\ UNCHANGED view

Complete(c) == ~ panicked /\ OnCompFinished(c) /\ UNCHANGED view

HandleAllocation(o) ==
    /\ ~ panicked
    /\ \E a \in Allocation :
         OnAllocationRequest(o, a) \/ OnDeallocationRequest(o, a)
    /\ UNCHANGED view

ClientStep(c) ==
    /\ ~ panicked
    /\ \/ Run(c) \/ PreemptComputation(c) \/ ResumeComputation(c)
       \/ CancelComputation(c)
       \/ \E notice \in Notice : OnNotice(c, notice)

ComputeNext ==
    \/ \E c \in Comp : HandleCommand(c) \/ Complete(c) \/ ClientStep(c)
    \/ \E o \in Owner : HandleAllocation(o) \/ (~ panicked /\ CallAllocation(o))
    \/ ~ panicked /\ Tick /\ UNCHANGED view

ComputeSpec == ComputeInit /\ [][ComputeNext]_clientVars

\* The engine delivers every event.
ComputeFairness ==
    \A c \in Comp :
      /\ WF_clientVars(HandleCommand(c))
      /\ WF_clientVars(Complete(c))
      /\ WF_clientVars(~ panicked /\ \E notice \in Notice : OnNotice(c, notice))

ComputeFairSpec == ComputeSpec /\ ComputeFairness

-----------------------------------------------------------------------------

(* A requester that waits for answers never makes the machine panic,       *)
(* although a computation may finish at any moment (multicore.rs, the      *)
(* panics of stop_computation and the expects of ResumeComp and            *)
(* CompFinished).                                                          *)
NoPanic == ~ panicked

(* A computation ends once: when its requester takes it to be over, the    *)
(* machine has nothing left of it, and no answer is on its way, though a   *)
(* command may be (multicore.rs, completion and cancellation exclude each  *)
(* other).                                                                 *)
EndsOnce ==
    \A c \in Comp : view[c] = "over" =>
      /\ State(c) = "none" /\ finishIn[c] = Never
      /\ \A t \in Notice : notices[c][t] = 0

\* The commands and the answers on their way.
Sent(c, S) == \A t \in Command : commands[c][t] = IF t \in S THEN 1 ELSE 0
Told(c, S) == \A t \in Notice : notices[c][t] = IF t \in S THEN 1 ELSE 0

Settled(c) ==
    /\ Told(c, {})
    /\ \/ view[c] = "new" /\ State(c) = "none" /\ Sent(c, {})
       \/ view[c] = "running" /\ State(c) = "Running" /\ Sent(c, {})
       \/ view[c] = "preempted" /\ State(c) = "Preempted" /\ Sent(c, {})
       \/ /\ view[c] = "over" /\ State(c) = "none"
          /\ \E S \in {{}, {"PreemptComp"}, {"CancelComp"}} : Sent(c, S)

Commanded(c) ==
    /\ Told(c, {})
    /\ \/ view[c] = "asked" /\ State(c) = "none" /\ Sent(c, {"CompRequest"})
       \/ view[c] = "preempting" /\ State(c) = "Running" /\ Sent(c, {"PreemptComp"})
       \/ view[c] = "resuming" /\ State(c) = "Preempted" /\ Sent(c, {"ResumeComp"})
       \/ view[c] = "cancelling" /\ State(c) # "none" /\ Sent(c, {"CancelComp"})

Answered(c) ==
    /\ Sent(c, {})
    /\ \/ view[c] = "asked" /\ State(c) = "none" /\ Told(c, {"CompFailed"})
       \/ /\ view[c] = "asked" /\ State(c) = "Running" /\ finishIn[c] # 0
          /\ Told(c, {"CompStarted"})
       \/ view[c] = "preempting" /\ State(c) = "Preempted" /\ Told(c, {"CompPreempted"})
       \/ view[c] = "resuming" /\ State(c) = "Preempted" /\ Told(c, {"CompFailed"})
       \/ /\ view[c] = "resuming" /\ State(c) = "Running" /\ finishIn[c] # 0
          /\ Told(c, {"CompResumed"})
       \/ view[c] = "cancelling" /\ State(c) = "none" /\ Told(c, {"CompCancelled"})

Finished(c) ==
    /\ State(c) = "none"
    /\ Told(c, {"CompFinished"})
    /\ \/ view[c] \in {"running", "preempting", "cancelling"} /\ Sent(c, {})
       \/ view[c] = "preempting" /\ Sent(c, {"PreemptComp"})
       \/ view[c] = "cancelling" /\ Sent(c, {"CancelComp"})

InConversation(c) == Settled(c) \/ Commanded(c) \/ Answered(c) \/ Finished(c)

(* What a requester takes a computation for, the command it waits for, the *)
(* answer on its way and the state of the computation fit together: at     *)
(* most one command and one answer are on their way, and a completion      *)
(* crosses commands to preempt or to cancel only (multicore.rs, all        *)
(* handlers of computations).                                              *)
Conversation == \A c \in Comp : InConversation(c)

(* The pending completion of a computation comes with the tick in which    *)
(* its work is done, over any sequence of preemptions and resumptions on   *)
(* any number of cores; a computation that does not run has none, and has  *)
(* work left (multicore.rs, flops_done and comp_finished_event_id).        *)
CompletionOnTime ==
    \A c \in Comp :
      IF State(c) = "Running"
      THEN LET speed == Speedup[c][computations[c].cores]
               work == DoneSoFar(c) + finishIn[c] * speed
           IN finishIn[c] # Never /\ work - speed < Flops[c] /\ Flops[c] <= work
      ELSE finishIn[c] = Never /\ computations[c].flopsDone < Flops[c]

\* The units of a resource that are held, one by one: a holder x has the first
\* held[x] of total.
Units(held, total) == {u \in (DOMAIN held) \X (1..total) : u[2] <= held[u[1]]}

CoresHeld ==
    [x \in Comp \cup Owner |->
       IF x \in Comp THEN CoresOf(x) ELSE allocations[x].cores]
MemoryHeld ==
    [x \in Comp \cup Owner |->
       IF x \in Comp THEN MemoryOf(x) ELSE allocations[x].memory]

Conserved(free, held, total) ==
    /\ held \in [Comp \cup Owner -> 0..total]
    /\ free + Cardinality(Units(held, total)) = total

(* Nothing is lost and nothing is given out twice: what is available and   *)
(* what running computations and owners hold add up to the machine         *)
(* (multicore.rs, cores_available and memory_available).                   *)
ResourcesConserved ==
    /\ Conserved(coresFree, CoresHeld, CoresTotal)
    /\ Conserved(memoryFree, MemoryHeld, MemoryTotal)

(* Whoever waits gets an answer (multicore.rs, the notifications of every  *)
(* handler; a command to a computation that is gone gets none, but then    *)
(* its completion was announced).                                          *)
AnswersCome ==
    \A c \in Comp : view[c] \in Waiting ~> view[c] \notin Waiting
=============================================================================
