------------------------------ MODULE Multicore ------------------------------
(***************************************************************************)
(* A computing resource with several cores (dslab-compute, multicore.rs):  *)
(* computations that run on free cores and can be preempted, resumed and   *)
(* cancelled, and allocations of cores and memory by hand.                 *)
(*                                                                         *)
(* Time advances in ticks.  The duration of a computation is rounded up to *)
(* whole ticks.  Events that arrive in one tick are handled in any order,  *)
(* but for completions, which were emitted before and come first.          *)
(***************************************************************************)
EXTENDS Integers, FiniteSets

CONSTANTS
    Comp,           \* computations; each is requested at most once
    Owner,          \* components that allocate by hand
    CoresTotal,
    MemoryTotal,
    MinCores,       \* of each computation
    MaxCores,
    CompMemory,
    Flops,
    Speedup,        \* flops of a computation done per tick on n cores
    Allocation      \* the allocations that may be asked for

ASSUME MulticoreAssumption ==
    /\ IsFiniteSet(Comp) /\ IsFiniteSet(Owner) /\ Comp \cap Owner = {}
    /\ CoresTotal \in Nat /\ MemoryTotal \in Nat
    /\ MinCores \in [Comp -> Nat \ {0}] /\ MaxCores \in [Comp -> Nat \ {0}]
    /\ \A c \in Comp : MinCores[c] <= MaxCores[c]
    /\ CompMemory \in [Comp -> Nat]
    /\ Flops \in [Comp -> Nat \ {0}]
    /\ Speedup \in [Comp -> [1..CoresTotal -> Nat \ {0}]]
    /\ Allocation \subseteq [cores : Nat, memory : Nat]

VARIABLES
    coresFree, memoryFree,  \* cores_available, memory_available
    computations,           \* state "none": not in the map
    finishIn,               \* ticks until CompFinished comes to the resource,
                            \* or Never
    allocations,            \* what each owner holds; zeros: not in the map
    commands,               \* how many events of each type are on their way
    notices,                \* and how many answers
    allocationCalls,        \* and how many allocation events
    panicked                \* an expect or a panic! was reached

resourceVars == <<coresFree, memoryFree>>
machineVars == <<resourceVars, computations, finishIn, allocations, commands,
                 notices, allocationCalls, panicked>>

Never == -1
Command == {"CompRequest", "PreemptComp", "ResumeComp", "CancelComp"}
Notice == {"CompStarted", "CompFailed", "CompPreempted", "CompResumed",
           "CompCancelled", "CompFinished"}
AllocationCall == {"AllocationRequest", "DeallocationRequest"}
ComputationState == {"none", "Running", "Preempted"}

MachineTypeOK ==
    /\ coresFree \in Nat /\ memoryFree \in Nat
    /\ computations \in [Comp -> [state : ComputationState, cores : Nat,
                                  flopsDone : Nat, ran : Nat]]
    /\ \A c \in Comp : computations[c].state = "Running" =>
                        computations[c].cores \in 1..CoresTotal
    /\ finishIn \in [Comp -> Nat \cup {Never}]
    /\ allocations \in [Owner -> [cores : Nat, memory : Nat]]
    /\ commands \in [Comp -> [Command -> Nat]]
    /\ notices \in [Comp -> [Notice -> Nat]]
    /\ allocationCalls \in [Owner -> [AllocationCall -> [Allocation -> Nat]]]
    /\ panicked \in BOOLEAN

NoComputation == [state |-> "none", cores |-> 0, flopsDone |-> 0, ran |-> 0]

MachineInit ==
    /\ coresFree = CoresTotal
    /\ memoryFree = MemoryTotal
    /\ computations = [c \in Comp |-> NoComputation]
    /\ finishIn = [c \in Comp |-> Never]
    /\ allocations = [o \in Owner |-> [cores |-> 0, memory |-> 0]]
    /\ commands = [c \in Comp |-> [t \in Command |-> 0]]
    /\ notices = [c \in Comp |-> [t \in Notice |-> 0]]
    /\ allocationCalls = [o \in Owner |-> [t \in AllocationCall |->
                            [a \in Allocation |-> 0]]]
    /\ panicked = FALSE

-----------------------------------------------------------------------------

Send(c, type) == commands' = [commands EXCEPT ![c][type] = @ + 1]

Receive(c, type) ==
    /\ commands[c][type] > 0
    /\ commands' = [commands EXCEPT ![c][type] = @ - 1]

Notify(c, type) == notices' = [notices EXCEPT ![c][type] = @ + 1]

Panic ==
    /\ panicked' = TRUE
    /\ UNCHANGED <<resourceVars, computations, finishIn, notices>>

State(c) == computations[c].state

\* What a computation holds of the machine.
CoresOf(c) == IF State(c) = "Running" THEN computations[c].cores ELSE 0
MemoryOf(c) == IF State(c) = "Running" THEN CompMemory[c] ELSE 0

\* The work done, the current run included.
DoneSoFar(c) ==
    computations[c].flopsDone +
      (IF State(c) = "Running"
       THEN computations[c].ran * Speedup[c][computations[c].cores] ELSE 0)

MinOf(m, n) == IF m <= n THEN m ELSE n

\* The time for the rest of the work, in whole ticks.
TicksFor(work, speed) == (work + speed - 1) \div speed

Enough(c) == CompMemory[c] <= memoryFree /\ MinCores[c] <= coresFree

\* Mutant: the time for the work is that of the whole computation.
LaunchFromScratch(c, done) ==
    LET cores == MinOf(coresFree, MaxCores[c])
    IN /\ coresFree' = coresFree - cores
       /\ memoryFree' = memoryFree - CompMemory[c]
       /\ computations' = [computations EXCEPT ![c] =
            [state |-> "Running", cores |-> cores, flopsDone |-> done, ran |-> 0]]
       /\ finishIn' = [finishIn EXCEPT ![c] =
            TicksFor(Flops[c], Speedup[c][cores])]

\* c, of which done flops are done, starts on as many cores as are free.
Launch(c, done) ==
    LET cores == MinOf(coresFree, MaxCores[c])
    IN /\ coresFree' = coresFree - cores
       /\ memoryFree' = memoryFree - CompMemory[c]
       /\ computations' = [computations EXCEPT ![c] =
            [state |-> "Running", cores |-> cores, flopsDone |-> done, ran |-> 0]]
       /\ finishIn' = [finishIn EXCEPT ![c] =
            TicksFor(Flops[c] - done, Speedup[c][cores])]

\* Mutant: a preempted computation gives back what it does not hold any more.
GiveBackAgain(c) ==
    /\ coresFree' = coresFree + computations[c].cores
    /\ memoryFree' = memoryFree + CompMemory[c]

\* The resources of c are free again.
GiveBack(c) ==
    /\ coresFree' = coresFree + CoresOf(c)
    /\ memoryFree' = memoryFree + MemoryOf(c)

\* Completions that are due come before what was emitted in this tick.
NothingDue == \A c \in Comp : finishIn[c] # 0

-----------------------------------------------------------------------------

OnCompRequest(c) ==
    /\ NothingDue
    /\ Receive(c, "CompRequest")
    /\ \/ /\ ~ Enough(c)
          /\ Notify(c, "CompFailed")
          /\ UNCHANGED <<resourceVars, computations, finishIn>>
       \/ /\ Enough(c)
          /\ Launch(c, 0)
          /\ Notify(c, "CompStarted")
    /\ UNCHANGED <<allocations, allocationCalls, panicked>>

\* stop_computation for a computation that is gone.
StopNothing(c) ==
    /\ State(c) = "none"
    /\ UNCHANGED <<resourceVars, computations, finishIn, notices, panicked>>

\* Mutant: the completion stays pending.
PreemptOnly(c) ==
    /\ GiveBack(c)
    /\ computations' = [computations EXCEPT ![c] =
         [state |-> "Preempted", cores |-> @.cores,
          flopsDone |-> DoneSoFar(c), ran |-> 0]]
    /\ UNCHANGED finishIn

\* The pending completion is cancelled, the work so far is kept.
Preempt(c) ==
    /\ GiveBack(c)
    /\ computations' = [computations EXCEPT ![c] =
         [state |-> "Preempted", cores |-> @.cores,
          flopsDone |-> DoneSoFar(c), ran |-> 0]]
    /\ finishIn' = [finishIn EXCEPT ![c] = Never]

OnPreemptComp(c) ==
    /\ NothingDue
    /\ Receive(c, "PreemptComp")
    /\ \/ StopNothing(c)
       \/ /\ State(c) = "Running"
          /\ Preempt(c)
          /\ Notify(c, "CompPreempted")
          /\ UNCHANGED panicked
       \/ State(c) = "Preempted" /\ Panic
    /\ UNCHANGED <<allocations, allocationCalls>>

Cancel(c) ==
    /\ State(c) # "none"
    /\ GiveBack(c)
    /\ computations' = [computations EXCEPT ![c] = NoComputation]
    /\ finishIn' = [finishIn EXCEPT ![c] = Never]
    /\ Notify(c, "CompCancelled")
    /\ UNCHANGED panicked

\* Mutant: cancelling is confirmed whether the computation exists or not.
ConfirmAlways(c) ==
    /\ NothingDue
    /\ Receive(c, "CancelComp")
    /\ \/ Cancel(c)
       \/ /\ State(c) = "none"
          /\ Notify(c, "CompCancelled")
          /\ UNCHANGED <<resourceVars, computations, finishIn, panicked>>
    /\ UNCHANGED <<allocations, allocationCalls>>

OnCancelComp(c) ==
    /\ NothingDue
    /\ Receive(c, "CancelComp")
    /\ StopNothing(c) \/ Cancel(c)
    /\ UNCHANGED <<allocations, allocationCalls>>

\* Mutant: a failure is not reported.
ResumeSilently(c) ==
    /\ NothingDue
    /\ Receive(c, "ResumeComp")
    /\ \/ State(c) # "Preempted" /\ Panic
       \/ /\ State(c) = "Preempted"
          /\ ~ Enough(c)
          /\ UNCHANGED <<resourceVars, computations, finishIn, notices, panicked>>
       \/ /\ State(c) = "Preempted"
          /\ Enough(c)
          /\ Launch(c, computations[c].flopsDone)
          /\ Notify(c, "CompResumed")
          /\ UNCHANGED panicked
    /\ UNCHANGED <<allocations, allocationCalls>>

OnResumeComp(c) ==
    /\ NothingDue
    /\ Receive(c, "ResumeComp")
    /\ \/ State(c) # "Preempted" /\ Panic
       \/ /\ State(c) = "Preempted"
          /\ ~ Enough(c)
          /\ Notify(c, "CompFailed")
          /\ UNCHANGED <<resourceVars, computations, finishIn, panicked>>
       \/ /\ State(c) = "Preempted"
          /\ Enough(c)
          /\ Launch(c, computations[c].flopsDone)
          /\ Notify(c, "CompResumed")
          /\ UNCHANGED panicked
    /\ UNCHANGED <<allocations, allocationCalls>>

OnCompFinished(c) ==
    /\ finishIn[c] = 0
    /\ \/ State(c) = "none" /\ Panic
       \/ /\ State(c) # "none"
          /\ coresFree' = coresFree + computations[c].cores
          /\ memoryFree' = memoryFree + CompMemory[c]
          /\ computations' = [computations EXCEPT ![c] = NoComputation]
          /\ finishIn' = [finishIn EXCEPT ![c] = Never]
          /\ Notify(c, "CompFinished")
          /\ UNCHANGED panicked
    /\ UNCHANGED <<allocations, commands, allocationCalls>>

-----------------------------------------------------------------------------

SendAllocation(o, type, a) ==
    allocationCalls' = [allocationCalls EXCEPT ![o][type][a] = @ + 1]

ReceiveAllocation(o, type, a) ==
    /\ allocationCalls[o][type][a] > 0
    /\ allocationCalls' = [allocationCalls EXCEPT ![o][type][a] = @ - 1]

\* Mutant: the memory is not looked at.
SufficesInCores(held, a) == a.cores <= held.cores

Suffices(held, a) == a.cores <= held.cores /\ a.memory <= held.memory

\* Who asked is told of success or failure, which changes nothing here.
OnAllocationRequest(o, a) ==
    /\ NothingDue
    /\ ReceiveAllocation(o, "AllocationRequest", a)
    /\ \/ /\ Suffices([cores |-> coresFree, memory |-> memoryFree], a)
          /\ allocations' = [allocations EXCEPT ![o] =
               [cores |-> @.cores + a.cores, memory |-> @.memory + a.memory]]
          /\ coresFree' = coresFree - a.cores
          /\ memoryFree' = memoryFree - a.memory
       \/ /\ ~ Suffices([cores |-> coresFree, memory |-> memoryFree], a)
          /\ UNCHANGED <<resourceVars, allocations>>
    /\ UNCHANGED <<computations, finishIn, commands, notices, panicked>>

OnDeallocationRequest(o, a) ==
    /\ NothingDue
    /\ ReceiveAllocation(o, "DeallocationRequest", a)
    /\ \/ /\ Suffices(allocations[o], a)
          /\ allocations' = [allocations EXCEPT ![o] =
               [cores |-> @.cores - a.cores, memory |-> @.memory - a.memory]]
          /\ coresFree' = coresFree + a.cores
          /\ memoryFree' = memoryFree + a.memory
       \/ /\ ~ Suffices(allocations[o], a)
          /\ UNCHANGED <<resourceVars, allocations>>
    /\ UNCHANGED <<computations, finishIn, commands, notices, panicked>>

-----------------------------------------------------------------------------

\* Time advances once everything emitted in this tick has been handled.
Tick ==
    /\ NothingDue
    /\ \E c \in Comp : finishIn[c] # Never
    /\ \A c \in Comp : /\ \A t \in Command : commands[c][t] = 0
                       /\ \A t \in Notice : notices[c][t] = 0
    /\ finishIn' = [c \in Comp |->
         IF finishIn[c] = Never THEN Never ELSE finishIn[c] - 1]
    /\ computations' = [c \in Comp |->
         IF State(c) = "Running"
         THEN [computations[c] EXCEPT !.ran = @ + 1] ELSE computations[c]]
    /\ UNCHANGED <<resourceVars, allocations, commands, notices,
                   allocationCalls, panicked>>
=============================================================================
