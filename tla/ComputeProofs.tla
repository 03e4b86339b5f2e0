---------------------------- MODULE ComputeProofs ----------------------------
(***************************************************************************)
(* What TLAPS proves of ComputeClients, for any computations, owners,      *)
(* amounts and speedups.                                                   *)
(***************************************************************************)
EXTENDS ComputeClients, FiniteSetTheorems, TLAPS

Holder == Comp \cup Owner

-----------------------------------------------------------------------------
(* Arithmetic and counting. *)

(* Rounding up gives the first tick in which the work is done (multicore.rs, *)
(* compute_time).                                                            *)
LEMMA RoundUp ==
  ASSUME NEW work \in Nat \ {0}, NEW speed \in Nat \ {0}
  PROVE  /\ TicksFor(work, speed) \in Nat \ {0}
         /\ TicksFor(work, speed) * speed - speed < work
         /\ work <= TicksFor(work, speed) * speed
<1> DEFINE q == (work + speed - 1) \div speed
<1> DEFINE r == (work + speed - 1) % speed
<1>1. work + speed - 1 = q * speed + r /\ q \in Int /\ r \in 0..(speed - 1)
  BY SMT
<1> HIDE DEF q, r
<1>2. work = q * speed + r - speed + 1 /\ q * speed \in Int
  BY <1>1, SMT
<1>3. q * speed - speed < work /\ work <= q * speed
  BY <1>1, <1>2, SMT
<1>4. q > 0
  BY <1>1, <1>3, SMT
<1> QED BY <1>1, <1>3, <1>4 DEF TicksFor, q

(* Finitely many holders hold finitely many units, and each as many units  *)
(* as it holds.                                                            *)
LEMMA UnitsCounted ==
  ASSUME NEW n \in Nat, NEW f \in [Holder -> 0..n]
  PROVE  /\ IsFiniteSet(Units(f, n))
         /\ \A x \in Holder : f[x] <= Cardinality(Units(f, n))
<1>1. IsFiniteSet(Holder)
  BY MulticoreAssumption, FS_Union DEF Holder
<1>2. IsFiniteSet(1..n)
  BY FS_Interval
<1>3. IsFiniteSet(Holder \X (1..n))
  BY <1>1, <1>2, FS_Product
<1>4. IsFiniteSet(Units(f, n))
  BY <1>3, FS_Subset DEF Units
<1>5. ASSUME NEW x \in Holder PROVE f[x] <= Cardinality(Units(f, n))
  <2> DEFINE own == {x} \X (1..f[x])
  <2>1. own \subseteq Units(f, n)
    BY DEF Units
  <2>2. IsFiniteSet({x}) /\ Cardinality({x}) = 1
    BY FS_Singleton
  <2>3. IsFiniteSet(1..f[x]) /\ Cardinality(1..f[x]) = f[x]
    BY FS_Interval
  <2>4. Cardinality(own) = 1 * f[x]
    BY <2>2, <2>3, FS_Product
  <2> QED BY <1>4, <2>1, <2>4, FS_Subset
<1> QED BY <1>4, <1>5

(* A holder that takes k units has k units more. *)
LEMMA MoreUnits ==
  ASSUME NEW n \in Nat, NEW f \in [Holder -> 0..n], NEW x \in Holder,
         NEW k \in Nat, f[x] + k <= n
  PROVE  Cardinality(Units([f EXCEPT ![x] = f[x] + k], n))
           = Cardinality(Units(f, n)) + k
<1> DEFINE g == [f EXCEPT ![x] = f[x] + k]
<1> DEFINE rest == (f[x] + 1)..(f[x] + k)
<1> DEFINE new == {x} \X rest
<1>1. g \in [Holder -> 0..n]
  OBVIOUS
<1>2. Units(g, n) = Units(f, n) \cup new
  BY DEF Units
<1>3. Units(f, n) \cap new = {}
  BY DEF Units
<1>4. IsFiniteSet({x}) /\ Cardinality({x}) = 1
  BY FS_Singleton
<1>5. IsFiniteSet(rest) /\ Cardinality(rest) = k
  <2> DEFINE a == f[x] + 1
  <2> DEFINE b == f[x] + k
  <2>1. a \in Int /\ b \in Int /\ (IF a > b THEN 0 ELSE b - a + 1) = k
    OBVIOUS
  <2> HIDE DEF a, b
  <2>2. IsFiniteSet(a..b) /\ Cardinality(a..b) = k
    BY <2>1, FS_Interval
  <2> QED BY <2>2 DEF a, b
<1>6. IsFiniteSet(new) /\ Cardinality(new) = k
  <2> HIDE DEF rest
  <2>1. IsFiniteSet(new) /\ Cardinality(new) = Cardinality({x}) * Cardinality(rest)
    BY <1>4, <1>5, FS_Product
  <2> QED BY <1>4, <1>5, <2>1
<1> HIDE DEF new, g
<1>7. IsFiniteSet(Units(f, n)) /\ Cardinality(Units(f, n)) \in Nat
  BY UnitsCounted, FS_CardinalityType
<1>8. Cardinality(Units(f, n) \cup new) = Cardinality(Units(f, n)) + Cardinality(new)
                                     - Cardinality(Units(f, n) \cap new)
  BY <1>6, <1>7, FS_Union
<1>9. Cardinality(Units(f, n) \cap new) = 0
  BY <1>3, FS_EmptySet
<1>10. Cardinality(Units(g, n)) = Cardinality(Units(f, n)) + k
  BY <1>2, <1>6, <1>7, <1>8, <1>9
<1> QED BY <1>10 DEF g

(* Taking what is available, and giving back what one has, conserves a     *)
(* resource (multicore.rs, every update of cores_available and             *)
(* memory_available).                                                      *)
LEMMA TakeConserves ==
  ASSUME NEW n \in Nat, NEW free \in Nat, NEW f, Conserved(free, f, n),
         NEW x \in Holder, NEW k \in Nat, k <= free
  PROVE  Conserved(free - k, [f EXCEPT ![x] = f[x] + k], n)
<1>1. f \in [Holder -> 0..n] /\ free + Cardinality(Units(f, n)) = n
  BY DEF Conserved, Holder
<1>2. Cardinality(Units(f, n)) \in Nat /\ f[x] <= Cardinality(Units(f, n))
  BY <1>1, UnitsCounted, FS_CardinalityType
<1>3. f[x] \in Nat /\ f[x] + k <= n
  BY <1>1, <1>2
<1>4. Cardinality(Units([f EXCEPT ![x] = f[x] + k], n)) = Cardinality(Units(f, n)) + k
  BY <1>1, <1>3, MoreUnits
<1>5. [f EXCEPT ![x] = f[x] + k] \in [Holder -> 0..n]
  BY <1>1, <1>3
<1> QED BY <1>1, <1>2, <1>4, <1>5 DEF Conserved, Holder

LEMMA GiveConserves ==
  ASSUME NEW n \in Nat, NEW free \in Nat, NEW f, Conserved(free, f, n),
         NEW x \in Holder, NEW k \in Nat, k <= f[x]
  PROVE  Conserved(free + k, [f EXCEPT ![x] = f[x] - k], n)
<1> DEFINE g == [f EXCEPT ![x] = f[x] - k]
<1>1. f \in [Holder -> 0..n] /\ free + Cardinality(Units(f, n)) = n
  BY DEF Conserved, Holder
<1>2. g \in [Holder -> 0..n] /\ g[x] + k = f[x] /\ g[x] + k <= n
  BY <1>1
<1>3. f = [g EXCEPT ![x] = g[x] + k]
  BY <1>1, <1>2
<1> HIDE DEF g
<1>4. Cardinality(Units(f, n)) = Cardinality(Units(g, n)) + k
  BY <1>2, <1>3, MoreUnits
<1>5. Cardinality(Units(g, n)) \in Nat
  BY <1>2, UnitsCounted, FS_CardinalityType
<1>6. Conserved(free + k, g, n)
  BY <1>1, <1>2, <1>4, <1>5 DEF Conserved, Holder
<1> QED BY <1>6 DEF g

-----------------------------------------------------------------------------
(* The machine: resources and completions. *)

Entry == [state : ComputationState, cores : Nat, flopsDone : Nat, ran : Nat]

MachineSound ==
    /\ coresFree \in Nat /\ memoryFree \in Nat
    /\ computations \in [Comp -> Entry]
    /\ \A c \in Comp : State(c) = "Running" => computations[c].cores \in 1..CoresTotal
    /\ finishIn \in [Comp -> Nat \cup {Never}]
    /\ allocations \in [Owner -> [cores : Nat, memory : Nat]]
    /\ CompletionOnTime
    /\ ResourcesConserved

(* A computation that starts or resumes takes free resources, and its      *)
(* completion is due when the rest of its work is done (multicore.rs,      *)
(* CompRequest and ResumeComp).                                            *)
LEMMA LaunchIsSound ==
  ASSUME MachineSound, NEW c \in Comp, NEW done \in Nat, done < Flops[c],
         State(c) # "Running", Enough(c), Launch(c, done),
         UNCHANGED allocations
  PROVE  /\ MachineSound'
         /\ computations'[c].state = "Running" /\ finishIn'[c] # 0
         /\ \A d \in Comp \ {c} : /\ computations'[d] = computations[d]
                                  /\ finishIn'[d] = finishIn[d]
<1> DEFINE cores == MinOf(coresFree, MaxCores[c])
<1> DEFINE speed == Speedup[c][cores]
<1> DEFINE ticks == TicksFor(Flops[c] - done, speed)
<1> DEFINE entry == [state |-> "Running", cores |-> cores, flopsDone |-> done, ran |-> 0]
<1>1. /\ coresFree \in Nat /\ memoryFree \in Nat /\ CoresTotal \in Nat /\ MemoryTotal \in Nat
      /\ CompMemory[c] \in Nat /\ CompMemory[c] <= memoryFree
      /\ Flops[c] \in Nat \ {0}
  BY MulticoreAssumption DEF MachineSound, Enough
<1>2. cores \in Nat \ {0} /\ cores <= coresFree
  BY MulticoreAssumption, <1>1 DEF Enough, MinOf
<1>3. coresFree <= CoresTotal
  <2>1. CoresHeld \in [Holder -> 0..CoresTotal]
    BY DEF MachineSound, ResourcesConserved, Conserved, Holder
  <2>2. Cardinality(Units(CoresHeld, CoresTotal)) \in Nat
    BY <1>1, <2>1, UnitsCounted, FS_CardinalityType
  <2> QED BY <1>1, <2>2 DEF MachineSound, ResourcesConserved, Conserved
<1>4. cores \in 1..CoresTotal /\ speed \in Nat \ {0}
  BY MulticoreAssumption, <1>1, <1>2, <1>3
<1>5. /\ ticks \in Nat \ {0}
      /\ ticks * speed - speed < Flops[c] - done
      /\ Flops[c] - done <= ticks * speed
  <2>1. Flops[c] - done \in Nat \ {0}
    BY <1>1
  <2> HIDE DEF speed
  <2> QED BY <1>4, <2>1, RoundUp
<1>6. /\ coresFree' = coresFree - cores
      /\ memoryFree' = memoryFree - CompMemory[c]
      /\ computations' = [computations EXCEPT ![c] = entry]
      /\ finishIn' = [finishIn EXCEPT ![c] = ticks]
  BY DEF Launch
<1> HIDE DEF cores, speed, ticks
<1>7. entry \in Entry
  BY <1>2 DEF Entry, ComputationState
<1>8. /\ computations' \in [Comp -> Entry] /\ computations'[c] = entry
      /\ finishIn' \in [Comp -> Nat \cup {Never}] /\ finishIn'[c] = ticks
      /\ \A d \in Comp \ {c} : computations'[d] = computations[d] /\ finishIn'[d] = finishIn[d]
  BY <1>5, <1>6, <1>7 DEF MachineSound
<1>9. \A d \in Comp : State(d)' = "Running" => computations'[d].cores \in 1..CoresTotal
  BY <1>4, <1>8 DEF MachineSound, State
<1>10. CompletionOnTime'
  <2> SUFFICES ASSUME NEW d \in Comp
               PROVE  IF State(d)' = "Running"
                      THEN /\ finishIn'[d] # Never
                           /\ (DoneSoFar(d)' + finishIn'[d] * Speedup[d][computations'[d].cores])
                                - Speedup[d][computations'[d].cores] < Flops[d]
                           /\ Flops[d] <= DoneSoFar(d)'
                                + finishIn'[d] * Speedup[d][computations'[d].cores]
                      ELSE finishIn'[d] = Never /\ computations'[d].flopsDone < Flops[d]
    BY DEF CompletionOnTime
  <2>1. CASE d = c
    <3>1. DoneSoFar(c)' = done /\ State(c)' = "Running"
      BY <1>4, <1>8 DEF DoneSoFar, State, speed
    <3>2. Speedup[c][computations'[c].cores] = speed
      BY <1>8 DEF speed
    <3>3. finishIn'[c] # Never
      BY <1>5, <1>8 DEF Never
    <3>4. (done + ticks * speed) - speed < Flops[c] /\ Flops[c] <= done + ticks * speed
      BY <1>1, <1>4, <1>5
    <3> QED BY <1>8, <2>1, <3>1, <3>2, <3>3, <3>4
  <2>2. CASE d # c
    BY <1>8, <2>2 DEF MachineSound, CompletionOnTime, DoneSoFar, State
  <2> QED BY <2>1, <2>2
<1>11. Conserved(coresFree', CoresHeld', CoresTotal)
  <2>1. CoresHeld' = [CoresHeld EXCEPT ![c] = CoresHeld[c] + cores]
    <3>1. CoresHeld[c] + cores = cores
      BY <1>2 DEF CoresHeld, CoresOf
    <3>2. \A x \in Holder :
            (IF x \in Comp THEN CoresOf(x)' ELSE allocations'[x].cores)
              = IF x = c THEN cores ELSE CoresHeld[x]
      BY <1>8 DEF CoresHeld, CoresOf, State, Holder
    <3>3. CoresHeld' = [x \in Holder |-> IF x = c THEN cores ELSE CoresHeld[x]]
      BY <3>2 DEF CoresHeld, Holder
    <3>4. DOMAIN CoresHeld = Holder
      BY DEF CoresHeld, Holder
    <3> QED BY <3>1, <3>3, <3>4
  <2>2. Conserved(coresFree, CoresHeld, CoresTotal) /\ c \in Holder
    BY DEF MachineSound, ResourcesConserved, Holder
  <2> QED BY <1>1, <1>2, <1>6, <2>1, <2>2, TakeConserves
<1>12. Conserved(memoryFree', MemoryHeld', MemoryTotal)
  <2>1. MemoryHeld' = [MemoryHeld EXCEPT ![c] = MemoryHeld[c] + CompMemory[c]]
    <3>1. MemoryHeld[c] + CompMemory[c] = CompMemory[c]
      BY <1>1 DEF MemoryHeld, MemoryOf
    <3>2. \A x \in Holder :
            (IF x \in Comp THEN MemoryOf(x)' ELSE allocations'[x].memory)
              = IF x = c THEN CompMemory[c] ELSE MemoryHeld[x]
      BY <1>8 DEF MemoryHeld, MemoryOf, State, Holder
    <3>3. MemoryHeld' = [x \in Holder |-> IF x = c THEN CompMemory[c] ELSE MemoryHeld[x]]
      BY <3>2 DEF MemoryHeld, Holder
    <3>4. DOMAIN MemoryHeld = Holder
      BY DEF MemoryHeld, Holder
    <3> QED BY <3>1, <3>3, <3>4
  <2>2. Conserved(memoryFree, MemoryHeld, MemoryTotal) /\ c \in Holder
    BY DEF MachineSound, ResourcesConserved, Holder
  <2> QED BY <1>1, <1>6, <2>1, <2>2, TakeConserves
<1>13. coresFree' \in Nat /\ memoryFree' \in Nat
  BY <1>1, <1>2, <1>6
<1> QED
  BY <1>5, <1>8, <1>9, <1>10, <1>11, <1>12, <1>13 DEF MachineSound, ResourcesConserved

(* A computation that stops gives back what it holds, and the completion   *)
(* is not due any more (multicore.rs, stop_computation and CompFinished).  *)
LEMMA StopIsSound ==
  ASSUME MachineSound, NEW c \in Comp, NEW entry \in Entry,
         entry.state # "Running", entry.flopsDone < Flops[c], GiveBack(c),
         computations' = [computations EXCEPT ![c] = entry],
         finishIn' = [finishIn EXCEPT ![c] = Never],
         UNCHANGED allocations
  PROVE  /\ MachineSound'
         /\ \A d \in Comp \ {c} : /\ computations'[d] = computations[d]
                                  /\ finishIn'[d] = finishIn[d]
<1>1. /\ coresFree \in Nat /\ memoryFree \in Nat /\ CoresTotal \in Nat /\ MemoryTotal \in Nat
      /\ CoresOf(c) \in Nat /\ MemoryOf(c) \in Nat
  BY MulticoreAssumption DEF MachineSound, CoresOf, MemoryOf, Entry
<1>2. /\ computations' \in [Comp -> Entry] /\ computations'[c] = entry
      /\ finishIn' \in [Comp -> Nat \cup {Never}] /\ finishIn'[c] = Never
      /\ \A d \in Comp \ {c} : computations'[d] = computations[d] /\ finishIn'[d] = finishIn[d]
  BY DEF MachineSound
<1>3. \A d \in Comp : State(d)' = "Running" => computations'[d].cores \in 1..CoresTotal
  BY <1>2 DEF MachineSound, State
<1>4. CompletionOnTime'
  BY <1>2 DEF MachineSound, CompletionOnTime, DoneSoFar, State
<1>5. Conserved(coresFree', CoresHeld', CoresTotal)
  <2>1. CoresHeld' = [CoresHeld EXCEPT ![c] = CoresHeld[c] - CoresOf(c)]
    <3>1. CoresHeld[c] - CoresOf(c) = 0
      BY <1>1 DEF CoresHeld
    <3>2. \A x \in Holder :
            (IF x \in Comp THEN CoresOf(x)' ELSE allocations'[x].cores)
              = IF x = c THEN 0 ELSE CoresHeld[x]
      BY <1>2 DEF CoresHeld, CoresOf, State, Holder
    <3>3. CoresHeld' = [x \in Holder |-> IF x = c THEN 0 ELSE CoresHeld[x]]
      BY <3>2 DEF CoresHeld, Holder
    <3>4. DOMAIN CoresHeld = Holder
      BY DEF CoresHeld, Holder
    <3> QED BY <3>1, <3>3, <3>4
  <2>2. Conserved(coresFree, CoresHeld, CoresTotal) /\ c \in Holder
    BY DEF MachineSound, ResourcesConserved, Holder
  <2>3. CoresOf(c) <= CoresHeld[c] /\ coresFree' = coresFree + CoresOf(c)
    BY <1>1 DEF CoresHeld, GiveBack
  <2> QED BY <1>1, <2>1, <2>2, <2>3, GiveConserves
<1>6. Conserved(memoryFree', MemoryHeld', MemoryTotal)
  <2>1. MemoryHeld' = [MemoryHeld EXCEPT ![c] = MemoryHeld[c] - MemoryOf(c)]
    <3>1. MemoryHeld[c] - MemoryOf(c) = 0
      BY <1>1 DEF MemoryHeld
    <3>2. \A x \in Holder :
            (IF x \in Comp THEN MemoryOf(x)' ELSE allocations'[x].memory)
              = IF x = c THEN 0 ELSE MemoryHeld[x]
      BY <1>2 DEF MemoryHeld, MemoryOf, State, Holder
    <3>3. MemoryHeld' = [x \in Holder |-> IF x = c THEN 0 ELSE MemoryHeld[x]]
      BY <3>2 DEF MemoryHeld, Holder
    <3>4. DOMAIN MemoryHeld = Holder
      BY DEF MemoryHeld, Holder
    <3> QED BY <3>1, <3>3, <3>4
  <2>2. Conserved(memoryFree, MemoryHeld, MemoryTotal) /\ c \in Holder
    BY DEF MachineSound, ResourcesConserved, Holder
  <2>3. MemoryOf(c) <= MemoryHeld[c] /\ memoryFree' = memoryFree + MemoryOf(c)
    BY <1>1 DEF MemoryHeld, GiveBack
  <2> QED BY <1>1, <2>1, <2>2, <2>3, GiveConserves
<1>7. coresFree' \in Nat /\ memoryFree' \in Nat
  BY <1>1 DEF GiveBack
<1>8. allocations' \in [Owner -> [cores : Nat, memory : Nat]]
  BY DEF MachineSound
<1> QED
  BY <1>2, <1>3, <1>4, <1>5, <1>6, <1>7, <1>8 DEF MachineSound, ResourcesConserved

(* Taking a from what is available, and adding it to what owner o holds.   *)
LEMMA AllocationIsSound ==
  ASSUME MachineSound, NEW o \in Owner, NEW a \in Allocation,
         a.memory <= memoryFree, a.cores <= coresFree,
         allocations' = [allocations EXCEPT ![o] =
           [cores |-> @.cores + a.cores, memory |-> @.memory + a.memory]],
         coresFree' = coresFree - a.cores, memoryFree' = memoryFree - a.memory,
         UNCHANGED <<computations, finishIn>>
  PROVE  MachineSound'
<1>1. /\ coresFree \in Nat /\ memoryFree \in Nat /\ CoresTotal \in Nat /\ MemoryTotal \in Nat
      /\ a.cores \in Nat /\ a.memory \in Nat
      /\ o \notin Comp /\ o \in Holder
  BY MulticoreAssumption DEF MachineSound, Holder
<1>2. /\ allocations' \in [Owner -> [cores : Nat, memory : Nat]]
      /\ allocations'[o].cores = allocations[o].cores + a.cores
      /\ allocations'[o].memory = allocations[o].memory + a.memory
      /\ \A p \in Owner \ {o} : allocations'[p] = allocations[p]
  BY <1>1 DEF MachineSound
<1>3. CompletionOnTime'
  BY DEF MachineSound, CompletionOnTime, DoneSoFar, State
<1>4. Conserved(coresFree', CoresHeld', CoresTotal)
  <2>1. CoresHeld' = [CoresHeld EXCEPT ![o] = CoresHeld[o] + a.cores]
    <3>1. CoresHeld[o] = allocations[o].cores
      BY <1>1 DEF CoresHeld
    <3>2. \A x \in Holder :
            (IF x \in Comp THEN CoresOf(x)' ELSE allocations'[x].cores)
              = IF x = o THEN CoresHeld[o] + a.cores ELSE CoresHeld[x]
      BY <1>1, <1>2, <3>1 DEF CoresHeld, CoresOf, State, Holder
    <3>3. CoresHeld' = [x \in Holder |->
                          IF x = o THEN CoresHeld[o] + a.cores ELSE CoresHeld[x]]
      BY <3>2 DEF CoresHeld, Holder
    <3>4. DOMAIN CoresHeld = Holder
      BY DEF CoresHeld, Holder
    <3> QED BY <3>3, <3>4
  <2>2. Conserved(coresFree, CoresHeld, CoresTotal)
    BY DEF MachineSound, ResourcesConserved
  <2> QED BY <1>1, <2>1, <2>2, TakeConserves
<1>5. Conserved(memoryFree', MemoryHeld', MemoryTotal)
  <2>1. MemoryHeld' = [MemoryHeld EXCEPT ![o] = MemoryHeld[o] + a.memory]
    <3>1. MemoryHeld[o] = allocations[o].memory
      BY <1>1 DEF MemoryHeld
    <3>2. \A x \in Holder :
            (IF x \in Comp THEN MemoryOf(x)' ELSE allocations'[x].memory)
              = IF x = o THEN MemoryHeld[o] + a.memory ELSE MemoryHeld[x]
      BY <1>1, <1>2, <3>1 DEF MemoryHeld, MemoryOf, State, Holder
    <3>3. MemoryHeld' = [x \in Holder |->
                          IF x = o THEN MemoryHeld[o] + a.memory ELSE MemoryHeld[x]]
      BY <3>2 DEF MemoryHeld, Holder
    <3>4. DOMAIN MemoryHeld = Holder
      BY DEF MemoryHeld, Holder
    <3> QED BY <3>3, <3>4
  <2>2. Conserved(memoryFree, MemoryHeld, MemoryTotal)
    BY DEF MachineSound, ResourcesConserved
  <2> QED BY <1>1, <2>1, <2>2, TakeConserves
<1>6. coresFree' \in Nat /\ memoryFree' \in Nat
  BY <1>1
<1> QED
  BY <1>2, <1>3, <1>4, <1>5, <1>6 DEF MachineSound, ResourcesConserved, State

(* Taking a from what owner o holds, and adding it to what is available.   *)
LEMMA DeallocationIsSound ==
  ASSUME MachineSound, NEW o \in Owner, NEW a \in Allocation,
         Suffices(allocations[o], a),
         allocations' = [allocations EXCEPT ![o] =
           [cores |-> @.cores - a.cores, memory |-> @.memory - a.memory]],
         coresFree' = coresFree + a.cores, memoryFree' = memoryFree + a.memory,
         UNCHANGED <<computations, finishIn>>
  PROVE  MachineSound'
<1>1. /\ coresFree \in Nat /\ memoryFree \in Nat /\ CoresTotal \in Nat /\ MemoryTotal \in Nat
      /\ a.cores \in Nat /\ a.memory \in Nat
      /\ o \notin Comp /\ o \in Holder
  BY MulticoreAssumption DEF MachineSound, Holder
<1>2. /\ allocations' \in [Owner -> [cores : Nat, memory : Nat]]
      /\ allocations'[o].cores = allocations[o].cores - a.cores
      /\ allocations'[o].memory = allocations[o].memory - a.memory
      /\ \A p \in Owner \ {o} : allocations'[p] = allocations[p]
  BY <1>1 DEF MachineSound, Suffices
<1>3. CompletionOnTime'
  BY DEF MachineSound, CompletionOnTime, DoneSoFar, State
<1>4. Conserved(coresFree', CoresHeld', CoresTotal)
  <2>1. CoresHeld' = [CoresHeld EXCEPT ![o] = CoresHeld[o] - a.cores]
    <3>1. CoresHeld[o] = allocations[o].cores
      BY <1>1 DEF CoresHeld
    <3>2. \A x \in Holder :
            (IF x \in Comp THEN CoresOf(x)' ELSE allocations'[x].cores)
              = IF x = o THEN CoresHeld[o] - a.cores ELSE CoresHeld[x]
      BY <1>1, <1>2, <3>1 DEF CoresHeld, CoresOf, State, Holder
    <3>3. CoresHeld' = [x \in Holder |->
                          IF x = o THEN CoresHeld[o] - a.cores ELSE CoresHeld[x]]
      BY <3>2 DEF CoresHeld, Holder
    <3>4. DOMAIN CoresHeld = Holder
      BY DEF CoresHeld, Holder
    <3> QED BY <3>3, <3>4
  <2>2. Conserved(coresFree, CoresHeld, CoresTotal)
    BY DEF MachineSound, ResourcesConserved
  <2>3. a.cores <= CoresHeld[o]
    BY <1>1 DEF CoresHeld, MemoryHeld, Suffices
  <2> QED BY <1>1, <2>1, <2>2, <2>3, GiveConserves
<1>5. Conserved(memoryFree', MemoryHeld', MemoryTotal)
  <2>1. MemoryHeld' = [MemoryHeld EXCEPT ![o] = MemoryHeld[o] - a.memory]
    <3>1. MemoryHeld[o] = allocations[o].memory
      BY <1>1 DEF MemoryHeld
    <3>2. \A x \in Holder :
            (IF x \in Comp THEN MemoryOf(x)' ELSE allocations'[x].memory)
              = IF x = o THEN MemoryHeld[o] - a.memory ELSE MemoryHeld[x]
      BY <1>1, <1>2, <3>1 DEF MemoryHeld, MemoryOf, State, Holder
    <3>3. MemoryHeld' = [x \in Holder |->
                          IF x = o THEN MemoryHeld[o] - a.memory ELSE MemoryHeld[x]]
      BY <3>2 DEF MemoryHeld, Holder
    <3>4. DOMAIN MemoryHeld = Holder
      BY DEF MemoryHeld, Holder
    <3> QED BY <3>3, <3>4
  <2>2. Conserved(memoryFree, MemoryHeld, MemoryTotal)
    BY DEF MachineSound, ResourcesConserved
  <2>3. a.memory <= MemoryHeld[o]
    BY <1>1 DEF CoresHeld, MemoryHeld, Suffices
  <2> QED BY <1>1, <2>1, <2>2, <2>3, GiveConserves
<1>6. coresFree' \in Nat /\ memoryFree' \in Nat
  BY <1>1
<1> QED
  BY <1>2, <1>3, <1>4, <1>5, <1>6 DEF MachineSound, ResourcesConserved, State

(* Time passing: the work done and the time left change together           *)
(* (multicore.rs, start_time and compute_time).                            *)
LEMMA TickIsSound ==
  ASSUME MachineSound, Tick
  PROVE  MachineSound'
<1>1. \A c \in Comp : /\ State(c)' = State(c)
                      /\ computations'[c].cores = computations[c].cores
                      /\ computations'[c].flopsDone = computations[c].flopsDone
                      /\ State(c) = "Running" => computations'[c].ran = computations[c].ran + 1
  BY DEF Tick, State, MachineSound, Entry
<1>2. \A c \in Comp : finishIn'[c] = IF finishIn[c] = Never THEN Never ELSE finishIn[c] - 1
  BY DEF Tick
<1>3. computations' \in [Comp -> Entry]
  BY DEF Tick, MachineSound, Entry
<1>4. finishIn' \in [Comp -> Nat \cup {Never}]
  <2>1. \A c \in Comp : finishIn[c] \in Nat \cup {Never} /\ finishIn[c] # 0
    BY DEF Tick, NothingDue, MachineSound
  <2>2. \A c \in Comp :
          (IF finishIn[c] = Never THEN Never ELSE finishIn[c] - 1) \in Nat \cup {Never}
    BY <2>1 DEF Never
  <2> QED BY <2>2 DEF Tick
<1>5. CompletionOnTime'
  <2> SUFFICES ASSUME NEW c \in Comp
               PROVE  IF State(c)' = "Running"
                      THEN /\ finishIn'[c] # Never
                           /\ (DoneSoFar(c)' + finishIn'[c] * Speedup[c][computations'[c].cores])
                                - Speedup[c][computations'[c].cores] < Flops[c]
                           /\ Flops[c] <= DoneSoFar(c)'
                                + finishIn'[c] * Speedup[c][computations'[c].cores]
                      ELSE finishIn'[c] = Never /\ computations'[c].flopsDone < Flops[c]
    BY DEF CompletionOnTime
  <2>1. CASE State(c) # "Running"
    BY <1>1, <1>2, <2>1 DEF MachineSound, CompletionOnTime
  <2>2. CASE State(c) = "Running"
    <3> DEFINE speed == Speedup[c][computations[c].cores]
    <3> DEFINE left == finishIn[c]
    <3> DEFINE ran == computations[c].ran
    <3> DEFINE done == computations[c].flopsDone
    <3>1. left \in Nat \ {0} /\ ran \in Nat /\ done \in Nat
      BY <2>2 DEF MachineSound, CompletionOnTime, Entry, Tick, NothingDue
    <3>2. speed \in Nat
      BY <2>2, MulticoreAssumption DEF MachineSound
    <3>3. (ran + 1) * speed + (left - 1) * speed = ran * speed + left * speed
      <4> HIDE DEF ran, speed, left
      <4>1. (ran + 1) * speed = ran * speed + speed /\ ran * speed \in Int
        BY <3>1, <3>2
      <4>2. (left - 1) * speed = left * speed - speed /\ left * speed \in Int
        BY <3>1, <3>2
      <4> QED BY <3>2, <4>1, <4>2
    <3>4. DoneSoFar(c)' = done + (ran + 1) * speed
      BY <1>1, <2>2 DEF DoneSoFar, State
    <3>5. DoneSoFar(c) = done + ran * speed
      BY <2>2 DEF DoneSoFar
    <3>6. ((done + ran * speed) + left * speed) - speed < Flops[c]
             /\ Flops[c] <= (done + ran * speed) + left * speed
      BY <2>2, <3>5 DEF MachineSound, CompletionOnTime
    <3>7. finishIn'[c] = left - 1 /\ Speedup[c][computations'[c].cores] = speed
      BY <1>1, <1>2, <3>1 DEF Never
    <3>8. /\ ran * speed \in Int /\ left * speed \in Int
          /\ (ran + 1) * speed \in Int /\ (left - 1) * speed \in Int
      <4> HIDE DEF ran, speed, left
      <4> QED BY <3>1, <3>2
    <3>9. (done + (ran + 1) * speed) + (left - 1) * speed
             = (done + ran * speed) + left * speed
      <4> HIDE DEF ran, speed, left, done
      <4> QED BY <3>1, <3>3, <3>8
    <3>10. finishIn'[c] # Never
      BY <3>1, <3>7 DEF Never
    <3> QED BY <1>1, <2>2, <3>4, <3>6, <3>7, <3>9, <3>10
  <2> QED BY <2>1, <2>2
<1>6. CoresHeld' = CoresHeld
  <2>1. \A x \in Holder :
          (IF x \in Comp THEN CoresOf(x)' ELSE allocations'[x].cores)
            = IF x \in Comp THEN CoresOf(x) ELSE allocations[x].cores
    BY <1>1 DEF CoresOf, State, Tick
  <2> QED BY <2>1 DEF CoresHeld, Holder
<1>7. MemoryHeld' = MemoryHeld
  <2>1. \A x \in Holder :
          (IF x \in Comp THEN MemoryOf(x)' ELSE allocations'[x].memory)
            = IF x \in Comp THEN MemoryOf(x) ELSE allocations[x].memory
    BY <1>1 DEF MemoryOf, State, Tick
  <2> QED BY <2>1 DEF MemoryHeld, Holder
<1>8. UNCHANGED <<coresFree, memoryFree, allocations>>
  BY DEF Tick, resourceVars
<1>9. ResourcesConserved'
  BY <1>6, <1>7, <1>8 DEF MachineSound, ResourcesConserved, Conserved
<1>10. \A c \in Comp : State(c)' = "Running" => computations'[c].cores \in 1..CoresTotal
  BY <1>1 DEF MachineSound
<1> QED
  BY <1>3, <1>4, <1>5, <1>8, <1>9, <1>10 DEF MachineSound

-----------------------------------------------------------------------------
(* The conversation between the machine and the requesters. *)

MailTypeOK ==
    /\ commands \in [Comp -> [Command -> Nat]]
    /\ notices \in [Comp -> [Notice -> Nat]]
    /\ allocationCalls \in [Owner -> [AllocationCall -> [Allocation -> Nat]]]
    /\ view \in [Comp -> View]

ComputeInv == MachineSound /\ MailTypeOK /\ panicked \in BOOLEAN /\ NoPanic /\ Conversation

(* What happens to one computation leaves the conversations about others   *)
(* alone (multicore.rs, all handlers look up one id).                      *)
LEMMA OthersGoOn ==
  ASSUME NEW c, Conversation, InConversation(c)',
         \A d \in Comp \ {c} :
           /\ commands'[d] = commands[d] /\ notices'[d] = notices[d]
           /\ view'[d] = view[d] /\ computations'[d] = computations[d]
           /\ finishIn'[d] = finishIn[d]
  PROVE  Conversation'
<1> SUFFICES ASSUME NEW d \in Comp PROVE InConversation(d)'
  BY DEF Conversation
<1>1. CASE d = c
  BY <1>1
<1>2. CASE d # c
  <2>1. InConversation(d)
    BY DEF Conversation
  <2> QED BY <1>2, <2>1 DEF InConversation, Settled, Commanded, Answered, Finished,
                            Sent, Told, State
<1> QED BY <1>1, <1>2

(* Taking one command out and putting one answer in.                       *)
LEMMA HandledAndAnswered ==
  ASSUME MailTypeOK, NEW c \in Comp, NEW type \in Command, NEW answer \in Notice,
         Sent(c, {type}), Told(c, {}),
         commands' = [commands EXCEPT ![c][type] = @ - 1],
         Notify(c, answer), UNCHANGED <<allocationCalls, view>>
  PROVE  /\ Sent(c, {})' /\ Told(c, {answer})' /\ MailTypeOK'
         /\ \A d \in Comp \ {c} : commands'[d] = commands[d] /\ notices'[d] = notices[d]
<1>1. commands[c][type] = 1 /\ notices[c][answer] = 0
  BY DEF Sent, Told
<1>2. commands' \in [Comp -> [Command -> Nat]]
  BY <1>1 DEF MailTypeOK
<1>3. notices' \in [Comp -> [Notice -> Nat]]
  BY <1>1 DEF MailTypeOK, Notify
<1>4. \A t \in Command : commands'[c][t] = IF t = type THEN 0 ELSE commands[c][t]
  BY <1>1 DEF MailTypeOK
<1>5. \A t \in Notice : notices'[c][t] = IF t = answer THEN 1 ELSE notices[c][t]
  BY <1>1 DEF MailTypeOK, Notify
<1>6. Sent(c, {})' /\ Told(c, {answer})'
  BY <1>4, <1>5 DEF Sent, Told
<1>7. \A d \in Comp \ {c} : commands'[d] = commands[d] /\ notices'[d] = notices[d]
  BY DEF MailTypeOK, Notify
<1> QED BY <1>2, <1>3, <1>6, <1>7 DEF MailTypeOK

(* Taking one command out without an answer.                               *)
LEMMA HandledSilently ==
  ASSUME MailTypeOK, NEW c \in Comp, NEW type \in Command, Sent(c, {type}),
         commands' = [commands EXCEPT ![c][type] = @ - 1],
         UNCHANGED <<notices, allocationCalls, view>>
  PROVE  /\ Sent(c, {})' /\ MailTypeOK'
         /\ \A d \in Comp \ {c} : commands'[d] = commands[d]
<1>1. commands[c][type] = 1
  BY DEF Sent
<1>2. commands' \in [Comp -> [Command -> Nat]]
  BY <1>1 DEF MailTypeOK
<1>3. \A t \in Command : commands'[c][t] = IF t = type THEN 0 ELSE commands[c][t]
  BY <1>1 DEF MailTypeOK
<1>4. \A d \in Comp \ {c} : commands'[d] = commands[d]
  BY DEF MailTypeOK
<1> QED BY <1>2, <1>3, <1>4 DEF MailTypeOK, Sent

(* A step that leaves the machine alone leaves it sound. *)
LEMMA MachineUntouched ==
  ASSUME MachineSound, UNCHANGED <<resourceVars, computations, finishIn, allocations>>
  PROVE  MachineSound'
BY DEF MachineSound, resourceVars, CompletionOnTime, DoneSoFar, State, ResourcesConserved,
       Conserved, CoresHeld, MemoryHeld, CoresOf, MemoryOf

(* A request is only on its way for a computation that was never started   *)
(* (multicore.rs, CompRequest).                                            *)
LEMMA RequestHandled ==
  ASSUME ComputeInv, NEW c \in Comp, OnCompRequest(c), UNCHANGED view
  PROVE  ComputeInv'
<1>1. commands[c]["CompRequest"] > 0
  BY DEF OnCompRequest, Receive
<1>2. /\ view[c] = "asked" /\ State(c) = "none"
      /\ Sent(c, {"CompRequest"}) /\ Told(c, {})
  BY <1>1 DEF ComputeInv, Conversation, InConversation, Settled, Commanded, Answered,
              Finished, Sent, Command
<1>3. CASE ~ Enough(c)
  <2>1. /\ Notify(c, "CompFailed") /\ UNCHANGED <<allocationCalls, view>>
        /\ commands' = [commands EXCEPT ![c]["CompRequest"] = @ - 1]
        /\ UNCHANGED <<resourceVars, computations, finishIn, allocations, panicked>>
    BY <1>3 DEF OnCompRequest, Receive
  <2>2. /\ Sent(c, {})' /\ Told(c, {"CompFailed"})' /\ MailTypeOK'
        /\ \A d \in Comp \ {c} : commands'[d] = commands[d] /\ notices'[d] = notices[d]
    BY <1>2, <2>1, HandledAndAnswered DEF ComputeInv, Command, Notice
  <2>3. MachineSound'
    BY <2>1, MachineUntouched DEF ComputeInv
  <2>4. InConversation(c)'
    BY <1>2, <2>1, <2>2 DEF InConversation, Answered, State
  <2>5. Conversation'
    BY <2>1, <2>2, <2>4, OthersGoOn DEF ComputeInv
  <2> QED BY <2>1, <2>2, <2>3, <2>5 DEF ComputeInv, NoPanic
<1>4. CASE Enough(c)
  <2>1. /\ Notify(c, "CompStarted") /\ UNCHANGED <<allocationCalls, view>>
        /\ commands' = [commands EXCEPT ![c]["CompRequest"] = @ - 1]
        /\ Launch(c, 0) /\ UNCHANGED <<allocations, panicked>>
    BY <1>4 DEF OnCompRequest, Receive
  <2>2. /\ Sent(c, {})' /\ Told(c, {"CompStarted"})' /\ MailTypeOK'
        /\ \A d \in Comp \ {c} : commands'[d] = commands[d] /\ notices'[d] = notices[d]
    BY <1>2, <2>1, HandledAndAnswered DEF ComputeInv, Command, Notice
  <2>3. 0 < Flops[c]
    BY MulticoreAssumption
  <2>4. /\ MachineSound'
        /\ computations'[c].state = "Running" /\ finishIn'[c] # 0
        /\ \A d \in Comp \ {c} : computations'[d] = computations[d] /\ finishIn'[d] = finishIn[d]
    BY <1>2, <1>4, <2>1, <2>3, LaunchIsSound DEF ComputeInv
  <2>5. InConversation(c)'
    BY <1>2, <2>1, <2>2, <2>4 DEF InConversation, Answered, State
  <2>6. Conversation'
    BY <2>1, <2>2, <2>4, <2>5, OthersGoOn DEF ComputeInv
  <2> QED BY <2>1, <2>2, <2>4, <2>6 DEF ComputeInv, NoPanic
<1> QED BY <1>3, <1>4

(* A command to resume only arrives at a preempted computation             *)
(* (multicore.rs, ResumeComp and its panics).                              *)
LEMMA ResumeHandled ==
  ASSUME ComputeInv, NEW c \in Comp, OnResumeComp(c), UNCHANGED view
  PROVE  ComputeInv'
<1>1. commands[c]["ResumeComp"] > 0
  BY DEF OnResumeComp, Receive
<1>2. /\ view[c] = "resuming" /\ State(c) = "Preempted"
      /\ Sent(c, {"ResumeComp"}) /\ Told(c, {})
  BY <1>1 DEF ComputeInv, Conversation, InConversation, Settled, Commanded, Answered,
              Finished, Sent, Command
<1>3. CASE ~ Enough(c)
  <2>1. /\ Notify(c, "CompFailed") /\ UNCHANGED <<allocationCalls, view>>
        /\ commands' = [commands EXCEPT ![c]["ResumeComp"] = @ - 1]
        /\ UNCHANGED <<resourceVars, computations, finishIn, allocations, panicked>>
    BY <1>2, <1>3 DEF OnResumeComp, Receive
  <2>2. /\ Sent(c, {})' /\ Told(c, {"CompFailed"})' /\ MailTypeOK'
        /\ \A d \in Comp \ {c} : commands'[d] = commands[d] /\ notices'[d] = notices[d]
    BY <1>2, <2>1, HandledAndAnswered DEF ComputeInv, Command, Notice
  <2>3. MachineSound'
    BY <2>1, MachineUntouched DEF ComputeInv
  <2>4. InConversation(c)'
    BY <1>2, <2>1, <2>2 DEF InConversation, Answered, State
  <2>5. Conversation'
    BY <2>1, <2>2, <2>4, OthersGoOn DEF ComputeInv
  <2> QED BY <2>1, <2>2, <2>3, <2>5 DEF ComputeInv, NoPanic
<1>4. CASE Enough(c)
  <2>1. /\ Notify(c, "CompResumed") /\ UNCHANGED <<allocationCalls, view>>
        /\ commands' = [commands EXCEPT ![c]["ResumeComp"] = @ - 1]
        /\ Launch(c, computations[c].flopsDone) /\ UNCHANGED <<allocations, panicked>>
    BY <1>2, <1>4 DEF OnResumeComp, Receive
  <2>2. /\ Sent(c, {})' /\ Told(c, {"CompResumed"})' /\ MailTypeOK'
        /\ \A d \in Comp \ {c} : commands'[d] = commands[d] /\ notices'[d] = notices[d]
    BY <1>2, <2>1, HandledAndAnswered DEF ComputeInv, Command, Notice
  <2>3. computations[c].flopsDone \in Nat /\ computations[c].flopsDone < Flops[c]
    BY <1>2 DEF ComputeInv, MachineSound, CompletionOnTime, Entry
  <2>4. /\ MachineSound'
        /\ computations'[c].state = "Running" /\ finishIn'[c] # 0
        /\ \A d \in Comp \ {c} : computations'[d] = computations[d] /\ finishIn'[d] = finishIn[d]
    BY <1>2, <1>4, <2>1, <2>3, LaunchIsSound DEF ComputeInv
  <2>5. InConversation(c)'
    BY <1>2, <2>1, <2>2, <2>4 DEF InConversation, Answered, State
  <2>6. Conversation'
    BY <2>1, <2>2, <2>4, <2>5, OthersGoOn DEF ComputeInv
  <2> QED BY <2>1, <2>2, <2>4, <2>6 DEF ComputeInv, NoPanic
<1> QED BY <1>3, <1>4

(* A command that arrives at a computation that is gone changes nothing:   *)
(* its completion was announced (multicore.rs, stop_computation).          *)
LEMMA LateCommandHandled ==
  ASSUME ComputeInv, NEW c \in Comp, NEW type \in {"PreemptComp", "CancelComp"},
         Receive(c, type), StopNothing(c),
         UNCHANGED <<allocations, allocationCalls, view>>
  PROVE  ComputeInv'
<1>1. commands[c][type] > 0
  BY DEF Receive
<1>2. /\ Sent(c, {type})
      /\ \/ view[c] = "over" /\ Told(c, {})
         \/ /\ view[c] = IF type = "PreemptComp" THEN "preempting" ELSE "cancelling"
            /\ Told(c, {"CompFinished"})
  BY <1>1 DEF ComputeInv, Conversation, InConversation, Settled, Commanded, Answered,
              Finished, Sent, Command, StopNothing
<1>3. /\ commands' = [commands EXCEPT ![c][type] = @ - 1]
      /\ UNCHANGED <<resourceVars, computations, finishIn, notices, panicked>>
  BY DEF Receive, StopNothing
<1>4. /\ Sent(c, {})' /\ MailTypeOK'
      /\ \A d \in Comp \ {c} : commands'[d] = commands[d]
  BY <1>2, <1>3, HandledSilently DEF ComputeInv, Command
<1>5. MachineSound'
  BY <1>3, MachineUntouched DEF ComputeInv
<1>6. InConversation(c)'
  BY <1>2, <1>3, <1>4 DEF InConversation, Settled, Finished, State, StopNothing, Told
<1>7. Conversation'
  BY <1>3, <1>4, <1>6, OthersGoOn DEF ComputeInv
<1> QED BY <1>3, <1>4, <1>5, <1>7 DEF ComputeInv, NoPanic

(* Work remains of a computation that is stopped: what is due has already  *)
(* been handled (multicore.rs, stop_computation).                          *)
LEMMA WorkRemains ==
  ASSUME MachineSound, NothingDue, NEW c \in Comp, State(c) = "Running"
  PROVE  DoneSoFar(c) \in Nat /\ DoneSoFar(c) < Flops[c]
<1> DEFINE speed == Speedup[c][computations[c].cores]
<1> DEFINE left == finishIn[c]
<1>1. left \in Nat \ {0}
  BY DEF MachineSound, CompletionOnTime, NothingDue
<1>2. speed \in Nat
  BY MulticoreAssumption DEF MachineSound
<1>3. DoneSoFar(c) \in Nat
  <2>1. DoneSoFar(c) = computations[c].flopsDone + computations[c].ran * speed
    BY DEF DoneSoFar
  <2>2. computations[c].flopsDone \in Nat /\ computations[c].ran \in Nat
    BY DEF MachineSound, Entry
  <2> HIDE DEF speed
  <2> QED BY <1>2, <2>1, <2>2
<1>4. (DoneSoFar(c) + left * speed) - speed < Flops[c]
  BY DEF MachineSound, CompletionOnTime
<1>5. Flops[c] \in Nat
  BY MulticoreAssumption
<1> HIDE DEF speed, left
<1>6. left * speed = (left - 1) * speed + speed /\ (left - 1) * speed \in Nat
  BY <1>1, <1>2
<1> QED BY <1>2, <1>3, <1>4, <1>5, <1>6

(* Preempting (multicore.rs, stop_computation).                            *)
LEMMA PreemptHandled ==
  ASSUME ComputeInv, NEW c \in Comp, OnPreemptComp(c), UNCHANGED view
  PROVE  ComputeInv'
<1>1. CASE State(c) = "none"
  BY <1>1, LateCommandHandled DEF OnPreemptComp, StopNothing
<1>2. CASE State(c) # "none"
  <2>1. commands[c]["PreemptComp"] > 0
    BY DEF OnPreemptComp, Receive
  <2>2. /\ view[c] = "preempting" /\ State(c) = "Running"
        /\ Sent(c, {"PreemptComp"}) /\ Told(c, {})
    BY <1>2, <2>1 DEF ComputeInv, Conversation, InConversation, Settled, Commanded,
                      Answered, Finished, Sent, Command
  <2>3. /\ Preempt(c) /\ Notify(c, "CompPreempted")
        /\ commands' = [commands EXCEPT ![c]["PreemptComp"] = @ - 1]
        /\ UNCHANGED <<allocations, allocationCalls, panicked, view>>
    BY <2>2 DEF OnPreemptComp, Receive, StopNothing
  <2>4. /\ Sent(c, {})' /\ Told(c, {"CompPreempted"})' /\ MailTypeOK'
        /\ \A d \in Comp \ {c} : commands'[d] = commands[d] /\ notices'[d] = notices[d]
    BY <2>2, <2>3, HandledAndAnswered DEF ComputeInv, Command, Notice
  <2> DEFINE entry == [state |-> "Preempted", cores |-> computations[c].cores,
                       flopsDone |-> DoneSoFar(c), ran |-> 0]
  <2>5. DoneSoFar(c) \in Nat /\ DoneSoFar(c) < Flops[c]
    BY <2>2, WorkRemains DEF ComputeInv, OnPreemptComp
  <2>6. entry \in Entry
    BY <2>5 DEF ComputeInv, MachineSound, Entry, ComputationState
  <2>7. /\ GiveBack(c) /\ computations' = [computations EXCEPT ![c] = entry]
        /\ finishIn' = [finishIn EXCEPT ![c] = Never]
    BY <2>3 DEF Preempt
  <2>8. entry.state = "Preempted" /\ entry.flopsDone < Flops[c]
    BY <2>5
  <2> HIDE DEF entry
  <2>9. /\ MachineSound'
        /\ \A d \in Comp \ {c} : computations'[d] = computations[d] /\ finishIn'[d] = finishIn[d]
    BY <2>3, <2>6, <2>7, <2>8, StopIsSound DEF ComputeInv
  <2>10. State(c)' = "Preempted"
    BY <2>7, <2>8 DEF State, ComputeInv, MachineSound
  <2>11. InConversation(c)'
    BY <2>2, <2>3, <2>4, <2>10 DEF InConversation, Answered
  <2>12. Conversation'
    BY <2>3, <2>4, <2>9, <2>11, OthersGoOn DEF ComputeInv
  <2> QED BY <2>3, <2>4, <2>9, <2>12 DEF ComputeInv, NoPanic
<1> QED BY <1>1, <1>2

(* Cancelling (multicore.rs, stop_computation).                            *)
LEMMA CancelHandled ==
  ASSUME ComputeInv, NEW c \in Comp, OnCancelComp(c), UNCHANGED view
  PROVE  ComputeInv'
<1>1. CASE State(c) = "none"
  BY <1>1, LateCommandHandled DEF OnCancelComp, StopNothing, Cancel
<1>2. CASE State(c) # "none"
  <2>1. commands[c]["CancelComp"] > 0
    BY DEF OnCancelComp, Receive
  <2>2. view[c] = "cancelling" /\ Sent(c, {"CancelComp"}) /\ Told(c, {})
    BY <1>2, <2>1 DEF ComputeInv, Conversation, InConversation, Settled, Commanded,
                      Answered, Finished, Sent, Command
  <2>3. /\ Cancel(c) /\ Notify(c, "CompCancelled")
        /\ commands' = [commands EXCEPT ![c]["CancelComp"] = @ - 1]
        /\ UNCHANGED <<allocations, allocationCalls, panicked, view>>
    BY <1>2 DEF OnCancelComp, Receive, StopNothing, Cancel
  <2>4. /\ Sent(c, {})' /\ Told(c, {"CompCancelled"})' /\ MailTypeOK'
        /\ \A d \in Comp \ {c} : commands'[d] = commands[d] /\ notices'[d] = notices[d]
    BY <2>2, <2>3, HandledAndAnswered DEF ComputeInv, Command, Notice
  <2>5. NoComputation \in Entry /\ NoComputation.state = "none"
             /\ NoComputation.flopsDone < Flops[c]
    BY MulticoreAssumption DEF NoComputation, Entry, ComputationState
  <2>6. /\ GiveBack(c) /\ computations' = [computations EXCEPT ![c] = NoComputation]
        /\ finishIn' = [finishIn EXCEPT ![c] = Never]
    BY <2>3 DEF Cancel
  <2>7. /\ MachineSound'
        /\ \A d \in Comp \ {c} : computations'[d] = computations[d] /\ finishIn'[d] = finishIn[d]
    BY <2>3, <2>5, <2>6, StopIsSound DEF ComputeInv
  <2>8. State(c)' = "none"
    BY <2>5, <2>6 DEF State, ComputeInv, MachineSound
  <2>9. InConversation(c)'
    BY <2>2, <2>3, <2>4, <2>8 DEF InConversation, Answered
  <2>10. Conversation'
    BY <2>3, <2>4, <2>7, <2>9, OthersGoOn DEF ComputeInv
  <2> QED BY <2>3, <2>4, <2>7, <2>10 DEF ComputeInv, NoPanic
<1> QED BY <1>1, <1>2

(* A completion that is due finds its computation running (multicore.rs,   *)
(* CompFinished and its expect).                                           *)
LEMMA CompletionHandled ==
  ASSUME ComputeInv, NEW c \in Comp, OnCompFinished(c), UNCHANGED view
  PROVE  ComputeInv'
<1>1. finishIn[c] = 0 /\ 0 # Never
  BY DEF OnCompFinished, Never
<1>2. State(c) = "Running"
  BY <1>1 DEF ComputeInv, MachineSound, CompletionOnTime
<1>3. /\ Told(c, {})
      /\ \/ view[c] = "running" /\ Sent(c, {})
         \/ view[c] = "preempting" /\ Sent(c, {"PreemptComp"})
         \/ view[c] = "cancelling" /\ Sent(c, {"CancelComp"})
  BY <1>1, <1>2 DEF ComputeInv, Conversation, InConversation, Settled, Commanded,
                    Answered, Finished
<1>4. /\ GiveBack(c) /\ computations' = [computations EXCEPT ![c] = NoComputation]
      /\ finishIn' = [finishIn EXCEPT ![c] = Never]
      /\ Notify(c, "CompFinished")
      /\ UNCHANGED <<allocations, commands, allocationCalls, panicked, view>>
  BY <1>2 DEF OnCompFinished, GiveBack, CoresOf, MemoryOf
<1>5. NoComputation \in Entry /\ NoComputation.state = "none"
           /\ NoComputation.flopsDone < Flops[c]
  BY MulticoreAssumption DEF NoComputation, Entry, ComputationState
<1>6. /\ MachineSound'
      /\ \A d \in Comp \ {c} : computations'[d] = computations[d] /\ finishIn'[d] = finishIn[d]
  BY <1>4, <1>5, StopIsSound DEF ComputeInv
<1>7. /\ Told(c, {"CompFinished"})' /\ MailTypeOK'
      /\ \A d \in Comp \ {c} : notices'[d] = notices[d]
  BY <1>3, <1>4 DEF Told, Notify, ComputeInv, MailTypeOK, Notice
<1>8. State(c)' = "none"
  BY <1>4, <1>5 DEF State, ComputeInv, MachineSound
<1>9. InConversation(c)'
  BY <1>3, <1>4, <1>7, <1>8 DEF InConversation, Finished, Sent
<1>10. Conversation'
  BY <1>4, <1>6, <1>7, <1>9, OthersGoOn DEF ComputeInv
<1> QED BY <1>4, <1>6, <1>7, <1>10 DEF ComputeInv, NoPanic

(* A requester that has nothing on its way sends a command (multicore.rs,  *)
(* the methods of Compute).                                                *)
LEMMA CommandSent ==
  ASSUME ComputeInv, NEW c \in Comp,
         \/ Run(c) \/ PreemptComputation(c) \/ ResumeComputation(c)
         \/ CancelComputation(c)
  PROVE  ComputeInv'
<1>1. PICK type \in Command, from \in View, to \in View :
        /\ Ask(c, type, from, to)
        /\ <<type, from, to>> \in {
             <<"CompRequest", "new", "asked">>, <<"PreemptComp", "running", "preempting">>,
             <<"ResumeComp", "preempted", "resuming">>,
             <<"CancelComp", "running", "cancelling">>,
             <<"CancelComp", "preempted", "cancelling">>}
  BY DEF Run, PreemptComputation, ResumeComputation, CancelComputation, Command, View,
         Waiting
<1>2. /\ view[c] = from /\ view' = [view EXCEPT ![c] = to] /\ Send(c, type)
      /\ UNCHANGED <<resourceVars, computations, finishIn, allocations, notices,
                     allocationCalls, panicked>>
  BY <1>1 DEF Ask
<1>3. /\ MailTypeOK' /\ view'[c] = to
      /\ \A d \in Comp \ {c} : view'[d] = view[d] /\ commands'[d] = commands[d]
      /\ \A t \in Command : commands'[c][t] = IF t = type THEN commands[c][t] + 1
                                              ELSE commands[c][t]
  BY <1>2 DEF Send, ComputeInv, MailTypeOK
<1>4. MachineSound'
  BY <1>2, MachineUntouched DEF ComputeInv
<1>5. \/ Told(c, {}) /\ Sent(c, {}) /\ State(c) = (CASE from = "new" -> "none"
                                                    [] from = "running" -> "Running"
                                                    [] from = "preempted" -> "Preempted")
      \/ Told(c, {"CompFinished"}) /\ Sent(c, {}) /\ from = "running" /\ State(c) = "none"
  BY <1>1, <1>2 DEF ComputeInv, Conversation, InConversation, Settled, Commanded,
                    Answered, Finished
<1>6. Sent(c, {type})'
  BY <1>3, <1>5 DEF Sent
<1>7. InConversation(c)'
  BY <1>1, <1>2, <1>3, <1>5, <1>6
     DEF InConversation, Commanded, Finished, Told, State
<1>8. Conversation'
  BY <1>2, <1>3, <1>7, OthersGoOn DEF ComputeInv
<1> QED BY <1>2, <1>3, <1>4, <1>8 DEF ComputeInv, NoPanic

(* A requester reads an answer: it knows the state of the computation then *)
(* (multicore.rs, the notifications of all handlers).                      *)
LEMMA NoticeRead ==
  ASSUME ComputeInv, NEW c \in Comp, NEW notice \in Notice, OnNotice(c, notice)
  PROVE  ComputeInv'
<1>1. notices[c][notice] > 0
  BY DEF OnNotice
<1>2. /\ Told(c, {notice})
      /\ \/ Answered(c)
         \/ Finished(c) /\ notice = "CompFinished"
  BY <1>1 DEF ComputeInv, Conversation, InConversation, Settled, Commanded, Answered,
              Finished, Told
<1>3. /\ notices' = [notices EXCEPT ![c][notice] = @ - 1]
      /\ view' = [view EXCEPT ![c] = ViewAfter(c, notice)]
      /\ UNCHANGED <<resourceVars, computations, finishIn, allocations, commands,
                     allocationCalls, panicked>>
  BY DEF OnNotice
<1>4. ViewAfter(c, notice) \in View
  BY DEF ViewAfter, View, Notice
<1>5. notices[c][notice] = 1
  BY <1>2 DEF Told
<1>6. /\ MailTypeOK' /\ view'[c] = ViewAfter(c, notice)
      /\ \A d \in Comp \ {c} : view'[d] = view[d] /\ notices'[d] = notices[d]
      /\ \A t \in Notice : notices'[c][t] = IF t = notice THEN 0 ELSE notices[c][t]
  BY <1>3, <1>4, <1>5 DEF ComputeInv, MailTypeOK
<1>7. Told(c, {})'
  BY <1>2, <1>6 DEF Told
<1>8. MachineSound'
  BY <1>3, MachineUntouched DEF ComputeInv
<1>9. InConversation(c)'
  <2>1. CASE Answered(c)
    BY <1>1, <1>3, <1>6, <1>7, <2>1
       DEF InConversation, Settled, Answered, Sent, Told, State, ViewAfter
  <2>2. CASE Finished(c) /\ notice = "CompFinished"
    <3>1. ViewAfter(c, notice) = "over"
      BY <2>2 DEF ViewAfter
    <3> QED BY <1>3, <1>6, <1>7, <2>2, <3>1
            DEF InConversation, Settled, Finished, Sent, State
  <2> QED BY <1>2, <2>1, <2>2
<1>10. Conversation'
  BY <1>3, <1>6, <1>9, OthersGoOn DEF ComputeInv
<1> QED BY <1>3, <1>6, <1>8, <1>10 DEF ComputeInv, NoPanic

(* Allocations by hand do not touch computations (multicore.rs,            *)
(* AllocationRequest and DeallocationRequest).                             *)
LEMMA ConversationUntouched ==
  ASSUME Conversation, UNCHANGED <<computations, finishIn, commands, notices, view>>
  PROVE  Conversation'
BY DEF Conversation, InConversation, Settled, Commanded, Answered, Finished, Sent, Told,
       State

LEMMA AllocationHandled ==
  ASSUME ComputeInv, NEW o \in Owner, HandleAllocation(o)
  PROVE  ComputeInv'
<1>1. PICK a \in Allocation : OnAllocationRequest(o, a) \/ OnDeallocationRequest(o, a)
  BY DEF HandleAllocation
<1>2. UNCHANGED <<computations, finishIn, commands, notices, panicked, view>>
  BY <1>1 DEF OnAllocationRequest, OnDeallocationRequest, HandleAllocation
<1>3. MailTypeOK'
  <2>1. PICK t \in AllocationCall : ReceiveAllocation(o, t, a)
    BY <1>1 DEF OnAllocationRequest, OnDeallocationRequest, AllocationCall
  <2>2. /\ allocationCalls[o][t][a] \in Nat \ {0}
        /\ allocationCalls' = [allocationCalls EXCEPT ![o][t][a] = @ - 1]
    BY <2>1 DEF ReceiveAllocation, ComputeInv, MailTypeOK
  <2>3. allocationCalls[o][t][a] - 1 \in Nat
    BY <2>2
  <2> QED BY <1>2, <2>2, <2>3 DEF ComputeInv, MailTypeOK
<1>4. MachineSound'
  <2>1. CASE OnAllocationRequest(o, a)
    <3>1. CASE Suffices([cores |-> coresFree, memory |-> memoryFree], a)
      BY <1>2, <2>1, <3>1, AllocationIsSound DEF OnAllocationRequest, Suffices, ComputeInv
    <3>2. CASE ~ Suffices([cores |-> coresFree, memory |-> memoryFree], a)
      BY <1>2, <2>1, <3>2, MachineUntouched DEF OnAllocationRequest, ComputeInv
    <3> QED BY <3>1, <3>2
  <2>2. CASE OnDeallocationRequest(o, a)
    <3>1. CASE Suffices(allocations[o], a)
      BY <1>2, <2>2, <3>1, DeallocationIsSound DEF OnDeallocationRequest, ComputeInv
    <3>2. CASE ~ Suffices(allocations[o], a)
      BY <1>2, <2>2, <3>2, MachineUntouched DEF OnDeallocationRequest, ComputeInv
    <3> QED BY <3>1, <3>2
  <2> QED BY <1>1, <2>1, <2>2
<1> QED BY <1>2, <1>3, <1>4, ConversationUntouched DEF ComputeInv, NoPanic

LEMMA AllocationCalled ==
  ASSUME ComputeInv, NEW o \in Owner, CallAllocation(o)
  PROVE  ComputeInv'
<1>1. MailTypeOK'
  BY DEF CallAllocation, SendAllocation, AllocationCall, ComputeInv, MailTypeOK
<1>2. MachineSound'
  BY MachineUntouched DEF CallAllocation, ComputeInv
<1> QED
  BY <1>1, <1>2, ConversationUntouched DEF CallAllocation, ComputeInv, NoPanic

(* Time passes only when nothing is on its way.                            *)
LEMMA TimePasses ==
  ASSUME ComputeInv, Tick, UNCHANGED view
  PROVE  ComputeInv'
<1>1. MachineSound'
  BY TickIsSound DEF ComputeInv
<1>2. UNCHANGED <<commands, notices, allocationCalls, panicked, view>>
  BY DEF Tick
<1>3. ASSUME NEW c \in Comp PROVE InConversation(c)'
  <2>1. InConversation(c) /\ ~ Answered(c)
    BY <1>3 DEF ComputeInv, Conversation, Tick, Answered, Told, Notice
  <2>2. State(c)' = State(c)
    BY DEF Tick, State, ComputeInv, MachineSound, Entry
  <2> QED BY <1>2, <2>1, <2>2 DEF InConversation, Settled, Commanded, Finished, Sent, Told
<1> QED BY <1>1, <1>2, <1>3 DEF ComputeInv, MailTypeOK, NoPanic, Conversation

-----------------------------------------------------------------------------
(* The theorems. *)

LEMMA InitIsSound == ComputeInit => ComputeInv
<1> SUFFICES ASSUME ComputeInit PROVE ComputeInv
  OBVIOUS
<1> USE MulticoreAssumption DEF ComputeInit, MachineInit
<1>1. CoresTotal \in Nat /\ MemoryTotal \in Nat
  OBVIOUS
<1>2. ASSUME NEW n \in Nat PROVE Conserved(n, [x \in Holder |-> 0], n)
  <2> DEFINE none == [x \in Holder |-> 0]
  <2>1. none \in [Holder -> 0..n]
    OBVIOUS
  <2>2. Units(none, n) = {}
    BY DEF Units
  <2> HIDE DEF none
  <2>3. Cardinality(Units(none, n)) = 0
    BY <2>2, FS_EmptySet
  <2>4. Conserved(n, none, n)
    BY <2>1, <2>3 DEF Conserved, Holder
  <2> QED BY <2>4 DEF none
<1>3. CoresHeld = [x \in Holder |-> 0] /\ MemoryHeld = [x \in Holder |-> 0]
  BY DEF CoresHeld, MemoryHeld, CoresOf, MemoryOf, State, NoComputation, Holder
<1>4. ResourcesConserved
  BY <1>1, <1>2, <1>3 DEF ResourcesConserved
<1>5. CompletionOnTime
  BY DEF CompletionOnTime, State, NoComputation
<1>6. MachineSound
  BY <1>1, <1>4, <1>5 DEF MachineSound, Entry, ComputationState, NoComputation, State
<1>7. MailTypeOK
  BY DEF MailTypeOK, View
<1>8. Conversation
  BY DEF Conversation, InConversation, Settled, Told, Sent, State, NoComputation
<1> QED BY <1>6, <1>7, <1>8 DEF ComputeInv, NoPanic

LEMMA EveryStepIsSound == ComputeInv /\ [ComputeNext]_clientVars => ComputeInv'
<1> SUFFICES ASSUME ComputeInv, [ComputeNext]_clientVars PROVE ComputeInv'
  OBVIOUS
<1>1. ASSUME NEW c \in Comp, HandleCommand(c) PROVE ComputeInv'
  BY <1>1, RequestHandled, PreemptHandled, CancelHandled, ResumeHandled DEF HandleCommand
<1>2. ASSUME NEW c \in Comp, Complete(c) PROVE ComputeInv'
  BY <1>2, CompletionHandled DEF Complete
<1>3. ASSUME NEW c \in Comp, ClientStep(c) PROVE ComputeInv'
  BY <1>3, CommandSent, NoticeRead DEF ClientStep
<1>4. ASSUME NEW o \in Owner, HandleAllocation(o) PROVE ComputeInv'
  BY <1>4, AllocationHandled
<1>5. ASSUME NEW o \in Owner, CallAllocation(o) PROVE ComputeInv'
  BY <1>5, AllocationCalled
<1>6. CASE Tick /\ UNCHANGED view
  BY <1>6, TimePasses
<1>7. CASE UNCHANGED clientVars
  <2>1. UNCHANGED <<resourceVars, computations, finishIn, allocations>>
    BY <1>7 DEF clientVars, machineVars
  <2>2. MachineSound'
    BY <2>1, MachineUntouched DEF ComputeInv
  <2>3. Conversation'
    BY <1>7, ConversationUntouched DEF clientVars, machineVars, ComputeInv
  <2> QED BY <1>7, <2>2, <2>3 DEF clientVars, machineVars, ComputeInv, MailTypeOK, NoPanic
<1> QED BY <1>1, <1>2, <1>3, <1>4, <1>5, <1>6, <1>7 DEF ComputeNext

(* Everything below at once: the inductive invariant (multicore.rs).       *)
THEOREM ComputeSound == ComputeSpec => []ComputeInv
<1>1. ComputeInit => ComputeInv
  BY InitIsSound
<1>2. ComputeInv /\ [ComputeNext]_clientVars => ComputeInv'
  BY EveryStepIsSound
<1> QED BY <1>1, <1>2, PTL DEF ComputeSpec

(* The state keeps its type; no unsigned amount goes below zero            *)
(* (multicore.rs, Compute).                                                *)
THEOREM ComputeTypeCorrect == ComputeSpec => []TypeOK
<1>1. ComputeInv => TypeOK
  BY DEF ComputeInv, MachineSound, MailTypeOK, NoPanic, TypeOK, MachineTypeOK, Entry, State
<1> QED BY <1>1, ComputeSound, PTL

(* No requester that waits for answers makes the machine panic             *)
(* (multicore.rs, stop_computation, ResumeComp, CompFinished).             *)
THEOREM NeverPanics == ComputeSpec => []NoPanic
<1>1. ComputeInv => NoPanic
  BY DEF ComputeInv
<1> QED BY <1>1, ComputeSound, PTL

(* Requester, commands, answers and computation always fit together        *)
(* (multicore.rs, all handlers of computations).                           *)
THEOREM ConversationsFit == ComputeSpec => []Conversation
<1>1. ComputeInv => Conversation
  BY DEF ComputeInv
<1> QED BY <1>1, ComputeSound, PTL

(* A computation ends once (multicore.rs, CompFinished and CompCancelled). *)
THEOREM ComputationsEndOnce == ComputeSpec => []EndsOnce
<1>1. ComputeInv => EndsOnce
  BY DEF ComputeInv, MachineSound, CompletionOnTime, Conversation, InConversation, Settled,
         Commanded, Answered, Finished, Told, EndsOnce
<1> QED BY <1>1, ComputeSound, PTL

(* Completions come when the work is done (multicore.rs, flops_done).      *)
THEOREM CompletionsOnTime == ComputeSpec => []CompletionOnTime
<1>1. ComputeInv => CompletionOnTime
  BY DEF ComputeInv, MachineSound
<1> QED BY <1>1, ComputeSound, PTL

(* Cores and memory are conserved (multicore.rs, cores_available and       *)
(* memory_available).                                                      *)
THEOREM ResourcesAreConserved == ComputeSpec => []ResourcesConserved
<1>1. ComputeInv => ResourcesConserved
  BY DEF ComputeInv, MachineSound
<1> QED BY <1>1, ComputeSound, PTL
=============================================================================
