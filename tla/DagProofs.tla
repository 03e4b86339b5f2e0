-------------------------------- MODULE DagProofs --------------------------------
(***************************************************************************)
(* That the runner of a graph and the Compute of each resource agree on    *)
(* cores and memory, and that the data a task waits for is on its way to   *)
(* it, whatever the scheduler answers (DagExecution).  The inductive       *)
(* invariant relates the graph, the queues of the cores, what the runner   *)
(* counts and where the data is, the requests on their way and the         *)
(* Compute; each method of the runner is shown to preserve it.             *)
(***************************************************************************)
EXTENDS DagExecution, FoldTheorems, SequenceTheorems, TLAPS

-----------------------------------------------------------------------------
(* Folds.  Each of the runner's loops is a sequence of turns, and its result  *)
(* the last runner, or graph, of the sequence.                              *)

\* What a consumer with a location is sent.
Deliver(r, i, x, t) ==
    IF r.location[t] \in {Nowhere, x} THEN r ELSE AddDataTransferTask(r, i, x, r.location[t])

\* The cores of H at whose head the entry a is.
Showing(q, H, a) == {c \in H : Head(q[c]) = a}

Turn(v, t) ==
    CASE t.kind = "input"      -> InputReady(v, t.item)
      [] t.kind = "item"       -> ItemReady(v, t.item)
      [] t.kind = "transfer"   -> TransferData(v, t.item, t.from, t.to)
      [] t.kind = "start"      -> StartIfReady(v, t.at, t.item, t.ready)
      [] t.kind = "pass"       -> Pass(v, t.at)
      [] t.kind = "fetch"      -> FetchInput(v, t.item, t.at)
      [] t.kind = "queue"      -> ProcessResourceQueue(v, t.at)
      [] t.kind = "action"     -> ProcessAction(v, t.item)
      [] t.kind = "arrive"     -> Arrive(v, t.item, t.at)
      [] t.kind = "deliver"    -> Deliver(v, t.item, t.at, t.to)
      [] t.kind = "consumers"  -> SendToConsumers(v, t.item, t.at)
      [] t.kind = "upload"     -> Upload(v, t.item, t.at)
      [] t.kind = "drop"       -> Kept(v, t.item, t.id)
      [] t.kind = "output"     -> SetAsTaskOutput(v, t.item, t.task)
      [] t.kind = "dependency" -> AddDataDependency(v, t.item, t.task)

Turns(f, base, turns, n) ==
    f = [k \in 0..n |-> IF k = 0 THEN base ELSE Turn(f[k - 1], turns[k])]

LEMMA TurnsExist ==
    ASSUME NEW base, NEW turns, NEW n \in Nat
    PROVE  \E f : Turns(f, base, turns, n)
  <1> DEFINE F == {m \in 0..n : \E f : Turns(f, base, turns, m)}
  <1>1. 0 \in F
    <2>1. Turns([k \in 0..0 |-> base], base, turns, 0)
      BY DEF Turns
    <2> QED BY <2>1
  <1>2. ASSUME NEW m \in 1..n, m - 1 \in F
        PROVE  m \in F
    <2>1. PICK f : Turns(f, base, turns, m - 1)
      BY <1>2
    <2> DEFINE g == [k \in 0..m |-> IF k = m THEN Turn(f[m - 1], turns[m]) ELSE f[k]]
    <2>2. /\ f = [k \in 0..(m - 1) |-> IF k = 0 THEN base ELSE Turn(f[k - 1], turns[k])]
          /\ DOMAIN g = 0..m
      BY <2>1 DEF Turns
    <2>3. ASSUME NEW k \in 0..m
          PROVE  g[k] = IF k = 0 THEN base ELSE Turn(g[k - 1], turns[k])
      <3>1. CASE k = m
        BY <3>1
      <3>2. CASE k # m
        <4>1. k \in 0..(m - 1) /\ (k # 0 => k - 1 \in 0..m /\ k - 1 # m)
          BY <3>2
        <4>2. g[k] = f[k] /\ (k # 0 => g[k - 1] = f[k - 1])
          BY <3>2, <4>1
        <4>3. f[k] = IF k = 0 THEN base ELSE Turn(f[k - 1], turns[k])
          BY <2>2, <4>1
        <4> QED BY <4>2, <4>3
      <3> QED BY <3>1, <3>2
    <2>4. g = [k \in 0..m |-> IF k = 0 THEN base ELSE Turn(g[k - 1], turns[k])]
      <3> DEFINE e == [k \in 0..m |-> IF k = 0 THEN base ELSE Turn(g[k - 1], turns[k])]
      <3>1. DOMAIN e = 0..m /\ \A k \in 0..m : e[k] = g[k]
        BY <2>3
      <3>2. g = [k \in 0..m |-> g[k]] /\ e = [k \in 0..m |-> e[k]]
        OBVIOUS
      <3> HIDE DEF e, g
      <3>3. e = g
        BY <3>1, <3>2
      <3> QED BY <3>3 DEF e
    <2> HIDE DEF g
    <2>5. Turns(g, base, turns, m)
      BY <2>4 DEF Turns
    <2> QED BY <2>5
  <1> HIDE DEF F
  <1>3. \A k \in 0..n : k \in F
    BY <1>1, <1>2, PrefixInduction
  <1> QED BY <1>3 DEF F

ReadyAll(g, s) == Fold(InputReady, g, s)

LEMMA ReadyAllFolds ==
    ASSUME NEW g, NEW S, NEW s \in Seq(S)
    PROVE  \E f : /\ f[0] = g
                  /\ \A k \in 1..Len(s) : f[k] = InputReady(f[k - 1], s[k])
                  /\ ReadyAll(g, s) = f[Len(s)]
  <1> DEFINE turns == [k \in 1..Len(s) |-> [kind |-> "input", item |-> s[k]]]
             T(f) == f = [m \in 0..Len(s) |-> IF m = 0 THEN g
                                               ELSE InputReady(f[m - 1], s[m])]
             f == CHOOSE f : T(f)
  <1>1. Len(s) \in Nat
    OBVIOUS
  <1>2. PICK d : Turns(d, g, turns, Len(s))
    BY <1>1, TurnsExist
  <1>3. \A k \in 1..Len(s) : \A v : Turn(v, turns[k]) = InputReady(v, s[k])
    BY DEF Turn
  <1>4. T(d)
    <2>1. \A k \in 0..Len(s) :
            (IF k = 0 THEN g ELSE Turn(d[k - 1], turns[k]))
              = (IF k = 0 THEN g ELSE InputReady(d[k - 1], s[k]))
      BY <1>3
    <2> HIDE DEF turns
    <2> QED BY <1>2, <2>1 DEF Turns
  <1>5. T(f)
    BY <1>4
  <1>6. ReadyAll(g, s) = f[Len(s)]
    BY DEF ReadyAll, Fold, Bind
  <1>7. /\ f[0] = g
        /\ \A k \in 1..Len(s) : f[k] = InputReady(f[k - 1], s[k])
    <2> HIDE DEF f
    <2> QED BY <1>1, <1>5
  <1> QED BY <1>6, <1>7

ItemsReady(g, s) == Fold(ItemReady, g, s)

LEMMA ItemsReadyFolds ==
    ASSUME NEW g, NEW S, NEW s \in Seq(S)
    PROVE  \E f : /\ f[0] = g
                  /\ \A k \in 1..Len(s) : f[k] = ItemReady(f[k - 1], s[k])
                  /\ ItemsReady(g, s) = f[Len(s)]
  <1> DEFINE turns == [k \in 1..Len(s) |-> [kind |-> "item", item |-> s[k]]]
             T(f) == f = [m \in 0..Len(s) |-> IF m = 0 THEN g
                                               ELSE ItemReady(f[m - 1], s[m])]
             f == CHOOSE f : T(f)
  <1>1. Len(s) \in Nat
    OBVIOUS
  <1>2. PICK d : Turns(d, g, turns, Len(s))
    BY <1>1, TurnsExist
  <1>3. \A k \in 1..Len(s) : \A v : Turn(v, turns[k]) = ItemReady(v, s[k])
    BY DEF Turn
  <1>4. T(d)
    <2>1. \A k \in 0..Len(s) :
            (IF k = 0 THEN g ELSE Turn(d[k - 1], turns[k]))
              = (IF k = 0 THEN g ELSE ItemReady(d[k - 1], s[k]))
      BY <1>3
    <2> HIDE DEF turns
    <2> QED BY <1>2, <2>1 DEF Turns
  <1>5. T(f)
    BY <1>4
  <1>6. ItemsReady(g, s) = f[Len(s)]
    BY DEF ItemsReady, Fold, Bind
  <1>7. /\ f[0] = g
        /\ \A k \in 1..Len(s) : f[k] = ItemReady(f[k - 1], s[k])
    <2> HIDE DEF f
    <2> QED BY <1>1, <1>5
  <1> QED BY <1>6, <1>7

TransferAll(r, i, n, s) == Fold(LAMBDA h, to : TransferData(h, i, n, to), r, s)

LEMMA TransferAllFolds ==
    ASSUME NEW r, NEW i, NEW n, NEW S, NEW s \in Seq(S)
    PROVE  \E f : /\ f[0] = r
                  /\ \A k \in 1..Len(s) : f[k] = TransferData(f[k - 1], i, n, s[k])
                  /\ TransferAll(r, i, n, s) = f[Len(s)]
  <1> DEFINE turns == [k \in 1..Len(s) |-> [kind |-> "transfer", item |-> i, from |-> n, to |-> s[k]]]
             T(f) == f = [m \in 0..Len(s) |-> IF m = 0 THEN r
                                               ELSE TransferData(f[m - 1], i, n, s[m])]
             f == CHOOSE f : T(f)
  <1>1. Len(s) \in Nat
    OBVIOUS
  <1>2. PICK d : Turns(d, r, turns, Len(s))
    BY <1>1, TurnsExist
  <1>3. \A k \in 1..Len(s) : \A v : Turn(v, turns[k]) = TransferData(v, i, n, s[k])
    BY DEF Turn
  <1>4. T(d)
    <2>1. \A k \in 0..Len(s) :
            (IF k = 0 THEN r ELSE Turn(d[k - 1], turns[k]))
              = (IF k = 0 THEN r ELSE TransferData(d[k - 1], i, n, s[k]))
      BY <1>3
    <2> HIDE DEF turns
    <2> QED BY <1>2, <2>1 DEF Turns
  <1>5. T(f)
    BY <1>4
  <1>6. TransferAll(r, i, n, s) = f[Len(s)]
    BY DEF TransferAll, Fold, Bind
  <1>7. /\ f[0] = r
        /\ \A k \in 1..Len(s) : f[k] = TransferData(f[k - 1], i, n, s[k])
    <2> HIDE DEF f
    <2> QED BY <1>1, <1>5
  <1> QED BY <1>6, <1>7

StartReady(r, x, q, H, s) == Fold(LAMBDA h, a : StartIfReady(h, x, a, Showing(q, H, a)), r, s)

LEMMA StartReadyFolds ==
    ASSUME NEW r, NEW x, NEW q, NEW H, NEW S, NEW s \in Seq(S)
    PROVE  \E f : /\ f[0] = r
                  /\ \A k \in 1..Len(s) : f[k] = StartIfReady(f[k - 1], x, s[k], Showing(q, H, s[k]))
                  /\ StartReady(r, x, q, H, s) = f[Len(s)]
  <1> DEFINE turns == [k \in 1..Len(s) |-> [kind |-> "start", at |-> x, item |-> s[k], ready |-> Showing(q, H, s[k])]]
             T(f) == f = [m \in 0..Len(s) |-> IF m = 0 THEN r
                                               ELSE StartIfReady(f[m - 1], x, s[m], Showing(q, H, s[m]))]
             f == CHOOSE f : T(f)
  <1>1. Len(s) \in Nat
    OBVIOUS
  <1>2. PICK d : Turns(d, r, turns, Len(s))
    BY <1>1, TurnsExist
  <1>3. \A k \in 1..Len(s) : \A v : Turn(v, turns[k]) = StartIfReady(v, x, s[k], Showing(q, H, s[k]))
    BY DEF Turn
  <1>4. T(d)
    <2>1. \A k \in 0..Len(s) :
            (IF k = 0 THEN r ELSE Turn(d[k - 1], turns[k]))
              = (IF k = 0 THEN r ELSE StartIfReady(d[k - 1], x, s[k], Showing(q, H, s[k])))
      BY <1>3
    <2> HIDE DEF turns
    <2> QED BY <1>2, <2>1 DEF Turns
  <1>5. T(f)
    BY <1>4
  <1>6. StartReady(r, x, q, H, s) = f[Len(s)]
    BY DEF StartReady, Fold, Bind
  <1>7. /\ f[0] = r
        /\ \A k \in 1..Len(s) : f[k] = StartIfReady(f[k - 1], x, s[k], Showing(q, H, s[k]))
    <2> HIDE DEF f
    <2> QED BY <1>1, <1>5
  <1> QED BY <1>6, <1>7

Passes(r, x, s) == Fold(LAMBDA h, e : Pass(h, x), r, s)

LEMMA PassesFolds ==
    ASSUME NEW r, NEW x, NEW S, NEW s \in Seq(S)
    PROVE  \E f : /\ f[0] = r
                  /\ \A k \in 1..Len(s) : f[k] = Pass(f[k - 1], x)
                  /\ Passes(r, x, s) = f[Len(s)]
  <1> DEFINE turns == [k \in 1..Len(s) |-> [kind |-> "pass", at |-> x]]
             T(f) == f = [m \in 0..Len(s) |-> IF m = 0 THEN r
                                               ELSE Pass(f[m - 1], x)]
             f == CHOOSE f : T(f)
  <1>1. Len(s) \in Nat
    OBVIOUS
  <1>2. PICK d : Turns(d, r, turns, Len(s))
    BY <1>1, TurnsExist
  <1>3. \A k \in 1..Len(s) : \A v : Turn(v, turns[k]) = Pass(v, x)
    BY DEF Turn
  <1>4. T(d)
    <2>1. \A k \in 0..Len(s) :
            (IF k = 0 THEN r ELSE Turn(d[k - 1], turns[k]))
              = (IF k = 0 THEN r ELSE Pass(d[k - 1], x))
      BY <1>3
    <2> HIDE DEF turns
    <2> QED BY <1>2, <2>1 DEF Turns
  <1>5. T(f)
    BY <1>4
  <1>6. Passes(r, x, s) = f[Len(s)]
    BY DEF Passes, Fold, Bind
  <1>7. /\ f[0] = r
        /\ \A k \in 1..Len(s) : f[k] = Pass(f[k - 1], x)
    <2> HIDE DEF f
    <2> QED BY <1>1, <1>5
  <1> QED BY <1>6, <1>7

FetchAll(r, x, s) == Fold(LAMBDA h, i : FetchInput(h, i, x), r, s)

LEMMA FetchAllFolds ==
    ASSUME NEW r, NEW x, NEW S, NEW s \in Seq(S)
    PROVE  \E f : /\ f[0] = r
                  /\ \A k \in 1..Len(s) : f[k] = FetchInput(f[k - 1], s[k], x)
                  /\ FetchAll(r, x, s) = f[Len(s)]
  <1> DEFINE turns == [k \in 1..Len(s) |-> [kind |-> "fetch", item |-> s[k], at |-> x]]
             T(f) == f = [m \in 0..Len(s) |-> IF m = 0 THEN r
                                               ELSE FetchInput(f[m - 1], s[m], x)]
             f == CHOOSE f : T(f)
  <1>1. Len(s) \in Nat
    OBVIOUS
  <1>2. PICK d : Turns(d, r, turns, Len(s))
    BY <1>1, TurnsExist
  <1>3. \A k \in 1..Len(s) : \A v : Turn(v, turns[k]) = FetchInput(v, s[k], x)
    BY DEF Turn
  <1>4. T(d)
    <2>1. \A k \in 0..Len(s) :
            (IF k = 0 THEN r ELSE Turn(d[k - 1], turns[k]))
              = (IF k = 0 THEN r ELSE FetchInput(d[k - 1], s[k], x))
      BY <1>3
    <2> HIDE DEF turns
    <2> QED BY <1>2, <2>1 DEF Turns
  <1>5. T(f)
    BY <1>4
  <1>6. FetchAll(r, x, s) = f[Len(s)]
    BY DEF FetchAll, Fold, Bind
  <1>7. /\ f[0] = r
        /\ \A k \in 1..Len(s) : f[k] = FetchInput(f[k - 1], s[k], x)
    <2> HIDE DEF f
    <2> QED BY <1>1, <1>5
  <1> QED BY <1>6, <1>7

QueuesAll(r, s) == Fold(ProcessResourceQueue, r, s)

LEMMA QueuesAllFolds ==
    ASSUME NEW r, NEW S, NEW s \in Seq(S)
    PROVE  \E f : /\ f[0] = r
                  /\ \A k \in 1..Len(s) : f[k] = ProcessResourceQueue(f[k - 1], s[k])
                  /\ QueuesAll(r, s) = f[Len(s)]
  <1> DEFINE turns == [k \in 1..Len(s) |-> [kind |-> "queue", at |-> s[k]]]
             T(f) == f = [m \in 0..Len(s) |-> IF m = 0 THEN r
                                               ELSE ProcessResourceQueue(f[m - 1], s[m])]
             f == CHOOSE f : T(f)
  <1>1. Len(s) \in Nat
    OBVIOUS
  <1>2. PICK d : Turns(d, r, turns, Len(s))
    BY <1>1, TurnsExist
  <1>3. \A k \in 1..Len(s) : \A v : Turn(v, turns[k]) = ProcessResourceQueue(v, s[k])
    BY DEF Turn
  <1>4. T(d)
    <2>1. \A k \in 0..Len(s) :
            (IF k = 0 THEN r ELSE Turn(d[k - 1], turns[k]))
              = (IF k = 0 THEN r ELSE ProcessResourceQueue(d[k - 1], s[k]))
      BY <1>3
    <2> HIDE DEF turns
    <2> QED BY <1>2, <2>1 DEF Turns
  <1>5. T(f)
    BY <1>4
  <1>6. QueuesAll(r, s) = f[Len(s)]
    BY DEF QueuesAll, Fold, Bind
  <1>7. /\ f[0] = r
        /\ \A k \in 1..Len(s) : f[k] = ProcessResourceQueue(f[k - 1], s[k])
    <2> HIDE DEF f
    <2> QED BY <1>1, <1>5
  <1> QED BY <1>6, <1>7

ActAll(r, s) == Fold(ProcessAction, r, s)

LEMMA ActAllFolds ==
    ASSUME NEW r, NEW S, NEW s \in Seq(S)
    PROVE  \E f : /\ f[0] = r
                  /\ \A k \in 1..Len(s) : f[k] = ProcessAction(f[k - 1], s[k])
                  /\ ActAll(r, s) = f[Len(s)]
  <1> DEFINE turns == [k \in 1..Len(s) |-> [kind |-> "action", item |-> s[k]]]
             T(f) == f = [m \in 0..Len(s) |-> IF m = 0 THEN r
                                               ELSE ProcessAction(f[m - 1], s[m])]
             f == CHOOSE f : T(f)
  <1>1. Len(s) \in Nat
    OBVIOUS
  <1>2. PICK d : Turns(d, r, turns, Len(s))
    BY <1>1, TurnsExist
  <1>3. \A k \in 1..Len(s) : \A v : Turn(v, turns[k]) = ProcessAction(v, s[k])
    BY DEF Turn
  <1>4. T(d)
    <2>1. \A k \in 0..Len(s) :
            (IF k = 0 THEN r ELSE Turn(d[k - 1], turns[k]))
              = (IF k = 0 THEN r ELSE ProcessAction(d[k - 1], s[k]))
      BY <1>3
    <2> HIDE DEF turns
    <2> QED BY <1>2, <2>1 DEF Turns
  <1>5. T(f)
    BY <1>4
  <1>6. ActAll(r, s) = f[Len(s)]
    BY DEF ActAll, Fold, Bind
  <1>7. /\ f[0] = r
        /\ \A k \in 1..Len(s) : f[k] = ProcessAction(f[k - 1], s[k])
    <2> HIDE DEF f
    <2> QED BY <1>1, <1>5
  <1> QED BY <1>6, <1>7

ArriveAll(r, x, s) == Fold(LAMBDA h, i : Arrive(h, i, x), r, s)

LEMMA ArriveAllFolds ==
    ASSUME NEW r, NEW x, NEW S, NEW s \in Seq(S)
    PROVE  \E f : /\ f[0] = r
                  /\ \A k \in 1..Len(s) : f[k] = Arrive(f[k - 1], s[k], x)
                  /\ ArriveAll(r, x, s) = f[Len(s)]
  <1> DEFINE turns == [k \in 1..Len(s) |-> [kind |-> "arrive", item |-> s[k], at |-> x]]
             T(f) == f = [m \in 0..Len(s) |-> IF m = 0 THEN r
                                               ELSE Arrive(f[m - 1], s[m], x)]
             f == CHOOSE f : T(f)
  <1>1. Len(s) \in Nat
    OBVIOUS
  <1>2. PICK d : Turns(d, r, turns, Len(s))
    BY <1>1, TurnsExist
  <1>3. \A k \in 1..Len(s) : \A v : Turn(v, turns[k]) = Arrive(v, s[k], x)
    BY DEF Turn
  <1>4. T(d)
    <2>1. \A k \in 0..Len(s) :
            (IF k = 0 THEN r ELSE Turn(d[k - 1], turns[k]))
              = (IF k = 0 THEN r ELSE Arrive(d[k - 1], s[k], x))
      BY <1>3
    <2> HIDE DEF turns
    <2> QED BY <1>2, <2>1 DEF Turns
  <1>5. T(f)
    BY <1>4
  <1>6. ArriveAll(r, x, s) = f[Len(s)]
    BY DEF ArriveAll, Fold, Bind
  <1>7. /\ f[0] = r
        /\ \A k \in 1..Len(s) : f[k] = Arrive(f[k - 1], s[k], x)
    <2> HIDE DEF f
    <2> QED BY <1>1, <1>5
  <1> QED BY <1>6, <1>7

DeliverAll(r, i, x, s) == Fold(LAMBDA h, t : Deliver(h, i, x, t), r, s)

LEMMA DeliverAllFolds ==
    ASSUME NEW r, NEW i, NEW x, NEW S, NEW s \in Seq(S)
    PROVE  \E f : /\ f[0] = r
                  /\ \A k \in 1..Len(s) : f[k] = Deliver(f[k - 1], i, x, s[k])
                  /\ DeliverAll(r, i, x, s) = f[Len(s)]
  <1> DEFINE turns == [k \in 1..Len(s) |-> [kind |-> "deliver", item |-> i, at |-> x, to |-> s[k]]]
             T(f) == f = [m \in 0..Len(s) |-> IF m = 0 THEN r
                                               ELSE Deliver(f[m - 1], i, x, s[m])]
             f == CHOOSE f : T(f)
  <1>1. Len(s) \in Nat
    OBVIOUS
  <1>2. PICK d : Turns(d, r, turns, Len(s))
    BY <1>1, TurnsExist
  <1>3. \A k \in 1..Len(s) : \A v : Turn(v, turns[k]) = Deliver(v, i, x, s[k])
    BY DEF Turn
  <1>4. T(d)
    <2>1. \A k \in 0..Len(s) :
            (IF k = 0 THEN r ELSE Turn(d[k - 1], turns[k]))
              = (IF k = 0 THEN r ELSE Deliver(d[k - 1], i, x, s[k]))
      BY <1>3
    <2> HIDE DEF turns
    <2> QED BY <1>2, <2>1 DEF Turns
  <1>5. T(f)
    BY <1>4
  <1>6. DeliverAll(r, i, x, s) = f[Len(s)]
    BY DEF DeliverAll, Fold, Bind
  <1>7. /\ f[0] = r
        /\ \A k \in 1..Len(s) : f[k] = Deliver(f[k - 1], i, x, s[k])
    <2> HIDE DEF f
    <2> QED BY <1>1, <1>5
  <1> QED BY <1>6, <1>7

SendAll(r, x, s) == Fold(LAMBDA h, i : SendToConsumers(h, i, x), r, s)

LEMMA SendAllFolds ==
    ASSUME NEW r, NEW x, NEW S, NEW s \in Seq(S)
    PROVE  \E f : /\ f[0] = r
                  /\ \A k \in 1..Len(s) : f[k] = SendToConsumers(f[k - 1], s[k], x)
                  /\ SendAll(r, x, s) = f[Len(s)]
  <1> DEFINE turns == [k \in 1..Len(s) |-> [kind |-> "consumers", item |-> s[k], at |-> x]]
             T(f) == f = [m \in 0..Len(s) |-> IF m = 0 THEN r
                                               ELSE SendToConsumers(f[m - 1], s[m], x)]
             f == CHOOSE f : T(f)
  <1>1. Len(s) \in Nat
    OBVIOUS
  <1>2. PICK d : Turns(d, r, turns, Len(s))
    BY <1>1, TurnsExist
  <1>3. \A k \in 1..Len(s) : \A v : Turn(v, turns[k]) = SendToConsumers(v, s[k], x)
    BY DEF Turn
  <1>4. T(d)
    <2>1. \A k \in 0..Len(s) :
            (IF k = 0 THEN r ELSE Turn(d[k - 1], turns[k]))
              = (IF k = 0 THEN r ELSE SendToConsumers(d[k - 1], s[k], x))
      BY <1>3
    <2> HIDE DEF turns
    <2> QED BY <1>2, <2>1 DEF Turns
  <1>5. T(f)
    BY <1>4
  <1>6. SendAll(r, x, s) = f[Len(s)]
    BY DEF SendAll, Fold, Bind
  <1>7. /\ f[0] = r
        /\ \A k \in 1..Len(s) : f[k] = SendToConsumers(f[k - 1], s[k], x)
    <2> HIDE DEF f
    <2> QED BY <1>1, <1>5
  <1> QED BY <1>6, <1>7

UploadAll(r, x, s) == Fold(LAMBDA h, i : Upload(h, i, x), r, s)

LEMMA UploadAllFolds ==
    ASSUME NEW r, NEW x, NEW S, NEW s \in Seq(S)
    PROVE  \E f : /\ f[0] = r
                  /\ \A k \in 1..Len(s) : f[k] = Upload(f[k - 1], s[k], x)
                  /\ UploadAll(r, x, s) = f[Len(s)]
  <1> DEFINE turns == [k \in 1..Len(s) |-> [kind |-> "upload", item |-> s[k], at |-> x]]
             T(f) == f = [m \in 0..Len(s) |-> IF m = 0 THEN r
                                               ELSE Upload(f[m - 1], s[m], x)]
             f == CHOOSE f : T(f)
  <1>1. Len(s) \in Nat
    OBVIOUS
  <1>2. PICK d : Turns(d, r, turns, Len(s))
    BY <1>1, TurnsExist
  <1>3. \A k \in 1..Len(s) : \A v : Turn(v, turns[k]) = Upload(v, s[k], x)
    BY DEF Turn
  <1>4. T(d)
    <2>1. \A k \in 0..Len(s) :
            (IF k = 0 THEN r ELSE Turn(d[k - 1], turns[k]))
              = (IF k = 0 THEN r ELSE Upload(d[k - 1], s[k], x))
      BY <1>3
    <2> HIDE DEF turns
    <2> QED BY <1>2, <2>1 DEF Turns
  <1>5. T(f)
    BY <1>4
  <1>6. UploadAll(r, x, s) = f[Len(s)]
    BY DEF UploadAll, Fold, Bind
  <1>7. /\ f[0] = r
        /\ \A k \in 1..Len(s) : f[k] = Upload(f[k - 1], s[k], x)
    <2> HIDE DEF f
    <2> QED BY <1>1, <1>5
  <1> QED BY <1>6, <1>7

OutputAll(g, t, s) == Fold(LAMBDA h, i : SetAsTaskOutput(h, i, t), g, s)

LEMMA OutputAllFolds ==
    ASSUME NEW g, NEW t, NEW S, NEW s \in Seq(S)
    PROVE  \E f : /\ f[0] = g
                  /\ \A k \in 1..Len(s) : f[k] = SetAsTaskOutput(f[k - 1], s[k], t)
                  /\ OutputAll(g, t, s) = f[Len(s)]
  <1> DEFINE turns == [k \in 1..Len(s) |-> [kind |-> "output", item |-> s[k], task |-> t]]
             T(f) == f = [m \in 0..Len(s) |-> IF m = 0 THEN g
                                               ELSE SetAsTaskOutput(f[m - 1], s[m], t)]
             f == CHOOSE f : T(f)
  <1>1. Len(s) \in Nat
    OBVIOUS
  <1>2. PICK d : Turns(d, g, turns, Len(s))
    BY <1>1, TurnsExist
  <1>3. \A k \in 1..Len(s) : \A v : Turn(v, turns[k]) = SetAsTaskOutput(v, s[k], t)
    BY DEF Turn
  <1>4. T(d)
    <2>1. \A k \in 0..Len(s) :
            (IF k = 0 THEN g ELSE Turn(d[k - 1], turns[k]))
              = (IF k = 0 THEN g ELSE SetAsTaskOutput(d[k - 1], s[k], t))
      BY <1>3
    <2> HIDE DEF turns
    <2> QED BY <1>2, <2>1 DEF Turns
  <1>5. T(f)
    BY <1>4
  <1>6. OutputAll(g, t, s) = f[Len(s)]
    BY DEF OutputAll, Fold, Bind
  <1>7. /\ f[0] = g
        /\ \A k \in 1..Len(s) : f[k] = SetAsTaskOutput(f[k - 1], s[k], t)
    <2> HIDE DEF f
    <2> QED BY <1>1, <1>5
  <1> QED BY <1>6, <1>7

DependAll(g, t, s) == Fold(LAMBDA h, i : AddDataDependency(h, i, t), g, s)

LEMMA DependAllFolds ==
    ASSUME NEW g, NEW t, NEW S, NEW s \in Seq(S)
    PROVE  \E f : /\ f[0] = g
                  /\ \A k \in 1..Len(s) : f[k] = AddDataDependency(f[k - 1], s[k], t)
                  /\ DependAll(g, t, s) = f[Len(s)]
  <1> DEFINE turns == [k \in 1..Len(s) |-> [kind |-> "dependency", item |-> s[k], task |-> t]]
             T(f) == f = [m \in 0..Len(s) |-> IF m = 0 THEN g
                                               ELSE AddDataDependency(f[m - 1], s[m], t)]
             f == CHOOSE f : T(f)
  <1>1. Len(s) \in Nat
    OBVIOUS
  <1>2. PICK d : Turns(d, g, turns, Len(s))
    BY <1>1, TurnsExist
  <1>3. \A k \in 1..Len(s) : \A v : Turn(v, turns[k]) = AddDataDependency(v, s[k], t)
    BY DEF Turn
  <1>4. T(d)
    <2>1. \A k \in 0..Len(s) :
            (IF k = 0 THEN g ELSE Turn(d[k - 1], turns[k]))
              = (IF k = 0 THEN g ELSE AddDataDependency(d[k - 1], s[k], t))
      BY <1>3
    <2> HIDE DEF turns
    <2> QED BY <1>2, <2>1 DEF Turns
  <1>5. T(f)
    BY <1>4
  <1>6. DependAll(g, t, s) = f[Len(s)]
    BY DEF DependAll, Fold, Bind
  <1>7. /\ f[0] = g
        /\ \A k \in 1..Len(s) : f[k] = AddDataDependency(f[k - 1], s[k], t)
    <2> HIDE DEF f
    <2> QED BY <1>1, <1>5
  <1> QED BY <1>6, <1>7

-----------------------------------------------------------------------------
(* Sorting: key gives each element a number.                               *)

Below(S, key, n) == {y \in S : key[y] < n}

Ranked(S, key) ==
    \A k \in 1..Cardinality(S) : \E x \in S : Cardinality(Below(S, key, key[x])) = k - 1

Peaked(S, key) == S = {} \/ \E x \in S : \A y \in S : key[y] <= key[x]

LEMMA EachRankTaken ==
    ASSUME NEW S, IsFiniteSet(S), NEW key, \A x \in S : key[x] \in Int,
           \A x, y \in S : key[x] = key[y] => x = y
    PROVE  Ranked(S, key)
  <1> DEFINE F == {T \in SUBSET S : Ranked(T, key) /\ Peaked(T, key)}
  <1>1. ASSUME NEW T \in SUBSET S, \A x \in T : T \ {x} \in F
        PROVE  T \in F
    <2>1. CASE T = {}
      <3>1. Cardinality(T) = 0
        BY <2>1, FS_EmptySet
      <3> QED BY <2>1, <3>1 DEF Ranked, Peaked
    <2>2. CASE T # {}
      <3>1. PICK x \in T : TRUE
        BY <2>2
      <3>2. Peaked(T \ {x}, key)
        BY <1>1, <3>1
      <3>3. PICK m \in T : \A y \in T : key[y] <= key[m]
        <4>1. CASE T \ {x} = {}
          BY <3>1, <4>1
        <4>2. CASE T \ {x} # {}
          <5>1. PICK z \in T \ {x} : \A y \in T \ {x} : key[y] <= key[z]
            BY <3>2, <4>2 DEF Peaked
          <5>2. CASE key[z] <= key[x]
            BY <3>1, <5>1, <5>2
          <5>3. CASE key[x] <= key[z]
            BY <3>1, <5>1, <5>3
          <5> QED BY <3>1, <5>1, <5>2, <5>3
        <4> QED BY <4>1, <4>2
      <3>4. Peaked(T, key)
        BY <3>3 DEF Peaked
      <3> DEFINE U == T \ {m}
      <3>5. Ranked(U, key)
        BY <1>1, <3>3
      <3>6. IsFiniteSet(T) /\ Cardinality(U) = Cardinality(T) - 1 /\ Cardinality(T) \in Nat
        BY <3>3, FS_Subset, FS_RemoveElement, FS_CardinalityType
      <3>7. ASSUME NEW k \in 1..Cardinality(T)
            PROVE  \E y \in T : Cardinality(Below(T, key, key[y])) = k - 1
        <4>1. CASE k = Cardinality(T)
          <5>1. Below(T, key, key[m]) = U
            <6>1. \A y \in U : key[y] \in Int /\ key[m] \in Int /\ key[y] # key[m] /\ key[y] <= key[m]
              BY <3>3
            <6>2. \A y \in U : key[y] < key[m]
              BY <6>1
            <6>3. ~ (key[m] < key[m])
              BY <3>3
            <6> QED BY <6>2, <6>3 DEF Below
          <5> QED BY <3>3, <3>6, <4>1, <5>1
        <4>2. CASE k # Cardinality(T)
          <5>1. k \in 1..Cardinality(U)
            BY <3>6, <4>2
          <5>2. PICK y \in U : Cardinality(Below(U, key, key[y])) = k - 1
            BY <3>5, <5>1 DEF Ranked
          <5>3. ~ (key[m] < key[y])
            <6>1. key[y] \in Int /\ key[m] \in Int /\ key[y] <= key[m]
              BY <3>3, <5>2
            <6> QED BY <6>1
          <5>4. Below(T, key, key[y]) = Below(U, key, key[y])
            BY <5>3 DEF Below
          <5> QED BY <5>2, <5>4
        <4> QED BY <4>1, <4>2
      <3> QED BY <3>4, <3>7 DEF Ranked
    <2> QED BY <2>1, <2>2
  <1> HIDE DEF F
  <1>2. \A T \in SUBSET S : T \in F
    BY <1>1, FiniteInduction
  <1> QED BY <1>2 DEF F

EntriesInOrder(E) == SortedBy(E, LAMBDA a, b : a.id < b.id)

\* A sequence without repetitions of elements of S.
Lists(s, S) == s \in Seq(S) /\ \A j, k \in 1..Len(s) : s[j] = s[k] => j = k

LEMMA InOrderLists ==
    ASSUME NEW S, IsFiniteSet(S), S \subseteq Int
    PROVE  Lists(InOrder(S), S) /\ Len(InOrder(S)) = Cardinality(S)
  <1> DEFINE key == [x \in S |-> x]
             n == Cardinality(S)
             s == [k \in 1..n |-> CHOOSE x \in S : Cardinality({y \in S : y < x}) = k - 1]
  <1>1. n \in Nat
    BY FS_CardinalityType
  <1>2. Ranked(S, key)
    <2>1. (\A x \in S : key[x] \in Int) /\ \A x, y \in S : key[x] = key[y] => x = y
      OBVIOUS
    <2> HIDE DEF key
    <2> QED BY <2>1, EachRankTaken
  <1>3. \A x \in S : Below(S, key, key[x]) = {y \in S : y < x}
    BY DEF Below
  <1>4. \A k \in 1..n : \E x \in S : Cardinality({y \in S : y < x}) = k - 1
    BY <1>2, <1>3 DEF Ranked
  <1>5. \A k \in 1..n : s[k] \in S /\ Cardinality({y \in S : y < s[k]}) = k - 1
    BY <1>4
  <1>6. InOrder(S) = s
    BY DEF InOrder, SortedBy, Bind
  <1>7. s \in Seq(S) /\ Len(s) = n
    <2>1. s \in [1..n -> S]
      BY <1>5
    <2> HIDE DEF s, n
    <2> QED BY <1>1, <2>1
  <1>8. \A j, k \in 1..n : s[j] = s[k] => j = k
    <2>1. ASSUME NEW j \in 1..n, NEW k \in 1..n, s[j] = s[k] PROVE j = k
      <3>1. j - 1 = k - 1
        BY <1>5, <2>1
      <3> HIDE DEF n
      <3> QED BY <1>1, <3>1
    <2> HIDE DEF s
    <2> QED BY <2>1
  <1>9. n = Cardinality(S)
    OBVIOUS
  <1> HIDE DEF s, n
  <1>10. Lists(s, S)
    BY <1>7, <1>8 DEF Lists
  <1> QED BY <1>6, <1>7, <1>9, <1>10

LEMMA EntriesListed ==
    ASSUME NEW E, IsFiniteSet(E), \A a \in E : a.id \in Int, \A a, b \in E : a.id = b.id => a = b
    PROVE  Lists(EntriesInOrder(E), E)
  <1> DEFINE key == [a \in E |-> a.id]
             n == Cardinality(E)
             s == [k \in 1..n |-> CHOOSE x \in E : Cardinality({y \in E : y.id < x.id}) = k - 1]
  <1>1. n \in Nat
    BY FS_CardinalityType
  <1>2. Ranked(E, key)
    <2>1. (\A x \in E : key[x] \in Int) /\ \A x, y \in E : key[x] = key[y] => x = y
      OBVIOUS
    <2> HIDE DEF key
    <2> QED BY <2>1, EachRankTaken
  <1>3. \A x \in E : Below(E, key, key[x]) = {y \in E : y.id < x.id}
    BY DEF Below
  <1>4. \A k \in 1..n : \E x \in E : Cardinality({y \in E : y.id < x.id}) = k - 1
    BY <1>2, <1>3 DEF Ranked
  <1>5. \A k \in 1..n : s[k] \in E /\ Cardinality({y \in E : y.id < s[k].id}) = k - 1
    BY <1>4
  <1>6. EntriesInOrder(E) = s
    BY DEF EntriesInOrder, SortedBy, Bind
  <1>7. s \in Seq(E) /\ Len(s) = n
    <2>1. s \in [1..n -> E]
      BY <1>5
    <2> HIDE DEF s, n
    <2> QED BY <1>1, <2>1
  <1>8. \A j, k \in 1..n : s[j] = s[k] => j = k
    <2>1. ASSUME NEW j \in 1..n, NEW k \in 1..n, s[j] = s[k] PROVE j = k
      <3>1. j - 1 = k - 1
        BY <1>5, <2>1
      <3> HIDE DEF n
      <3> QED BY <1>1, <3>1
    <2> HIDE DEF s
    <2> QED BY <2>1
  <1>9. n = Cardinality(E)
    OBVIOUS
  <1> HIDE DEF s, n
  <1>10. Lists(s, E)
    BY <1>7, <1>8 DEF Lists
  <1> QED BY <1>6, <1>7, <1>9, <1>10

\* The first n of a list.
LEMMA FirstTaken ==
    ASSUME NEW S, NEW s, Lists(s, S), NEW n \in Nat, n <= Len(s)
    PROVE  /\ ToSet(SubSeq(s, 1, n)) \subseteq S
           /\ Cardinality(ToSet(SubSeq(s, 1, n))) = n
  <1>1. PICK f : f = [k \in 1..n |-> s[k]]
    OBVIOUS
  <1>2. PICK T : T = {s[k] : k \in 1..n}
    OBVIOUS
  <1>3. s \in Seq(S) /\ \A k \in 1..n : k \in 1..Len(s) /\ s[k] \in S
    BY DEF Lists
  <1>4. ToSet(SubSeq(s, 1, n)) = T
    <2>1. PICK u : u = SubSeq(s, 1, n)
      OBVIOUS
    <2>2. DOMAIN u = 1..n /\ \A k \in 1..n : u[k] = s[k]
      BY <1>3, <2>1
    <2> QED BY <1>2, <2>1, <2>2 DEF ToSet
  <1>5. f \in Bijection(1..n, T)
    BY <1>1, <1>2, <1>3 DEF Bijection, Injection, Surjection, IsInjective, Lists
  <1>6. IsFiniteSet(1..n) /\ Cardinality(1..n) = n
    BY FS_Interval
  <1>7. Cardinality(T) = n
    BY <1>5, <1>6, FS_Bijection DEF ExistsBijection
  <1>8. T \subseteq S
    BY <1>2, <1>3
  <1> QED BY <1>4, <1>7, <1>8

-----------------------------------------------------------------------------
(* The runner's operations in these names.                                 *)

LEMMA WithoutFolds ==
    ASSUME NEW id, NEW S, NEW s \in Seq(S)
    PROVE  \E f : /\ f[0] = <<>>
                  /\ \A k \in 1..Len(s) : f[k] = Kept(f[k - 1], s[k], id)
                  /\ Without(s, id) = f[Len(s)]
  <1> DEFINE turns == [k \in 1..Len(s) |-> [kind |-> "drop", item |-> s[k], id |-> id]]
             T(f) == f = [m \in 0..Len(s) |-> IF m = 0 THEN <<>>
                                               ELSE Kept(f[m - 1], s[m], id)]
             f == CHOOSE f : T(f)
  <1>1. Len(s) \in Nat
    OBVIOUS
  <1>2. PICK d : Turns(d, <<>>, turns, Len(s))
    BY <1>1, TurnsExist
  <1>3. \A k \in 1..Len(s) : \A v : Turn(v, turns[k]) = Kept(v, s[k], id)
    BY DEF Turn
  <1>4. T(d)
    <2>1. \A k \in 0..Len(s) :
            (IF k = 0 THEN <<>> ELSE Turn(d[k - 1], turns[k]))
              = (IF k = 0 THEN <<>> ELSE Kept(d[k - 1], s[k], id))
      BY <1>3
    <2> HIDE DEF turns
    <2> QED BY <1>2, <2>1 DEF Turns
  <1>5. T(f)
    BY <1>4
  <1>6. Without(s, id) = f[Len(s)]
    BY DEF Without, Fold, Bind
  <1>7. /\ f[0] = <<>>
        /\ \A k \in 1..Len(s) : f[k] = Kept(f[k - 1], s[k], id)
    <2> HIDE DEF f
    <2> QED BY <1>1, <1>5
  <1> QED BY <1>6, <1>7

LEMMA AppendRange ==
    ASSUME NEW S, NEW s \in Seq(S), NEW x \in S
    PROVE  Append(s, x) \in Seq(S) /\ Range(Append(s, x)) = Range(s) \cup {x}
  <1> DEFINE t == Append(s, x)
             n == Len(s)
  <1>1. /\ n \in Nat /\ DOMAIN s = 1..n /\ t \in Seq(S) /\ DOMAIN t = 1..(n + 1)
        /\ t[n + 1] = x /\ \A k \in 1..n : t[k] = s[k]
    OBVIOUS
  <1> HIDE DEF t, n
  <1>2. \A k \in 1..(n + 1) : k \in 1..n \/ k = n + 1
    BY <1>1
  <1>3. n + 1 \in 1..(n + 1) /\ \A k \in 1..n : k \in 1..(n + 1)
    BY <1>1
  <1>4. Range(t) = Range(s) \cup {x}
    BY <1>1, <1>2, <1>3 DEF Range
  <1> QED BY <1>1, <1>4 DEF t

LEMMA WithoutDrops ==
    ASSUME NEW id, NEW S, NEW s \in Seq(S)
    PROVE  /\ Without(s, id) \in Seq(S)
           /\ \A e \in Range(Without(s, id)) : e \in Range(s) /\ e.id # id
  <1>1. PICK f : /\ f[0] = <<>>
                 /\ \A k \in 1..Len(s) : f[k] = Kept(f[k - 1], s[k], id)
                 /\ Without(s, id) = f[Len(s)]
    BY WithoutFolds
  <1> DEFINE P(u) == u \in Seq(S) /\ \A e \in Range(u) : e \in Range(s) /\ e.id # id
             F == {k \in 0..Len(s) : P(f[k])}
  <1>2. Len(s) \in Nat /\ 0 \in F
    <2>1. Range(<<>>) = {}
      BY DEF Range
    <2>2. P(<<>>)
      BY <2>1
    <2>3. Len(s) \in Nat /\ 0 \in 0..Len(s)
      OBVIOUS
    <2> HIDE DEF P
    <2> QED BY <1>1, <2>2, <2>3
  <1>3. ASSUME NEW k \in 1..Len(s), k - 1 \in F PROVE k \in F
    <2>1. PICK u \in Seq(S) : u = f[k - 1] /\ P(u)
      BY <1>3
    <2>2. CASE s[k].id = id
      BY <1>1, <2>1, <2>2 DEF Kept
    <2>3. CASE s[k].id # id
      <3>4. f[k] = Kept(u, s[k], id)
        BY <1>1, <2>1
      <3>5. s[k] \in S /\ s[k] \in Range(s)
        BY DEF Range
      <3>1. f[k] = Append(u, s[k]) /\ s[k] \in S /\ s[k] \in Range(s)
        BY <2>3, <3>4, <3>5 DEF Kept
      <3>2. Append(u, s[k]) \in Seq(S) /\ Range(Append(u, s[k])) = Range(u) \cup {s[k]}
        BY <3>1, AppendRange
      <3>3. P(Append(u, s[k]))
        BY <2>1, <2>3, <3>1, <3>2
      <3>6. k \in 0..Len(s)
        OBVIOUS
      <3> HIDE DEF P
      <3> QED BY <3>1, <3>3, <3>6
    <2> QED BY <2>2, <2>3
  <1> HIDE DEF F
  <1>4. Len(s) \in F
    <2>1. \A k \in 0..Len(s) : k \in F
      BY <1>2, <1>3, PrefixInduction
    <2> QED BY <1>2, <2>1
  <1> QED BY <1>1, <1>4 DEF F

Heads(r, x) ==
    {c \in r.free[x] :
       /\ r.queue[x][c] # <<>>
       /\ r.dag.tasks[Head(r.queue[x][c]).task].memory <= r.memory[x]
       /\ ToSet(r.dag.tasks[Head(r.queue[x][c]).task].inputs) \subseteq r.held[x]}

HeadsOf(q, H) == {Head(q[c]) : c \in H}

LEMMA PassIs ==
    ASSUME NEW r, NEW x
    PROVE  Pass(r, x) = StartReady(r, x, r.queue[x], Heads(r, x),
                                   EntriesInOrder(HeadsOf(r.queue[x], Heads(r, x))))
  <1> DEFINE start(H) == StartReady(r, x, r.queue[x], H, EntriesInOrder(HeadsOf(r.queue[x], H)))
  <1>1. Pass(r, x) = Bind(Heads(r, x), start)
    BY DEF Pass, StartReady, EntriesInOrder, Heads, HeadsOf, Showing
  <1>2. Bind(Heads(r, x), start) = start(Heads(r, x))
    <2> HIDE DEF start
    <2> QED BY DEF Bind
  <1> QED BY <1>1, <1>2

LEMMA ProcessIs ==
    ASSUME NEW r, NEW x
    PROVE  ProcessResourceQueue(r, x) = Passes(r, x, r.dag.tasks)
  BY DEF ProcessResourceQueue, Passes

LEMMA ReadyIs ==
    ASSUME NEW g, NEW i
    PROVE  ItemReady(g, i) = ReadyAll([g EXCEPT !.items[i].state = "Ready"], g.items[i].consumers)
  BY DEF ItemReady, ReadyAll

LEMMA SendIs ==
    ASSUME NEW r, NEW i, NEW n
    PROVE  SendWanted(r, i, n) = TransferAll([r EXCEPT !.wanted[n][i] = <<>>], i, n, r.wanted[n][i])
  BY DEF SendWanted, TransferAll

LEMMA ConsumersIs ==
    ASSUME NEW r, NEW i, NEW x
    PROVE  SendToConsumers(r, i, x) = DeliverAll(r, i, x, r.dag.items[i].consumers)
  BY DEF SendToConsumers, DeliverAll, Deliver

-----------------------------------------------------------------------------
(* The graph.  Its tasks and items change state, nothing else.             *)

\* Tasks and items name each other.
GraphTyped(g) ==
    /\ DOMAIN g = GraphFields /\ \E S : g.tasks \in Seq(S)
    /\ \A t \in Tasks(g) : TaskTyped(g, t)
    /\ \A i \in Items(g) : ItemTyped(g, i)

\* h is g in other states.
Restated(h, g) ==
    /\ DOMAIN h = DOMAIN g /\ Tasks(h) = Tasks(g) /\ Items(h) = Items(g)
    /\ \E S : h.tasks \in Seq(S)
    /\ \A t \in Tasks(g) :
         /\ DOMAIN h.tasks[t] = DOMAIN g.tasks[t]
         /\ h.tasks[t].memory = g.tasks[t].memory
         /\ h.tasks[t].inputs = g.tasks[t].inputs /\ h.tasks[t].outputs = g.tasks[t].outputs
    /\ \A i \in Items(g) :
         /\ DOMAIN h.items[i] = DOMAIN g.items[i]
         /\ h.items[i].producer = g.items[i].producer
         /\ h.items[i].consumers = g.items[i].consumers

LEMMA RestatedTyped ==
    ASSUME NEW g, NEW h, GraphTyped(g), Restated(h, g)
    PROVE  GraphTyped(h)
  <1>1. /\ DOMAIN g = GraphFields
        /\ \A t \in Tasks(g) : TaskTyped(g, t)
        /\ \A i \in Items(g) : ItemTyped(g, i)
    BY DEF GraphTyped
  <1>2. /\ DOMAIN h = DOMAIN g /\ Tasks(h) = Tasks(g) /\ Items(h) = Items(g)
        /\ \E S : h.tasks \in Seq(S)
    BY DEF Restated
  <1>3. ASSUME NEW t \in Tasks(g) PROVE TaskTyped(h, t)
    <2>1. /\ DOMAIN g.tasks[t] = TaskFields /\ g.tasks[t].memory \in Nat
          /\ g.tasks[t].inputs \in Seq(Items(g)) /\ g.tasks[t].outputs \in Seq(Items(g))
          /\ \A i \in Range(g.tasks[t].outputs) : g.items[i].producer = t
      BY <1>1 DEF TaskTyped
    <2>2. /\ DOMAIN h.tasks[t] = DOMAIN g.tasks[t]
          /\ h.tasks[t].memory = g.tasks[t].memory
          /\ h.tasks[t].inputs = g.tasks[t].inputs /\ h.tasks[t].outputs = g.tasks[t].outputs
      BY DEF Restated
    <2>3. \A i \in Range(g.tasks[t].outputs) : i \in Items(g)
      BY <2>1 DEF Range
    <2>4. \A i \in Range(h.tasks[t].outputs) : h.items[i].producer = t
      BY <2>1, <2>2, <2>3 DEF Restated
    <2> QED BY <1>2, <2>1, <2>2, <2>4 DEF TaskTyped
  <1>4. ASSUME NEW i \in Items(g) PROVE ItemTyped(h, i)
    <2>1. /\ DOMAIN g.items[i] = ItemFields /\ g.items[i].consumers \in Seq(Tasks(g))
          /\ \A t \in Range(g.items[i].consumers) : i \in Range(g.tasks[t].inputs)
      BY <1>1 DEF ItemTyped
    <2>2. /\ DOMAIN h.items[i] = DOMAIN g.items[i]
          /\ h.items[i].consumers = g.items[i].consumers
      BY DEF Restated
    <2>3. \A t \in Range(g.items[i].consumers) : t \in Tasks(g)
      BY <2>1 DEF Range
    <2>4. \A t \in Range(h.items[i].consumers) : i \in Range(h.tasks[t].inputs)
      BY <2>1, <2>2, <2>3 DEF Restated
    <2> QED BY <1>2, <2>1, <2>2, <2>4 DEF ItemTyped
  <1> QED BY <1>1, <1>2, <1>3, <1>4 DEF GraphTyped

LEMMA RestatedTwice ==
    ASSUME NEW g, NEW h, NEW e, Restated(h, g), Restated(e, h)
    PROVE  Restated(e, g)
  BY DEF Restated, Tasks, Items

LEMMA RestatedSelf ==
    ASSUME NEW g, GraphTyped(g)
    PROVE  Restated(g, g)
  BY DEF GraphTyped, Restated

State(g, t) == g.tasks[t].state
ItemState(g, i) == g.items[i].state

Engaged(s) == s \in {"Running", "Done"}
Queued(s)  == s \in {"Scheduled", "Runnable", "Panic"}

\* A task that waits goes on waiting.
Calm(h, g, t) ==
    /\ Engaged(State(g, t)) => State(h, t) = State(g, t)
    /\ ~ Engaged(State(g, t)) => ~ Engaged(State(h, t))
    /\ Queued(State(g, t)) => Queued(State(h, t))

\* One field of a task.
LEMMA TaskRestated ==
    ASSUME NEW g, GraphTyped(g), NEW t \in Tasks(g), NEW v,
           DOMAIN v = TaskFields, v.memory = g.tasks[t].memory,
           v.inputs = g.tasks[t].inputs, v.outputs = g.tasks[t].outputs,
           NEW h, DOMAIN h = DOMAIN g, h.tasks = [g.tasks EXCEPT ![t] = v], h.items = g.items
    PROVE  /\ Restated(h, g) /\ State(h, t) = v.state
           /\ \A u \in Tasks(g) : u # t => State(h, u) = State(g, u)
           /\ \A i \in Items(g) : ItemState(h, i) = ItemState(g, i)
  <1>1. PICK S : g.tasks \in Seq(S)
    BY DEF GraphTyped
  <1>2. PICK T : T = S \cup {v}
    OBVIOUS
  <1>3. PICK s \in Seq(T) : s = g.tasks
    BY <1>1, <1>2
  <1>4. [s EXCEPT ![t] = v] \in Seq(T) /\ t \in DOMAIN s
    BY <1>2, <1>3 DEF Tasks
  <1>5. h.tasks \in Seq(T)
    BY <1>3, <1>4
  <1>6. DOMAIN g.tasks[t] = TaskFields
    BY DEF GraphTyped, TaskTyped
  <1>7. /\ DOMAIN h.tasks = DOMAIN g.tasks /\ h.tasks[t] = v
        /\ \A u \in Tasks(g) : u # t => h.tasks[u] = g.tasks[u]
    BY <1>3, <1>4 DEF Tasks
  <1>8. Restated(h, g)
    <2>1. \A u \in Tasks(g) :
            /\ DOMAIN h.tasks[u] = DOMAIN g.tasks[u]
            /\ h.tasks[u].memory = g.tasks[u].memory
            /\ h.tasks[u].inputs = g.tasks[u].inputs /\ h.tasks[u].outputs = g.tasks[u].outputs
      BY <1>6, <1>7
    <2> QED BY <1>5, <1>7, <2>1 DEF Restated, Tasks, Items
  <1> QED BY <1>7, <1>8 DEF State, ItemState

LEMMA InputReadyRestates ==
    ASSUME NEW g, GraphTyped(g), NEW t \in Tasks(g), ~ Engaged(State(g, t)),
           NEW h, h = InputReady(g, t)
    PROVE  /\ Restated(h, g) /\ Calm(h, g, t)
           /\ \A u \in Tasks(g) : u # t => State(h, u) = State(g, u)
           /\ \A i \in Items(g) : ItemState(h, i) = ItemState(g, i)
  <1> DEFINE all == g.tasks[t].readyInputs + 1 = Len(g.tasks[t].inputs)
             s == IF ~ all THEN g.tasks[t].state
                  ELSE CASE g.tasks[t].state = "Pending"   -> "Ready"
                         [] g.tasks[t].state = "Scheduled" -> "Runnable"
                         [] OTHER                          -> "Panic"
  <1>1. PICK v : v = [g.tasks[t] EXCEPT !.readyInputs = @ + 1, !.state = s]
    OBVIOUS
  <1>2. DOMAIN g.tasks[t] = TaskFields /\ DOMAIN g = GraphFields
    BY DEF GraphTyped, TaskTyped
  <1>3. /\ DOMAIN v = TaskFields /\ v.memory = g.tasks[t].memory /\ v.state = s
        /\ v.inputs = g.tasks[t].inputs /\ v.outputs = g.tasks[t].outputs
    <2> HIDE DEF s
    <2> QED BY <1>1, <1>2 DEF TaskFields
  <1>4. DOMAIN h = DOMAIN g /\ h.tasks = [g.tasks EXCEPT ![t] = v] /\ h.items = g.items
    BY <1>1, <1>2 DEF InputReady, GraphFields, Tasks
  <1>5. State(h, t) = s
    BY <1>3, <1>4, TaskRestated
  <1>6. Calm(h, g, t)
    BY <1>5 DEF Calm, Engaged, Queued, State
  <1> QED BY <1>3, <1>4, <1>6, TaskRestated

\* h is g after some tasks that wait have been told of items.
Told(h, g) == Restated(h, g) /\ \A t \in Tasks(g) : Calm(h, g, t)

LEMMA ToldTwice ==
    ASSUME NEW g, NEW h, NEW e, Told(h, g), Told(e, h)
    PROVE  Told(e, g)
  <1>1. Restated(e, g) /\ Tasks(h) = Tasks(g)
    BY RestatedTwice DEF Told, Restated
  <1> QED BY <1>1 DEF Told, Calm

LEMMA ReadyAllTells ==
    ASSUME NEW g, GraphTyped(g), NEW s \in Seq(Tasks(g)), NEW h, h = ReadyAll(g, s),
           \A t \in Range(s) : ~ Engaged(State(g, t))
    PROVE  Told(h, g) /\ \A i \in Items(g) : ItemState(h, i) = ItemState(g, i)
  <1>1. PICK f : /\ f[0] = g
                 /\ \A k \in 1..Len(s) : f[k] = InputReady(f[k - 1], s[k])
                 /\ ReadyAll(g, s) = f[Len(s)]
    BY ReadyAllFolds
  <1> DEFINE P(e) == Told(e, g) /\ \A i \in Items(g) : ItemState(e, i) = ItemState(g, i)
             F == {k \in 0..Len(s) : P(f[k])}
  <1>2. Len(s) \in Nat /\ 0 \in F
    <2>1. P(g)
      BY RestatedSelf DEF Told, Calm
    <2>2. Len(s) \in Nat /\ 0 \in 0..Len(s)
      OBVIOUS
    <2> HIDE DEF P
    <2> QED BY <1>1, <2>1, <2>2
  <1>3. ASSUME NEW k \in 1..Len(s), k - 1 \in F PROVE k \in F
    <2>1. PICK e : e = f[k - 1] /\ P(e)
      BY <1>3
    <2>2. PICK t : t = s[k] /\ t \in Tasks(g) /\ t \in Range(s)
      BY DEF Range
    <2>3. PICK d : d = InputReady(e, t)
      OBVIOUS
    <2>4. GraphTyped(e) /\ t \in Tasks(e) /\ ~ Engaged(State(e, t)) /\ Items(e) = Items(g) /\ Tasks(e) = Tasks(g)
      BY <2>1, <2>2, RestatedTyped DEF Told, Calm, Restated
    <2>5. /\ Restated(d, e) /\ Calm(d, e, t)
          /\ \A u \in Tasks(e) : u # t => State(d, u) = State(e, u)
          /\ \A i \in Items(e) : ItemState(d, i) = ItemState(e, i)
      BY <2>3, <2>4, InputReadyRestates
    <2>6. Told(d, e)
      BY <2>5 DEF Told, Calm
    <2>7. P(d)
      BY <2>1, <2>4, <2>5, <2>6, ToldTwice
    <2>8. f[k] = d /\ k \in 0..Len(s)
      BY <1>1, <2>1, <2>2, <2>3
    <2> HIDE DEF P
    <2> QED BY <2>7, <2>8
  <1> HIDE DEF F
  <1>4. Len(s) \in F
    <2>1. \A k \in 0..Len(s) : k \in F
      BY <1>2, <1>3, PrefixInduction
    <2> QED BY <1>2, <2>1
  <1> QED BY <1>1, <1>4 DEF F

LEMMA ItemRestated ==
    ASSUME NEW g, GraphTyped(g), NEW i \in Items(g),
           NEW h, h = [g EXCEPT !.items[i].state = "Ready"]
    PROVE  /\ Told(h, g) /\ (\A t \in Tasks(g) : State(h, t) = State(g, t))
           /\ ItemState(h, i) = "Ready"
           /\ \A j \in Items(g) : j # i => ItemState(h, j) = ItemState(g, j)
  <1>1. PICK v : v = [g.items[i] EXCEPT !.state = "Ready"]
    OBVIOUS
  <1>2. DOMAIN g.items[i] = ItemFields /\ DOMAIN g = GraphFields /\ \E S : g.tasks \in Seq(S)
    BY DEF GraphTyped, ItemTyped
  <1>3. /\ DOMAIN v = ItemFields /\ v.producer = g.items[i].producer
        /\ v.consumers = g.items[i].consumers /\ v.state = "Ready"
    BY <1>1, <1>2 DEF ItemFields
  <1>4. DOMAIN h = DOMAIN g /\ h.items = [g.items EXCEPT ![i] = v] /\ h.tasks = g.tasks
    BY <1>1, <1>2 DEF GraphFields
  <1>5. /\ DOMAIN h.items = DOMAIN g.items /\ h.items[i] = v
        /\ \A j \in Items(g) : j # i => h.items[j] = g.items[j]
    BY <1>4 DEF Items
  <1>6. Restated(h, g)
    <2>1. \A j \in Items(g) :
            /\ DOMAIN h.items[j] = DOMAIN g.items[j]
            /\ h.items[j].producer = g.items[j].producer
            /\ h.items[j].consumers = g.items[j].consumers
      BY <1>2, <1>3, <1>5
    <2> QED BY <1>2, <1>4, <1>5, <2>1 DEF Restated, Tasks, Items
  <1> QED BY <1>3, <1>4, <1>5, <1>6 DEF State, ItemState, Told, Calm

\* Nothing but the state of the item and of those that wait for it.
LEMMA ItemReadyTells ==
    ASSUME NEW g, GraphTyped(g), NEW i \in Items(g), NEW h, h = ItemReady(g, i),
           \A t \in Range(g.items[i].consumers) : ~ Engaged(State(g, t))
    PROVE  /\ Told(h, g) /\ ItemState(h, i) = "Ready"
           /\ \A j \in Items(g) : j # i => ItemState(h, j) = ItemState(g, j)
  <1>1. PICK e : e = [g EXCEPT !.items[i].state = "Ready"]
    OBVIOUS
  <1>2. PICK s : s = g.items[i].consumers /\ s \in Seq(Tasks(g))
    BY DEF GraphTyped, ItemTyped
  <1>3. /\ Told(e, g) /\ (\A t \in Tasks(g) : State(e, t) = State(g, t))
        /\ ItemState(e, i) = "Ready"
        /\ \A j \in Items(g) : j # i => ItemState(e, j) = ItemState(g, j)
    BY <1>1, ItemRestated
  <1>4. h = ReadyAll(e, s)
    BY <1>1, <1>2, ReadyIs
  <1>5. GraphTyped(e) /\ Tasks(e) = Tasks(g) /\ Items(e) = Items(g)
    BY <1>3, RestatedTyped DEF Told, Restated
  <1>6. s \in Seq(Tasks(e)) /\ \A t \in Range(s) : ~ Engaged(State(e, t))
    <2>1. \A t \in Range(s) : t \in Tasks(g)
      BY <1>2 DEF Range
    <2> QED BY <1>2, <1>3, <1>5, <2>1
  <1>7. Told(h, e) /\ \A j \in Items(e) : ItemState(h, j) = ItemState(e, j)
    BY <1>4, <1>5, <1>6, ReadyAllTells
  <1>8. Told(h, g)
    BY <1>3, <1>7, ToldTwice
  <1> QED BY <1>3, <1>5, <1>7, <1>8

\* What has begun has its inputs, and what is there has been made.
GraphLive(g) ==
    /\ \A t \in Tasks(g) : Engaged(State(g, t)) =>
         \A i \in Range(g.tasks[t].inputs) : ItemState(g, i) = "Ready"
    /\ \A i \in Items(g) : ItemState(g, i) = "Ready" /\ g.items[i].producer \in Tasks(g) =>
         State(g, g.items[i].producer) = "Done"

\* The items that are there are still there.
Grown(h, g) == \A i \in Items(g) : ItemState(g, i) = "Ready" => ItemState(h, i) = "Ready"

LEMMA StateIs ==
    ASSUME NEW g, GraphTyped(g), NEW t \in Tasks(g), NEW state, state # "Done", state # "Ready",
           NEW h, h = UpdateTaskState(g, t, state)
    PROVE  /\ Restated(h, g) /\ State(h, t) = state
           /\ \A u \in Tasks(g) : u # t => State(h, u) = State(g, u)
           /\ \A i \in Items(g) : ItemState(h, i) = ItemState(g, i)
  <1>1. PICK v : v = [g.tasks[t] EXCEPT !.state = state]
    OBVIOUS
  <1>2. DOMAIN g.tasks[t] = TaskFields /\ DOMAIN g = GraphFields
    BY DEF GraphTyped, TaskTyped
  <1>3. /\ DOMAIN v = TaskFields /\ v.memory = g.tasks[t].memory /\ v.state = state
        /\ v.inputs = g.tasks[t].inputs /\ v.outputs = g.tasks[t].outputs
    BY <1>1, <1>2 DEF TaskFields
  <1>4. DOMAIN h = DOMAIN g /\ h.tasks = [g.tasks EXCEPT ![t] = v] /\ h.items = g.items
    BY <1>1, <1>2 DEF UpdateTaskState, GraphFields, Tasks
  <1> QED BY <1>3, <1>4, TaskRestated

\* A task that runs is done: its outputs are there.
LEMMA DoneIs ==
    ASSUME NEW g, GraphTyped(g), GraphLive(g), NEW t \in Tasks(g), State(g, t) = "Running",
           NEW h, h = UpdateTaskState(g, t, "Done")
    PROVE  /\ Restated(h, g) /\ GraphLive(h) /\ Grown(h, g) /\ State(h, t) = "Done"
           /\ \A u \in Tasks(g) : u # t => Calm(h, g, u)
           /\ \A i \in Range(g.tasks[t].outputs) : ItemState(h, i) = "Ready"
  <1>1. PICK v : v = [g.tasks[t] EXCEPT !.state = "Done"]
    OBVIOUS
  <1>2. PICK d : d = [g EXCEPT !.tasks[t].state = "Done", !.ready = @ \ {t}]
    OBVIOUS
  <1>3. PICK b : b = [d EXCEPT !.completed = @ + 1]
    OBVIOUS
  <1>4. DOMAIN g.tasks[t] = TaskFields /\ DOMAIN g = GraphFields
    BY DEF GraphTyped, TaskTyped
  <1>5. /\ DOMAIN v = TaskFields /\ v.memory = g.tasks[t].memory /\ v.state = "Done"
        /\ v.inputs = g.tasks[t].inputs /\ v.outputs = g.tasks[t].outputs
    BY <1>1, <1>4 DEF TaskFields
  <1>6. DOMAIN d = DOMAIN g /\ d.tasks = [g.tasks EXCEPT ![t] = v] /\ d.items = g.items
    BY <1>1, <1>2, <1>4 DEF GraphFields, Tasks
  <1>7. DOMAIN b = DOMAIN g /\ b.tasks = [g.tasks EXCEPT ![t] = v] /\ b.items = g.items
    BY <1>3, <1>4, <1>6 DEF GraphFields
  <1>8. /\ Restated(b, g) /\ State(b, t) = "Done"
        /\ \A u \in Tasks(g) : u # t => State(b, u) = State(g, u)
        /\ \A i \in Items(g) : ItemState(b, i) = ItemState(g, i)
    BY <1>5, <1>7, TaskRestated
  <1>9. PICK s : s = g.tasks[t].outputs /\ s \in Seq(Items(g)) /\ \A i \in Range(s) : g.items[i].producer = t
    BY DEF GraphTyped, TaskTyped
  <1>10. h = ItemsReady(b, s)
    BY <1>2, <1>3, <1>9 DEF UpdateTaskState, ItemsReady
  <1>11. PICK f : /\ f[0] = b
                  /\ \A k \in 1..Len(s) : f[k] = ItemReady(f[k - 1], s[k])
                  /\ ItemsReady(b, s) = f[Len(s)]
    <2>1. s \in Seq(Items(g))
      BY <1>9
    <2> QED BY ONLY <2>1, ItemsReadyFolds
  <1> DEFINE P(e, k) ==
               /\ Told(e, b)
               /\ \A i \in Items(g) : ItemState(g, i) = "Ready" => ItemState(e, i) = "Ready"
               /\ \A i \in Items(g) : /\ ItemState(e, i) = "Ready"
                                      /\ ItemState(g, i) # "Ready" => g.items[i].producer = t
                                   \/ ItemState(e, i) # "Ready"
               /\ \A j \in 1..k : ItemState(e, s[j]) = "Ready"
             F == {k \in 0..Len(s) : P(f[k], k)}
  <1>12. Len(s) \in Nat /\ 0 \in F
    <2>1. Told(b, b)
      <3>1. GraphTyped(b)
        BY <1>8, RestatedTyped
      <3> QED BY <3>1, RestatedSelf DEF Told, Calm
    <2>2. Len(s) \in Nat /\ 0 \in 0..Len(s)
      BY <1>9
    <2>3. P(b, 0)
      BY <1>8, <2>1
    <2> HIDE DEF P
    <2> QED BY <1>11, <2>2, <2>3
  <1>13. \A i \in Range(s) : \A u \in Range(g.items[i].consumers) :
           u \in Tasks(g) /\ u # t /\ ~ Engaged(State(g, u))
    <2> TAKE i \in Range(s)
    <2>1. i \in Items(g) /\ g.items[i].producer = t
      BY <1>9 DEF Range
    <2> TAKE u \in Range(g.items[i].consumers)
    <2>2. u \in Tasks(g) /\ i \in Range(g.tasks[u].inputs)
      <3>1. /\ g.items[i].consumers \in Seq(Tasks(g))
            /\ \A c \in Range(g.items[i].consumers) : i \in Range(g.tasks[c].inputs)
        BY <2>1 DEF GraphTyped, ItemTyped
      <3> QED BY <3>1 DEF Range
    <2>3. ItemState(g, i) # "Ready"
      BY <2>1 DEF GraphLive
    <2>4. ~ Engaged(State(g, u))
      BY <2>2, <2>3 DEF GraphLive
    <2> QED BY <2>2, <2>4 DEF Engaged
  <1>14. ASSUME NEW k \in 1..Len(s), k - 1 \in F PROVE k \in F
    <2>1. PICK e : e = f[k - 1] /\ P(e, k - 1)
      BY <1>14
    <2>2. PICK i : i = s[k] /\ i \in Items(g) /\ i \in Range(s) /\ g.items[i].producer = t
      BY <1>9 DEF Range
    <2>3. PICK c : c = ItemReady(e, i)
      OBVIOUS
    <2>4. Restated(e, g) /\ GraphTyped(e) /\ GraphTyped(b) /\ Tasks(b) = Tasks(g)
      <3>1. Restated(b, g) /\ Restated(e, b)
        BY <1>8, <2>1 DEF Told
      <3>2. GraphTyped(b) /\ Tasks(b) = Tasks(g)
        BY <3>1, RestatedTyped DEF Restated
      <3>3. Restated(e, g)
        BY ONLY <3>1, RestatedTwice
      <3> QED BY <3>2, <3>3, RestatedTyped
    <2>5. /\ Tasks(e) = Tasks(g) /\ Items(e) = Items(g)
          /\ e.items[i].consumers = g.items[i].consumers
      BY <2>2, <2>4 DEF Restated
    <2>6. \A u \in Range(e.items[i].consumers) : ~ Engaged(State(e, u))
      BY <1>8, <1>13, <2>1, <2>2, <2>4, <2>5 DEF Told, Calm
    <2>7. /\ Told(c, e) /\ ItemState(c, i) = "Ready"
          /\ \A j \in Items(e) : j # i => ItemState(c, j) = ItemState(e, j)
      BY <2>2, <2>3, <2>4, <2>5, <2>6, ItemReadyTells
    <2>8. Told(c, b)
      BY <2>1, <2>7, ToldTwice
    <2>9. \A j \in 1..k : j \in 1..(k - 1) \/ j = k
      OBVIOUS
    <2>10. \A j \in 1..k : s[j] \in Items(g)
      BY <1>9
    <2>11. P(c, k)
      BY <2>1, <2>2, <2>5, <2>7, <2>8, <2>9, <2>10
    <2>12. f[k] = c /\ k \in 0..Len(s)
      BY <1>11, <2>1, <2>2, <2>3
    <2> HIDE DEF P
    <2> QED BY <2>11, <2>12
  <1> HIDE DEF F
  <1>15. Len(s) \in F
    <2>1. \A k \in 0..Len(s) : k \in F
      BY <1>12, <1>14, PrefixInduction
    <2> QED BY <1>12, <2>1
  <1>16. P(h, Len(s))
    BY <1>10, <1>11, <1>15 DEF F
  <1>17. Restated(h, g)
    BY <1>8, <1>16, RestatedTwice DEF Told
  <1>18. State(h, t) = "Done" /\ \A u \in Tasks(g) : u # t => Calm(h, g, u)
    BY <1>8, <1>16 DEF Told, Calm, Restated, Engaged
  <1>19. Grown(h, g)
    BY <1>16 DEF Grown
  <1>20. \A i \in Range(s) : ItemState(h, i) = "Ready"
    BY <1>9, <1>16 DEF Range
  <1>21. GraphLive(h)
    <2>1. ASSUME NEW u \in Tasks(g), Engaged(State(h, u)), NEW i \in Range(g.tasks[u].inputs)
          PROVE  ItemState(h, i) = "Ready"
      <3>1. Engaged(State(g, u))
        BY <1>18, <2>1 DEF Calm, Engaged
      <3>2. i \in Items(g)
        BY DEF GraphTyped, TaskTyped, Range
      <3> QED BY <1>19, <3>1, <3>2 DEF GraphLive, Grown
    <2>2. ASSUME NEW i \in Items(g), ItemState(h, i) = "Ready", g.items[i].producer \in Tasks(g)
          PROVE  State(h, g.items[i].producer) = "Done"
      <3>1. CASE ItemState(g, i) = "Ready"
        <4>1. State(g, g.items[i].producer) = "Done"
          BY <2>2, <3>1 DEF GraphLive
        <4> QED BY <1>18, <2>2, <4>1 DEF Calm, Engaged
      <3>2. CASE ItemState(g, i) # "Ready"
        BY <1>16, <1>18, <2>2, <3>2
      <3> QED BY <3>1, <3>2
    <2> QED BY <1>17, <2>1, <2>2 DEF GraphLive, Restated
  <1> QED BY <1>9, <1>17, <1>18, <1>19, <1>20, <1>21

\* A task that waits begins, or goes on waiting in another state.
LEMMA LiveRestated ==
    ASSUME NEW g, NEW h, GraphTyped(g), GraphLive(g), NEW t \in Tasks(g),
           ~ Engaged(State(g, t)), Restated(h, g), State(h, t) # "Done",
           \A u \in Tasks(g) : u # t => State(h, u) = State(g, u),
           \A i \in Items(g) : ItemState(h, i) = ItemState(g, i),
           Engaged(State(h, t)) => \A i \in Range(g.tasks[t].inputs) : ItemState(g, i) = "Ready"
    PROVE  GraphLive(h)
  <1>1. /\ Tasks(h) = Tasks(g) /\ Items(h) = Items(g)
        /\ \A u \in Tasks(g) : h.tasks[u].inputs = g.tasks[u].inputs
        /\ \A i \in Items(g) : h.items[i].producer = g.items[i].producer
    BY DEF Restated
  <1>2. \A u \in Tasks(g) : \A i \in Range(g.tasks[u].inputs) : i \in Items(g)
    BY DEF GraphTyped, TaskTyped, Range
  <1>3. ASSUME NEW u \in Tasks(g), Engaged(State(h, u)), NEW i \in Range(g.tasks[u].inputs)
        PROVE  ItemState(h, i) = "Ready"
    <2>1. u # t => Engaged(State(g, u))
      BY <1>3
    <2>2. ItemState(g, i) = "Ready"
      BY <1>3, <2>1 DEF GraphLive
    <2> QED BY <1>2, <2>2
  <1>4. ASSUME NEW i \in Items(g), ItemState(h, i) = "Ready", g.items[i].producer \in Tasks(g)
        PROVE  State(h, g.items[i].producer) = "Done"
    <2>1. State(g, g.items[i].producer) = "Done"
      BY <1>4 DEF GraphLive
    <2> QED BY <1>4, <2>1 DEF Engaged
  <1> QED BY <1>1, <1>3, <1>4 DEF GraphLive

-----------------------------------------------------------------------------
(* The sum of what f says of the members of S.                             *)
Total(f, S) == SumFunction([x \in S |-> f[x]])

LEMMA TotalTyped ==
    ASSUME NEW S, IsFiniteSet(S), NEW f, \A x \in S : f[x] \in Nat
    PROVE  Total(f, S) \in Nat
  <1>1. PICK g : g = [x \in S |-> f[x]]
    OBVIOUS
  <1>2. g \in [S -> Nat]
    BY <1>1
  <1> QED BY <1>1, <1>2, SumTyped DEF Total

LEMMA TotalNone ==
    ASSUME NEW f
    PROVE  Total(f, {}) = 0
  <1>1. PICK g : g = [x \in {} |-> f[x]]
    OBVIOUS
  <1>2. g \in [{} -> Nat] /\ \A x \in {} : g[x] = 0
    BY <1>1
  <1> QED BY <1>1, <1>2, FS_EmptySet, SumOfZeros DEF Total

LEMMA TotalGrows ==
    ASSUME NEW S, IsFiniteSet(S), NEW f, \A y \in S : f[y] \in Nat, NEW x, x \notin S, f[x] \in Nat
    PROVE  /\ Total(f, S \cup {x}) = Total(f, S) + f[x]
           /\ IsFiniteSet(S \cup {x}) /\ Total(f, S \cup {x}) \in Nat
  <1>1. PICK g : g = [y \in S |-> f[y]]
    OBVIOUS
  <1>2. PICK h : h = [y \in S \cup {x} |-> f[y]]
    OBVIOUS
  <1>3. g \in [S -> Nat] /\ h \in [S \cup {x} -> Nat] /\ \A y \in S : h[y] = g[y]
    BY <1>1, <1>2
  <1>4. SumFunction(h) = SumFunction(g) + h[x] /\ IsFiniteSet(S \cup {x})
    <2>1. IsFiniteSet(S \cup {x})
      BY FS_AddElement
    <2>2. SumFunction(h) = SumFunction(g) + h[x]
      BY ONLY <1>3, SumExtended, IsFiniteSet(S), x \notin S
    <2> QED BY <2>1, <2>2
  <1>5. SumFunction(h) \in Nat
    BY <1>3, <1>4, SumTyped
  <1> QED BY <1>1, <1>2, <1>4, <1>5 DEF Total

LEMMA TotalShrinks ==
    ASSUME NEW S, IsFiniteSet(S), NEW f, \A y \in S : f[y] \in Nat, NEW x \in S
    PROVE  /\ Total(f, S) = Total(f, S \ {x}) + f[x]
           /\ IsFiniteSet(S \ {x}) /\ Total(f, S \ {x}) \in Nat
  <1>1. PICK T : T = S \ {x}
    OBVIOUS
  <1>2. IsFiniteSet(T) /\ x \notin T /\ S = T \cup {x} /\ (\A y \in T : f[y] \in Nat) /\ f[x] \in Nat
    BY <1>1, FS_RemoveElement
  <1>3. Total(f, T \cup {x}) = Total(f, T) + f[x]
    BY ONLY <1>2, TotalGrows
  <1>4. Total(f, T) \in Nat
    BY <1>2, TotalTyped
  <1> QED BY <1>1, <1>2, <1>3, <1>4

LEMMA TotalSame ==
    ASSUME NEW S, NEW f, NEW g, \A x \in S : f[x] = g[x]
    PROVE  Total(f, S) = Total(g, S)
  BY DEF Total

-----------------------------------------------------------------------------
(* The runner.                                                             *)

RunnerFields ==
    {"dag", "mode", "started", "actions", "nextAction", "queue", "free", "cores", "memory",
     "location", "taskCores", "held", "wanted", "at", "moving", "computing", "requests",
     "finished"}

RunnerShaped(r) ==
    /\ DOMAIN r = RunnerFields
    /\ GraphTyped(r.dag) /\ GraphLive(r.dag)
    /\ r.location \in [Tasks(r.dag) -> Resource \cup {Nowhere}]
    /\ r.taskCores \in [Tasks(r.dag) -> SUBSET Nat]
    /\ r.free \in [Resource -> SUBSET Nat]
    /\ r.cores \in [Resource -> Nat] /\ r.memory \in [Resource -> Nat]
    /\ r.at \in [Items(r.dag) -> Node \cup {Nowhere}]

\* No item is anywhere before it is made.
Supplied(r) ==
    /\ r.held \in [Node -> SUBSET Items(r.dag)]
    /\ \A n \in Node : \A i \in r.held[n] : ItemState(r.dag, i) = "Ready"
    /\ r.wanted \in [Node -> [Items(r.dag) -> Seq(Node)]]
    /\ IsABag(r.moving)
    /\ \A m \in BagToSet(r.moving) :
         m.item \in Items(r.dag) /\ m.to \in Node /\ ItemState(r.dag, m.item) = "Ready"

EntryType(g) == [task : Tasks(g), cores : Nat, id : Nat]

Entries(r, x) == UNION {Range(r.queue[x][c]) : c \in 1..Cores[x]}

\* An entry is of a task that waits for this resource, which has no other;
\* n is above their numbers.
QueuesRight(r, n) ==
    /\ DOMAIN r.queue = Resource
    /\ \A x \in Resource :
         /\ r.queue[x] \in [1..Cores[x] -> Seq(EntryType(r.dag))]
         /\ \A e \in Entries(r, x) :
              r.location[e.task] = x /\ Queued(State(r.dag, e.task)) /\ e.id < n
         /\ \A e, f \in Entries(r, x) : e.task = f.task \/ e.id = f.id => e = f

RunningAt(r, x) == {t \in Tasks(r.dag) : r.location[t] = x /\ State(r.dag, t) = "Running"}
AskedAt(r, x) == {q \in ToSet(r.requests) : q.resource = x}
AnsweredAt(r, A, x) == {t \in A : r.location[t] = x}

MemoryOf(g) == [t \in Tasks(g) |-> g.tasks[t].memory]
CoresOf(r)  == [t \in Tasks(r.dag) |-> Cardinality(r.taskCores[t])]

RequestType(g) == [task : Tasks(g), resource : Resource, cores : Nat, memory : Nat]
CoresIn(g)  == [q \in RequestType(g) |-> q.cores]
MemoryIn(g) == [q \in RequestType(g) |-> q.memory]

\* No core has two tasks.
CoresRight(r) ==
    \A x \in Resource :
      /\ r.free[x] = 1..Cores[x] \ UNION {r.taskCores[t] : t \in RunningAt(r, x)}
      /\ \A t \in RunningAt(r, x) : r.taskCores[t] \subseteq 1..Cores[x]
      /\ \A t, u \in RunningAt(r, x) : t # u => r.taskCores[t] \cap r.taskCores[u] = {}
      /\ r.cores[x] = Cardinality(r.free[x])

MemoryRight(r) ==
    \A x \in Resource : r.memory[x] + Total(MemoryOf(r.dag), RunningAt(r, x)) = Memory[x]

RequestRight(r, q) ==
    /\ q \in RequestType(r.dag)
    /\ State(r.dag, q.task) = "Running" /\ r.location[q.task] = q.resource
    /\ q.cores = Cardinality(r.taskCores[q.task]) /\ q.memory = r.dag.tasks[q.task].memory

\* A task that runs is on its way to its Compute, with it, or on its way back.
PlacesRight(r, c, A) ==
    /\ r.requests \in Seq(RequestType(r.dag))
    /\ \A q \in ToSet(r.requests) : RequestRight(r, q)
    /\ \A x \in Resource : \A q \in c[x].running : RequestRight(r, q) /\ q.resource = x
    /\ A \subseteq Tasks(r.dag) /\ \A t \in A : State(r.dag, t) = "Running" /\ r.location[t] \in Resource
    /\ \A j, k \in 1..Len(r.requests) : r.requests[j].task = r.requests[k].task => j = k
    /\ \A q \in ToSet(r.requests) :
         q.task \notin A /\ \A x \in Resource : \A p \in c[x].running : p.task # q.task
    /\ \A x \in Resource :
         /\ \A p \in c[x].running : p.task \notin A
         /\ \A p, q \in c[x].running : p.task = q.task => p = q

\* c, the Compute of each resource, and the answers A.
CompsRight(r, c, A) ==
    /\ DOMAIN c = Resource
    /\ \A x \in Resource :
         /\ DOMAIN c[x] = {"cores", "memory", "running"}
         /\ c[x].cores = r.cores[x] + Total(CoresIn(r.dag), AskedAt(r, x))
                           + Total(CoresOf(r), AnsweredAt(r, A, x))
         /\ c[x].memory = r.memory[x] + Total(MemoryIn(r.dag), AskedAt(r, x))
                           + Total(MemoryOf(r.dag), AnsweredAt(r, A, x))

\* The inductive invariant, of the runner with the rest of the platform.
RunnerRight(r, c, A, n) ==
    /\ RunnerShaped(r) /\ Supplied(r) /\ QueuesRight(r, n)
    /\ CoresRight(r) /\ MemoryRight(r) /\ PlacesRight(r, c, A) /\ CompsRight(r, c, A)

-----------------------------------------------------------------------------
(* Tasks count the inputs that are there.                                  *)

Has(state)   == state \in {"Ready", "Runnable", "Running", "Done"}
Lacks(state) == state \in {"Pending", "Scheduled"}
Waits(state) == state \in {"Runnable", "Scheduled"}

\* The tasks in the slots H have been told of the items.
Counted(g, H) ==
    \A t \in Tasks(g) :
      /\ g.tasks[t].readyInputs = Cardinality(Slots(g, t) \cap H)
      /\ Slots(g, t) \subseteq H => Has(State(g, t))
      /\ ~ (Slots(g, t) \subseteq H) => Lacks(State(g, t))

Heard(g) == {s \in UNION {Slots(g, t) : t \in Tasks(g)} : ItemState(g, s[1]) = "Ready"}

\* The outputs of a task that is done are there.
Finished(g) == \A i \in Items(g) : State(g, g.items[i].producer) = "Done" => ItemState(g, i) = "Ready"

GraphFlow(g) == Wired(g) /\ Counted(g, Heard(g)) /\ Finished(g)

\* Whoever waits on a resource has been waiting there.
Wakes(h, g) == \A t \in Tasks(g) : Waits(State(h, t)) => Waits(State(g, t))

LEMMA SlotIs ==
    ASSUME NEW g, NEW t, NEW s
    PROVE  s \in Slots(g, t) <=>
             \E i \in Items(g) : \E k \in DOMAIN g.items[i].consumers :
               s = <<i, k>> /\ g.items[i].consumers[k] = t
  BY DEF Slots

LEMMA SlotOf ==
    ASSUME NEW g, NEW t, NEW i \in Items(g), NEW k \in DOMAIN g.items[i].consumers
    PROVE  <<i, k>> \in Slots(g, t) <=> g.items[i].consumers[k] = t
  BY SlotIs

LEMMA SlotsRestated ==
    ASSUME NEW g, NEW h, Restated(h, g), NEW t
    PROVE  Slots(h, t) = Slots(g, t)
  <1>1. Items(h) = Items(g) /\ \A i \in Items(g) : h.items[i].consumers = g.items[i].consumers
    BY DEF Restated
  <1>2. \A s : s \in Slots(h, t) <=> s \in Slots(g, t)
    BY <1>1, SlotIs
  <1> QED BY <1>2

LEMMA WiredRestated ==
    ASSUME NEW g, NEW h, GraphTyped(g), Restated(h, g), Wired(g)
    PROVE  Wired(h)
  <1>1. /\ Tasks(h) = Tasks(g) /\ Items(h) = Items(g)
        /\ \A t \in Tasks(g) : /\ h.tasks[t].inputs = g.tasks[t].inputs
                               /\ h.tasks[t].outputs = g.tasks[t].outputs
        /\ \A i \in Items(g) : /\ h.items[i].producer = g.items[i].producer
                               /\ h.items[i].consumers = g.items[i].consumers
    BY DEF Restated
  <1>2. \A i \in Items(h) : /\ h.items[i].producer \in Tasks(h)
                            /\ i \in Range(h.tasks[h.items[i].producer].outputs)
    BY <1>1 DEF Wired
  <1>3. ASSUME NEW t \in Tasks(h)
        PROVE  /\ IsInjective(h.tasks[t].outputs)
               /\ \A i \in Range(h.tasks[t].inputs) : t \in Range(h.items[i].consumers)
               /\ IsFiniteSet(Slots(h, t)) /\ Cardinality(Slots(h, t)) = Len(h.tasks[t].inputs)
    <2>1. Slots(h, t) = Slots(g, t)
      BY SlotsRestated
    <2>2. \A i \in Range(g.tasks[t].inputs) : i \in Items(g)
      BY <1>1 DEF GraphTyped, TaskTyped, Range
    <2>3. /\ IsInjective(g.tasks[t].outputs)
          /\ \A i \in Range(g.tasks[t].inputs) : t \in Range(g.items[i].consumers)
          /\ IsFiniteSet(Slots(g, t)) /\ Cardinality(Slots(g, t)) = Len(g.tasks[t].inputs)
      BY <1>1 DEF Wired
    <2>4. h.tasks[t].inputs = g.tasks[t].inputs /\ h.tasks[t].outputs = g.tasks[t].outputs
      BY <1>1
    <2>5. \A i \in Range(h.tasks[t].inputs) : t \in Range(h.items[i].consumers)
      BY <1>1, <2>2, <2>3, <2>4
    <2> QED BY <2>1, <2>3, <2>4, <2>5
  <1> QED BY <1>2, <1>3 DEF Wired

LEMMA HeardIs ==
    ASSUME NEW g, NEW i \in Items(g), NEW k \in DOMAIN g.items[i].consumers,
           g.items[i].consumers[k] \in Tasks(g)
    PROVE  <<i, k>> \in Heard(g) <=> ItemState(g, i) = "Ready"
  <1>1. <<i, k>> \in Slots(g, g.items[i].consumers[k])
    BY SlotOf
  <1>2. <<i, k>>[1] = i
    OBVIOUS
  <1> QED BY <1>1, <1>2 DEF Heard

\* What a task is told of depends on the items alone.
LEMMA HeardSame ==
    ASSUME NEW g, NEW h, Restated(h, g), \A i \in Items(g) : ItemState(h, i) = ItemState(g, i)
    PROVE  Heard(h) = Heard(g)
  <1>1. Tasks(h) = Tasks(g) /\ \A t : Slots(h, t) = Slots(g, t)
    BY SlotsRestated DEF Restated
  <1>2. \A s : s \in UNION {Slots(g, t) : t \in Tasks(g)} => s[1] \in Items(g)
    BY SlotIs
  <1>3. UNION {Slots(h, t) : t \in Tasks(h)} = UNION {Slots(g, t) : t \in Tasks(g)}
    BY <1>1
  <1> QED BY <1>2, <1>3 DEF Heard

\* A task is told of one more input.
LEMMA InputReadyCounts ==
    ASSUME NEW g, GraphTyped(g), Wired(g), NEW H, Counted(g, H), NEW t \in Tasks(g),
           NEW p \in Slots(g, t), p \notin H, NEW h, h = InputReady(g, t)
    PROVE  /\ Restated(h, g) /\ Counted(h, H \cup {p}) /\ Wakes(h, g)
           /\ \A i \in Items(g) : ItemState(h, i) = ItemState(g, i)
  <1>1. Lacks(State(g, t)) /\ g.tasks[t].readyInputs = Cardinality(Slots(g, t) \cap H)
    BY DEF Counted
  <1>2. ~ Engaged(State(g, t))
    BY <1>1 DEF Lacks, Engaged
  <1>3. /\ Restated(h, g) /\ \A u \in Tasks(g) : u # t => State(h, u) = State(g, u)
        /\ \A i \in Items(g) : ItemState(h, i) = ItemState(g, i)
    BY <1>2, InputReadyRestates
  <1>4. PICK all \in BOOLEAN : all = (g.tasks[t].readyInputs + 1 = Len(g.tasks[t].inputs))
    OBVIOUS
  <1>5. DOMAIN g.tasks[t] = TaskFields /\ DOMAIN g = GraphFields
    BY DEF GraphTyped, TaskTyped
  <1>6. PICK v : v = IF all THEN IF State(g, t) = "Pending" THEN "Ready" ELSE "Runnable"
                     ELSE State(g, t)
    OBVIOUS
  <1>7. h.tasks[t].readyInputs = g.tasks[t].readyInputs + 1 /\ State(h, t) = v
        /\ \A u \in Tasks(g) : u # t => h.tasks[u] = g.tasks[u]
    <2>1. PICK w : w = [g.tasks[t] EXCEPT !.readyInputs = @ + 1, !.state = v]
      OBVIOUS
    <2>2. w.readyInputs = g.tasks[t].readyInputs + 1 /\ w.state = v
      BY <1>5, <2>1 DEF TaskFields
    <2>3. v = IF ~ all THEN g.tasks[t].state
              ELSE CASE g.tasks[t].state = "Pending"   -> "Ready"
                     [] g.tasks[t].state = "Scheduled" -> "Runnable"
                     [] OTHER                          -> "Panic"
      BY <1>1, <1>6 DEF Lacks, State
    <2>4. h.tasks = [g.tasks EXCEPT ![t] = w]
      <3>1. PICK z : z = [g EXCEPT
              !.tasks[t].readyInputs = @ + 1,
              !.tasks[t].state = IF ~ all THEN @
                                 ELSE CASE @ = "Pending"   -> "Ready"
                                        [] @ = "Scheduled" -> "Runnable"
                                        [] OTHER           -> "Panic",
              !.ready = IF all /\ g.tasks[t].state = "Pending" THEN @ \cup {t} ELSE @]
        OBVIOUS
      <3>2. h = z
        BY <1>4, <3>1 DEF InputReady
      <3>3. z.tasks = [g.tasks EXCEPT ![t] = w]
        BY <1>5, <2>1, <2>3, <3>1 DEF GraphFields, TaskFields, Tasks
      <3> QED BY <3>2, <3>3
    <2> QED BY <2>2, <2>4 DEF State, Tasks
  <1>8. IsFiniteSet(Slots(g, t)) /\ Cardinality(Slots(g, t)) = Len(g.tasks[t].inputs)
    BY DEF Wired
  <1>9. PICK S : S = Slots(g, t) /\ IsFiniteSet(S) /\ p \in S
    BY <1>8
  <1>10. PICK D : D = S \cap H /\ IsFiniteSet(D) /\ D \subseteq S /\ p \notin D
    <2>1. PICK D : D = S \cap H
      OBVIOUS
    <2>2. D \subseteq S /\ p \notin D
      BY <2>1
    <2>3. IsFiniteSet(D)
      BY <1>9, <2>2, FS_Subset
    <2> QED BY <2>1, <2>2, <2>3
  <1>11. S \cap (H \cup {p}) = D \cup {p} /\ D \cup {p} \subseteq S
    BY <1>9, <1>10
  <1>12. IsFiniteSet(D \cup {p}) /\ Cardinality(D \cup {p}) = Cardinality(D) + 1
    BY <1>10, FS_AddElement
  <1>13. Cardinality(S) = Cardinality(D \cup {p}) <=> S = D \cup {p}
    BY <1>9, <1>11, <1>12, FS_Subset
  <1>14. all <=> S \subseteq H \cup {p}
    <2>1. all <=> Cardinality(D) + 1 = Cardinality(S)
      BY <1>1, <1>4, <1>8, <1>9, <1>10
    <2> QED BY <1>11, <1>12, <1>13, <2>1
  <1>15. ASSUME NEW u \in Tasks(g)
         PROVE  /\ h.tasks[u].readyInputs = Cardinality(Slots(h, u) \cap (H \cup {p}))
                /\ Slots(h, u) \subseteq H \cup {p} => Has(State(h, u))
                /\ ~ (Slots(h, u) \subseteq H \cup {p}) => Lacks(State(h, u))
    <2>1. Slots(h, u) = Slots(g, u)
      BY <1>3, SlotsRestated
    <2>2. CASE u = t
      <3>1. Slots(h, u) = S
        BY <1>9, <2>1, <2>2
      <3>2. h.tasks[u].readyInputs = Cardinality(D \cup {p})
        BY <1>1, <1>7, <1>9, <1>10, <1>12, <2>2
      <3>3. all => Has(State(h, u))
        BY <1>6, <1>7, <2>2 DEF Has
      <3>4. ~ all => Lacks(State(h, u))
        BY <1>1, <1>6, <1>7, <2>2
      <3> QED BY <1>11, <1>14, <3>1, <3>2, <3>3, <3>4
    <2>3. CASE u # t
      <3>1. p \notin Slots(g, u)
        <4>1. PICK i \in Items(g) : \E k \in DOMAIN g.items[i].consumers :
                p = <<i, k>> /\ g.items[i].consumers[k] = t
          BY SlotIs
        <4>2. PICK k \in DOMAIN g.items[i].consumers :
                p = <<i, k>> /\ g.items[i].consumers[k] = t
          BY <4>1
        <4> QED BY <2>3, <4>2, SlotOf
      <3>2. /\ Slots(g, u) \cap (H \cup {p}) = Slots(g, u) \cap H
            /\ Slots(g, u) \subseteq H \cup {p} <=> Slots(g, u) \subseteq H
        BY <3>1
      <3>3. h.tasks[u] = g.tasks[u] /\ State(h, u) = State(g, u)
        BY <1>7, <2>3 DEF State
      <3> QED BY <2>1, <3>2, <3>3 DEF Counted
    <2> QED BY <2>2, <2>3
  <1>16. Tasks(h) = Tasks(g)
    BY <1>3 DEF Restated
  <1>17. Counted(h, H \cup {p})
    BY <1>15, <1>16 DEF Counted
  <1>18. Wakes(h, g)
    <2>1. Waits(State(h, t)) => Waits(State(g, t))
      BY <1>1, <1>6, <1>7 DEF Waits, Lacks
    <2> QED BY <1>3, <2>1 DEF Wakes
  <1> QED BY <1>3, <1>17, <1>18

LEMMA WakesTwice ==
    ASSUME NEW g, NEW h, NEW e, Tasks(h) = Tasks(g), Wakes(h, g), Wakes(e, h)
    PROVE  Wakes(e, g)
  BY DEF Wakes

\* The first k slots of an item.
SlotsTo(i, k) == {<<i, j>> : j \in 1..k}

LEMMA NextSlot ==
    ASSUME NEW i, NEW k \in Nat \ {0}
    PROVE  SlotsTo(i, k) = SlotsTo(i, k - 1) \cup {<<i, k>>} /\ <<i, k>> \notin SlotsTo(i, k - 1)
  <1>1. \A j : j \in 1..k <=> j \in 1..(k - 1) \/ j = k
    OBVIOUS
  <1>2. k \notin 1..(k - 1)
    OBVIOUS
  <1> QED BY <1>1, <1>2 DEF SlotsTo

\* All consumers of an item are told of it.
LEMMA ReadyAllCounts ==
    ASSUME NEW g, GraphTyped(g), Wired(g), NEW H, Counted(g, H), NEW i \in Items(g),
           NEW w, w = g.items[i].consumers, NEW h, h = ReadyAll(g, w),
           \A k \in 1..Len(w) : <<i, k>> \notin H
    PROVE  Counted(h, H \cup SlotsTo(i, Len(w))) /\ Wakes(h, g)
  <1>1. w \in Seq(Tasks(g))
    BY DEF GraphTyped, ItemTyped
  <1>2. PICK f : /\ f[0] = g
                 /\ \A k \in 1..Len(w) : f[k] = InputReady(f[k - 1], w[k])
                 /\ ReadyAll(g, w) = f[Len(w)]
    BY ONLY <1>1, ReadyAllFolds
  <1> DEFINE P(e, k) == /\ Restated(e, g) /\ Counted(e, H \cup SlotsTo(i, k)) /\ Wakes(e, g)
             F == {k \in 0..Len(w) : P(f[k], k)}
  <1>3. Len(w) \in Nat /\ 0 \in F
    <2>1. H \cup SlotsTo(i, 0) = H
      BY DEF SlotsTo
    <2>2. P(g, 0)
      BY <2>1, RestatedSelf DEF Wakes
    <2>3. Len(w) \in Nat /\ 0 \in 0..Len(w)
      BY <1>1
    <2> HIDE DEF P
    <2> QED BY <1>2, <2>2, <2>3
  <1>4. ASSUME NEW k \in 1..Len(w), k - 1 \in F PROVE k \in F
    <2>1. PICK e : e = f[k - 1] /\ P(e, k - 1)
      BY <1>4
    <2>2. PICK t : t = w[k] /\ t \in Tasks(g)
      BY <1>1
    <2>3. PICK d : d = InputReady(e, t)
      OBVIOUS
    <2>4. PICK p : p = <<i, k>>
      OBVIOUS
    <2>5. k \in DOMAIN w /\ k \in Nat \ {0}
      BY <1>1
    <2>6. GraphTyped(e) /\ Wired(e) /\ t \in Tasks(e) /\ p \in Slots(e, t)
      <3>1. p \in Slots(g, t)
        BY <2>2, <2>4, <2>5, SlotOf
      <3>2. Slots(e, t) = Slots(g, t)
        BY <2>1, SlotsRestated
      <3> QED BY <2>1, <2>2, <3>1, <3>2, RestatedTyped, WiredRestated DEF Restated
    <2>7. PICK K : K = H \cup SlotsTo(i, k - 1)
      OBVIOUS
    <2>8. Counted(e, K) /\ p \notin K /\ K \cup {p} = H \cup SlotsTo(i, k)
      <3>1. SlotsTo(i, k) = SlotsTo(i, k - 1) \cup {<<i, k>>} /\ <<i, k>> \notin SlotsTo(i, k - 1)
        BY <2>5, NextSlot
      <3>2. p \notin H
        BY <2>4
      <3> QED BY <2>1, <2>4, <2>7, <3>1, <3>2
    <2>9. Restated(d, e) /\ Counted(d, K \cup {p}) /\ Wakes(d, e)
      BY <2>3, <2>6, <2>8, InputReadyCounts
    <2>10. Restated(d, g) /\ Wakes(d, g)
      BY <2>1, <2>9, RestatedTwice, WakesTwice DEF Restated
    <2>11. P(d, k)
      BY <2>8, <2>9, <2>10
    <2>12. f[k] = d /\ k \in 0..Len(w)
      BY <1>2, <2>1, <2>2, <2>3
    <2> HIDE DEF P
    <2> QED BY <2>11, <2>12
  <1> HIDE DEF F
  <1>5. Len(w) \in F
    <2>1. \A k \in 0..Len(w) : k \in F
      BY <1>3, <1>4, PrefixInduction
    <2> QED BY <1>3, <2>1
  <1> QED BY <1>2, <1>5 DEF F

\* An item that is there, of which no task has been told, and its consumers are.
LEMMA ItemReadyCounts ==
    ASSUME NEW g, GraphTyped(g), Wired(g), Counted(g, Heard(g)), NEW i \in Items(g),
           ItemState(g, i) # "Ready", NEW h, h = ItemReady(g, i)
    PROVE  /\ Restated(h, g) /\ Wakes(h, g) /\ Counted(h, Heard(h)) /\ ItemState(h, i) = "Ready"
           /\ \A j \in Items(g) : j # i => ItemState(h, j) = ItemState(g, j)
  <1>1. PICK w : w = g.items[i].consumers /\ w \in Seq(Tasks(g))
    BY DEF GraphTyped, ItemTyped
  <1>2. \A k \in 1..Len(w) : k \in DOMAIN g.items[i].consumers /\ w[k] \in Tasks(g)
    BY <1>1
  <1>3. \A k \in 1..Len(w) : <<i, k>> \notin Heard(g) /\ <<i, k>> \in Slots(g, w[k])
    BY <1>1, <1>2, HeardIs, SlotOf
  <1>4. \A t \in Range(g.items[i].consumers) : ~ Engaged(State(g, t))
    <2> TAKE t \in Range(g.items[i].consumers)
    <2>1. PICK k \in 1..Len(w) : t = w[k]
      BY <1>1 DEF Range
    <2>2. ~ (Slots(g, t) \subseteq Heard(g)) /\ t \in Tasks(g)
      BY <1>2, <1>3, <2>1
    <2> QED BY <2>2 DEF Counted, Lacks, Engaged
  <1>5. /\ Restated(h, g) /\ ItemState(h, i) = "Ready"
        /\ \A j \in Items(g) : j # i => ItemState(h, j) = ItemState(g, j)
    BY <1>4, ItemReadyTells DEF Told
  <1>6. PICK e : e = [g EXCEPT !.items[i].state = "Ready"]
    OBVIOUS
  <1>7. DOMAIN g = GraphFields /\ DOMAIN g.items[i] = ItemFields
    BY DEF GraphTyped, ItemTyped
  <1>8. e.tasks = g.tasks /\ Restated(e, g)
    <2>1. e.tasks = g.tasks
      BY <1>6, <1>7 DEF GraphFields
    <2>2. Restated(e, g)
      BY <1>6, ItemRestated DEF Told
    <2> QED BY <2>1, <2>2
  <1>9. GraphTyped(e) /\ Wired(e) /\ i \in Items(e) /\ e.items[i].consumers = w
    BY <1>1, <1>8, RestatedTyped, WiredRestated DEF Restated
  <1>10. PICK H : H = Heard(g)
    OBVIOUS
  <1>11. Counted(e, H)
    BY <1>8, <1>10, SlotsRestated DEF Counted, Tasks, State
  <1>12. h = ReadyAll(e, w)
    BY <1>1, <1>6, ReadyIs
  <1>13. Counted(h, H \cup SlotsTo(i, Len(w))) /\ Wakes(h, e)
    <2>1. \A k \in 1..Len(w) : <<i, k>> \notin H
      BY <1>3, <1>10
    <2>2. w = e.items[i].consumers
      BY <1>9
    <2> QED BY ONLY <1>9, <1>11, <1>12, <2>1, <2>2, ReadyAllCounts
  <1>14. Wakes(h, g)
    BY <1>8, <1>13 DEF Wakes, Tasks, State
  <1>15. Heard(h) = H \cup SlotsTo(i, Len(w))
    <2>1. Tasks(h) = Tasks(g) /\ Items(h) = Items(g) /\ \A t : Slots(h, t) = Slots(g, t)
      BY <1>5, SlotsRestated DEF Restated
    <2>2. ASSUME NEW p, NEW t \in Tasks(g), p \in Slots(g, t)
          PROVE  p \in Heard(h) <=> p \in H \cup SlotsTo(i, Len(w))
      <3>1. PICK j \in Items(g) : \E k \in DOMAIN g.items[j].consumers :
              p = <<j, k>> /\ g.items[j].consumers[k] = t
        BY <2>2, SlotIs
      <3>2. PICK k \in DOMAIN g.items[j].consumers : p = <<j, k>> /\ g.items[j].consumers[k] = t
        BY <3>1
      <3>3. p \in Heard(g) <=> ItemState(g, j) = "Ready"
        BY <3>2, HeardIs
      <3>4. p \in Heard(h) <=> ItemState(h, j) = "Ready"
        <4>1. h.items[j].consumers = g.items[j].consumers
          BY <1>5 DEF Restated
        <4> QED BY <2>1, <3>2, <4>1, HeardIs
      <3>5. j = i => p \in SlotsTo(i, Len(w))
        <4>1. j = i => k \in 1..Len(w)
          BY <1>1, <3>2
        <4> QED BY <3>2, <4>1 DEF SlotsTo
      <3>6. j # i => p \notin SlotsTo(i, Len(w))
        BY <3>2 DEF SlotsTo
      <3> QED BY <1>5, <1>10, <3>3, <3>4, <3>5, <3>6
    <2>3. \A p \in Heard(h) : \E t \in Tasks(g) : p \in Slots(g, t)
      BY <2>1 DEF Heard
    <2>4. \A p \in H : \E t \in Tasks(g) : p \in Slots(g, t)
      BY <1>10 DEF Heard
    <2>5. \A p \in SlotsTo(i, Len(w)) : \E t \in Tasks(g) : p \in Slots(g, t)
      BY <1>2, <1>3 DEF SlotsTo
    <2> QED BY <2>2, <2>3, <2>4, <2>5
  <1> QED BY <1>5, <1>13, <1>14, <1>15

\* A task begins to wait, or to run.
LEMMA StateFlow ==
    ASSUME NEW g, GraphTyped(g), GraphFlow(g), NEW t \in Tasks(g), NEW state, state # "Done",
           state # "Ready", Has(State(g, t)) <=> Has(state), Lacks(State(g, t)) <=> Lacks(state),
           NEW h, h = UpdateTaskState(g, t, state)
    PROVE  GraphFlow(h)
  <1>1. /\ Restated(h, g) /\ State(h, t) = state
        /\ \A u \in Tasks(g) : u # t => State(h, u) = State(g, u)
        /\ \A i \in Items(g) : ItemState(h, i) = ItemState(g, i)
    BY StateIs
  <1>2. \A u \in Tasks(g) : h.tasks[u].readyInputs = g.tasks[u].readyInputs
    <2>1. PICK v : v = [g.tasks[t] EXCEPT !.state = state]
      OBVIOUS
    <2>2. DOMAIN g.tasks[t] = TaskFields /\ DOMAIN g = GraphFields
      BY DEF GraphTyped, TaskTyped
    <2>3. v.readyInputs = g.tasks[t].readyInputs
      BY <2>1, <2>2 DEF TaskFields
    <2>4. h.tasks = [g.tasks EXCEPT ![t] = v]
      BY <2>1, <2>2 DEF UpdateTaskState, GraphFields, Tasks
    <2> QED BY <2>3, <2>4 DEF Tasks
  <1>3. /\ Tasks(h) = Tasks(g) /\ Items(h) = Items(g) /\ (\A u : Slots(h, u) = Slots(g, u))
        /\ Heard(h) = Heard(g) /\ Wired(h)
        /\ \A i \in Items(g) : h.items[i].producer = g.items[i].producer
    BY <1>1, SlotsRestated, HeardSame, WiredRestated DEF GraphFlow, Restated
  <1>4. ASSUME NEW u \in Tasks(g)
        PROVE  /\ h.tasks[u].readyInputs = Cardinality(Slots(g, u) \cap Heard(g))
               /\ Slots(g, u) \subseteq Heard(g) => Has(State(h, u))
               /\ ~ (Slots(g, u) \subseteq Heard(g)) => Lacks(State(h, u))
    <2>1. /\ g.tasks[u].readyInputs = Cardinality(Slots(g, u) \cap Heard(g))
          /\ Slots(g, u) \subseteq Heard(g) => Has(State(g, u))
          /\ ~ (Slots(g, u) \subseteq Heard(g)) => Lacks(State(g, u))
      BY DEF GraphFlow, Counted
    <2>2. (Has(State(h, u)) <=> Has(State(g, u))) /\ (Lacks(State(h, u)) <=> Lacks(State(g, u)))
      BY <1>1
    <2> QED BY <1>2, <2>1, <2>2
  <1>5. Counted(h, Heard(h))
    BY <1>3, <1>4 DEF Counted
  <1>6. Finished(h)
    BY <1>1, <1>3 DEF GraphFlow, Finished, Wired
  <1> QED BY <1>3, <1>5, <1>6 DEF GraphFlow

\* The items that are new are outputs of t.
OnlyBy(h, g, t) ==
    \A i \in Items(g) : ItemState(h, i) = "Ready" =>
      ItemState(g, i) = "Ready" \/ i \in Range(g.tasks[t].outputs)

LEMMA DoneFlow ==
    ASSUME NEW g, GraphTyped(g), GraphLive(g), GraphFlow(g), NEW t \in Tasks(g),
           State(g, t) = "Running", NEW h, h = UpdateTaskState(g, t, "Done")
    PROVE  GraphFlow(h) /\ Wakes(h, g) /\ OnlyBy(h, g, t)
  <1>1. /\ Restated(h, g) /\ GraphLive(h) /\ Grown(h, g) /\ State(h, t) = "Done"
        /\ \A u \in Tasks(g) : u # t => Calm(h, g, u)
        /\ \A i \in Range(g.tasks[t].outputs) : ItemState(h, i) = "Ready"
    BY DoneIs
  <1>2. PICK w : w = g.tasks[t].outputs /\ w \in Seq(Items(g)) /\ \A i \in Range(w) : g.items[i].producer = t
    BY DEF GraphTyped, TaskTyped
  <1>3. PICK v : v = [g.tasks[t] EXCEPT !.state = "Done"]
    OBVIOUS
  <1>4. PICK d : d = [g EXCEPT !.tasks[t].state = "Done", !.ready = @ \ {t}]
    OBVIOUS
  <1>5. PICK b : b = [d EXCEPT !.completed = @ + 1]
    OBVIOUS
  <1>6. DOMAIN g.tasks[t] = TaskFields /\ DOMAIN g = GraphFields
    BY DEF GraphTyped, TaskTyped
  <1>7. /\ DOMAIN v = TaskFields /\ v.memory = g.tasks[t].memory /\ v.state = "Done"
        /\ v.inputs = g.tasks[t].inputs /\ v.outputs = g.tasks[t].outputs
        /\ v.readyInputs = g.tasks[t].readyInputs
    BY <1>3, <1>6 DEF TaskFields
  <1>8. DOMAIN d = DOMAIN g /\ d.tasks = [g.tasks EXCEPT ![t] = v] /\ d.items = g.items
    BY <1>3, <1>4, <1>6 DEF GraphFields, Tasks
  <1>9. DOMAIN b = DOMAIN g /\ b.tasks = [g.tasks EXCEPT ![t] = v] /\ b.items = g.items
    BY <1>5, <1>6, <1>8 DEF GraphFields
  <1>10. /\ Restated(b, g) /\ State(b, t) = "Done"
         /\ \A u \in Tasks(g) : u # t => State(b, u) = State(g, u)
         /\ \A i \in Items(g) : ItemState(b, i) = ItemState(g, i)
    BY <1>7, <1>9, TaskRestated
  <1>11. GraphTyped(b) /\ Wired(b) /\ Tasks(b) = Tasks(g) /\ Items(b) = Items(g)
    BY <1>10, RestatedTyped, WiredRestated DEF GraphFlow, Restated
  <1>12. Counted(b, Heard(b))
    <2>1. Heard(b) = Heard(g) /\ \A u : Slots(b, u) = Slots(g, u)
      BY <1>10, HeardSame, SlotsRestated
    <2>2. \A u \in Tasks(g) : b.tasks[u].readyInputs = g.tasks[u].readyInputs
      BY <1>7, <1>9 DEF Tasks
    <2>3. \A u \in Tasks(g) : /\ Has(State(g, u)) => Has(State(b, u))
                              /\ Lacks(State(g, u)) => Lacks(State(b, u))
      BY <1>10 DEF Has, Lacks
    <2> QED BY <1>11, <2>1, <2>2, <2>3 DEF GraphFlow, Counted
  <1>13. Wakes(b, g)
    BY <1>10 DEF Wakes, Waits
  <1>14. h = ItemsReady(b, w)
    BY <1>2, <1>4, <1>5 DEF UpdateTaskState, ItemsReady
  <1>15. PICK f : /\ f[0] = b
                  /\ \A k \in 1..Len(w) : f[k] = ItemReady(f[k - 1], w[k])
                  /\ ItemsReady(b, w) = f[Len(w)]
    <2>1. w \in Seq(Items(g))
      BY <1>2
    <2> QED BY ONLY <2>1, ItemsReadyFolds
  <1> DEFINE P(e, k) ==
               /\ Restated(e, b) /\ Wakes(e, b) /\ Counted(e, Heard(e))
               /\ \A i \in Items(g) : ItemState(e, i) = "Ready" =>
                    ItemState(g, i) = "Ready" \/ \E j \in 1..k : i = w[j]
             F == {k \in 0..Len(w) : P(f[k], k)}
  <1>16. Len(w) \in Nat /\ 0 \in F
    <2>1. P(b, 0)
      BY <1>10, <1>11, <1>12, RestatedSelf DEF Wakes
    <2>2. Len(w) \in Nat /\ 0 \in 0..Len(w)
      BY <1>2
    <2> HIDE DEF P
    <2> QED BY <1>15, <2>1, <2>2
  <1>17. ASSUME NEW k \in 1..Len(w), k - 1 \in F PROVE k \in F
    <2>1. PICK e : e = f[k - 1] /\ P(e, k - 1)
      BY <1>17
    <2>2. PICK i : i = w[k] /\ i \in Items(g) /\ i \in Range(w)
      BY <1>2 DEF Range
    <2>3. PICK u : u = ItemReady(e, i)
      OBVIOUS
    <2>4. ItemState(g, i) # "Ready"
      <3>1. g.items[i].producer = t
        BY <1>2, <2>2
      <3> QED BY <2>2, <3>1 DEF GraphLive
    <2>5. ItemState(e, i) # "Ready"
      <3>1. ASSUME NEW j \in 1..(k - 1), i = w[j] PROVE FALSE
        <4>1. j \in DOMAIN w /\ k \in DOMAIN w /\ j # k
          BY <1>2
        <4>2. IsInjective(w)
          BY <1>2 DEF GraphFlow, Wired
        <4> QED BY <2>2, <3>1, <4>1, <4>2 DEF IsInjective
      <3> QED BY <2>1, <2>2, <2>4, <3>1
    <2>6. GraphTyped(e) /\ Wired(e) /\ Items(e) = Items(g) /\ Tasks(e) = Tasks(b)
      BY <1>11, <2>1, RestatedTyped, WiredRestated DEF Restated
    <2>7. /\ Restated(u, e) /\ Wakes(u, e) /\ Counted(u, Heard(u))
          /\ \A j \in Items(e) : j # i => ItemState(u, j) = ItemState(e, j)
      <3>1. Counted(e, Heard(e)) /\ i \in Items(e)
        BY <2>1, <2>2, <2>6
      <3> QED BY <2>3, <2>5, <2>6, <3>1, ItemReadyCounts
    <2>8. Restated(u, b) /\ Wakes(u, b)
      BY <2>1, <2>6, <2>7, RestatedTwice, WakesTwice
    <2>9. ASSUME NEW j \in Items(g), ItemState(u, j) = "Ready"
          PROVE  ItemState(g, j) = "Ready" \/ \E m \in 1..k : j = w[m]
      <3>1. CASE j = i
        BY <2>2, <3>1
      <3>2. CASE j # i
        <4>1. ItemState(g, j) = "Ready" \/ \E m \in 1..(k - 1) : j = w[m]
          BY <2>1, <2>6, <2>7, <2>9, <3>2
        <4>2. \A m \in 1..(k - 1) : m \in 1..k
          OBVIOUS
        <4> QED BY <4>1, <4>2
      <3> QED BY <3>1, <3>2
    <2>10. P(u, k)
      BY <2>7, <2>8, <2>9
    <2>11. f[k] = u /\ k \in 0..Len(w)
      BY <1>15, <2>1, <2>2, <2>3
    <2> HIDE DEF P
    <2> QED BY <2>10, <2>11
  <1> HIDE DEF F
  <1>18. Len(w) \in F
    <2>1. \A k \in 0..Len(w) : k \in F
      BY <1>16, <1>17, PrefixInduction
    <2> QED BY <1>16, <2>1
  <1>19. P(h, Len(w))
    BY <1>14, <1>15, <1>18 DEF F
  <1>20. OnlyBy(h, g, t)
    <2>1. \A j \in 1..Len(w) : w[j] \in Range(w)
      BY <1>2 DEF Range
    <2> QED BY <1>2, <1>19, <2>1 DEF OnlyBy
  <1>21. Wakes(h, g)
    BY <1>11, <1>13, <1>19, WakesTwice
  <1>22. Finished(h)
    <2> SUFFICES ASSUME NEW i \in Items(h), State(h, h.items[i].producer) = "Done"
                 PROVE  ItemState(h, i) = "Ready"
      BY DEF Finished
    <2>1. PICK u \in Tasks(g) : u = g.items[i].producer /\ u = h.items[i].producer
                                /\ i \in Items(g) /\ i \in Range(g.tasks[u].outputs)
      BY <1>1 DEF Restated, GraphFlow, Wired
    <2>2. CASE u = t
      BY <1>1, <2>1, <2>2
    <2>3. CASE u # t
      <3>1. State(g, u) = "Done"
        BY <1>1, <2>1, <2>3 DEF Calm, Engaged
      <3>2. ItemState(g, i) = "Ready"
        BY <2>1, <3>1 DEF GraphFlow, Finished
      <3> QED BY <1>1, <2>1, <3>2 DEF Grown
    <2> QED BY <2>2, <2>3
  <1>23. Wired(h)
    BY <1>1, WiredRestated DEF GraphFlow
  <1> QED BY <1>19, <1>20, <1>21, <1>22, <1>23 DEF GraphFlow

\* s differs from r in what data is where.
DataFields == {"held", "wanted", "moving"}

Moved(s, r) == DOMAIN s = DOMAIN r /\ \A f \in RunnerFields \ DataFields : s[f] = r[f]

LEMMA MovedIs ==
    ASSUME NEW r, NEW s, DOMAIN r = RunnerFields, Moved(s, r)
    PROVE  /\ DOMAIN s = RunnerFields
           /\ s.dag = r.dag /\ s.mode = r.mode /\ s.started = r.started
           /\ s.actions = r.actions /\ s.nextAction = r.nextAction /\ s.queue = r.queue
           /\ s.free = r.free /\ s.cores = r.cores /\ s.memory = r.memory
           /\ s.location = r.location /\ s.taskCores = r.taskCores /\ s.at = r.at
           /\ s.computing = r.computing /\ s.requests = r.requests /\ s.finished = r.finished
  BY DEF Moved, RunnerFields, DataFields

\* s differs from r in nothing that the accounts are about.
Alike(s, r) ==
    /\ DOMAIN s = RunnerFields /\ s.dag = r.dag /\ s.queue = r.queue
    /\ s.free = r.free /\ s.cores = r.cores /\ s.memory = r.memory
    /\ s.location = r.location /\ s.taskCores = r.taskCores /\ s.requests = r.requests

LEMMA AlikeRight ==
    ASSUME NEW r, NEW s, NEW c, NEW A, NEW n, RunnerRight(r, c, A, n), Alike(s, r), Supplied(s),
           s.at \in [Items(s.dag) -> Node \cup {Nowhere}]
    PROVE  RunnerRight(s, c, A, n)
  <1>2. /\ DOMAIN s = RunnerFields /\ s.dag = r.dag /\ s.queue = r.queue
        /\ s.free = r.free /\ s.cores = r.cores /\ s.memory = r.memory
        /\ s.location = r.location /\ s.taskCores = r.taskCores /\ s.requests = r.requests
    BY DEF Alike
  <1>3. RunnerShaped(s)
    BY <1>2 DEF RunnerRight, RunnerShaped
  <1>4. \A x : /\ Entries(s, x) = Entries(r, x) /\ RunningAt(s, x) = RunningAt(r, x)
               /\ AskedAt(s, x) = AskedAt(r, x) /\ AnsweredAt(s, A, x) = AnsweredAt(r, A, x)
    BY <1>2 DEF Entries, RunningAt, AskedAt, AnsweredAt
  <1>5. QueuesRight(s, n)
    BY <1>2, <1>4 DEF RunnerRight, QueuesRight
  <1>6. CoresRight(s)
    BY <1>2, <1>4 DEF RunnerRight, CoresRight
  <1>7. MemoryRight(s)
    BY <1>2, <1>4 DEF RunnerRight, MemoryRight
  <1>8. PlacesRight(s, c, A)
    BY <1>2 DEF RunnerRight, PlacesRight, RequestRight
  <1>9. CoresOf(s) = CoresOf(r)
    BY <1>2 DEF CoresOf
  <1>10. CompsRight(s, c, A)
    BY <1>2, <1>4, <1>9 DEF RunnerRight, CompsRight
  <1> QED BY <1>3, <1>5, <1>6, <1>7, <1>8, <1>10 DEF RunnerRight

LEMMA MovedRight ==
    ASSUME NEW r, NEW s, NEW c, NEW A, NEW n, RunnerRight(r, c, A, n), Moved(s, r), Supplied(s)
    PROVE  RunnerRight(s, c, A, n)
  <1>1. DOMAIN r = RunnerFields /\ r.at \in [Items(r.dag) -> Node \cup {Nowhere}]
    BY DEF RunnerRight, RunnerShaped
  <1>2. Alike(s, r) /\ s.at = r.at /\ s.dag = r.dag
    BY <1>1, MovedIs DEF Alike
  <1> QED BY <1>1, <1>2, AlikeRight

-----------------------------------------------------------------------------
(* A task starts.                                                          *)

RequestOf(r, x, a) ==
    [task |-> a.task, resource |-> x, cores |-> a.cores, memory |-> r.dag.tasks[a.task].memory]

Shortened(r, x, a) == [r.queue EXCEPT ![x] = [c \in DOMAIN @ |-> Without(@[c], a.id)]]

\* s is r after the start of a at x on the cores K.
Started(s, r, x, a, K) ==
    /\ DOMAIN s = RunnerFields
    /\ s.dag = UpdateTaskState(r.dag, a.task, "Running")
    /\ s.mode = r.mode /\ s.started = r.started /\ s.actions = r.actions
    /\ s.nextAction = r.nextAction /\ s.location = r.location /\ s.held = r.held
    /\ s.wanted = r.wanted /\ s.at = r.at /\ s.moving = r.moving /\ s.finished = r.finished
    /\ s.queue = Shortened(r, x, a)
    /\ s.free = [r.free EXCEPT ![x] = @ \ K]
    /\ s.cores = [r.cores EXCEPT ![x] = @ - a.cores]
    /\ s.memory = [r.memory EXCEPT ![x] = @ - r.dag.tasks[a.task].memory]
    /\ s.taskCores = [r.taskCores EXCEPT ![a.task] = K]
    /\ s.requests = Append(r.requests, RequestOf(r, x, a))

LEMMA StartIs ==
    ASSUME NEW r, NEW x, NEW a, NEW K, DOMAIN r = RunnerFields,
           NEW s, s = StartTask(r, x, a, K)
    PROVE  Started(s, r, x, a, K)
  <1>1. PICK q : q = Shortened(r, x, a)
    OBVIOUS
  <1>2. PICK p : p = [r EXCEPT !.queue = q]
    OBVIOUS
  <1>3. PICK d : d = UpdateTaskState(r.dag, a.task, "Running")
    OBVIOUS
  <1>4. PICK fr : fr = [r.free EXCEPT ![x] = @ \ K]
    OBVIOUS
  <1>5. PICK co : co = [r.cores EXCEPT ![x] = @ - a.cores]
    OBVIOUS
  <1>6. PICK me : me = [r.memory EXCEPT ![x] = @ - r.dag.tasks[a.task].memory]
    OBVIOUS
  <1>7. PICK tc : tc = [r.taskCores EXCEPT ![a.task] = K]
    OBVIOUS
  <1>8. PICK rq : rq = Append(r.requests, RequestOf(r, x, a))
    OBVIOUS
  <1>9. PICK cm : cm = r.computing \cup {a.task}
    OBVIOUS
  <1>10. s = [r EXCEPT !.queue = q, !.free = fr, !.cores = co, !.memory = me, !.taskCores = tc,
                       !.dag = d, !.computing = cm, !.requests = rq]
    BY <1>1, <1>3, <1>4, <1>5, <1>6, <1>7, <1>8, <1>9 DEF StartTask, Shortened, RequestOf
  <1>11. /\ DOMAIN s = RunnerFields /\ s.dag = d /\ s.queue = q /\ s.free = fr /\ s.cores = co
         /\ s.memory = me /\ s.taskCores = tc /\ s.requests = rq
         /\ s.mode = r.mode /\ s.started = r.started /\ s.actions = r.actions
         /\ s.nextAction = r.nextAction /\ s.location = r.location /\ s.held = r.held
         /\ s.wanted = r.wanted /\ s.at = r.at /\ s.moving = r.moving /\ s.finished = r.finished
    BY <1>10 DEF RunnerFields
  <1> QED BY <1>1, <1>3, <1>4, <1>5, <1>6, <1>7, <1>8, <1>11 DEF Started

\* a can start at x on the cores K.
Startable(r, x, a, K) ==
    /\ a \in EntryType(r.dag) /\ r.location[a.task] = x /\ Queued(State(r.dag, a.task))
    /\ \A i \in Range(r.dag.tasks[a.task].inputs) : i \in r.held[x]
    /\ K \subseteq r.free[x] /\ Cardinality(K) = a.cores
    /\ r.dag.tasks[a.task].memory <= r.memory[x]
    /\ \A e \in Entries(r, x) : e.task = a.task => e = a

\* Only the state of the task changes in the graph.
Begun(h, g, t) ==
    /\ Restated(h, g) /\ State(h, t) = "Running"
    /\ \A u \in Tasks(g) : u # t => State(h, u) = State(g, u)
    /\ \A i \in Items(g) : ItemState(h, i) = ItemState(g, i)
    /\ GraphTyped(h) /\ GraphLive(h)
    /\ Tasks(h) = Tasks(g) /\ Items(h) = Items(g)
    /\ \A u \in Tasks(g) : h.tasks[u].memory = g.tasks[u].memory

LEMMA StartBegins ==
    ASSUME NEW r, NEW x \in Resource, NEW a, NEW K, NEW s,
           RunnerShaped(r), Supplied(r), Startable(r, x, a, K), Started(s, r, x, a, K)
    PROVE  Begun(s.dag, r.dag, a.task)
  <1> DEFINE g == r.dag
             t == a.task
  <1>1. t \in Tasks(g) /\ GraphTyped(g) /\ GraphLive(g)
    BY DEF RunnerShaped, Startable, EntryType
  <1>2. s.dag = UpdateTaskState(g, t, "Running")
    BY DEF Started
  <1>3. /\ Restated(s.dag, g) /\ State(s.dag, t) = "Running"
        /\ \A u \in Tasks(g) : u # t => State(s.dag, u) = State(g, u)
        /\ \A i \in Items(g) : ItemState(s.dag, i) = ItemState(g, i)
    <2>1. PICK st : st = "Running"
      OBVIOUS
    <2>2. st # "Done" /\ st # "Ready" /\ s.dag = UpdateTaskState(g, t, st)
      BY <1>2, <2>1
    <2> QED BY <1>1, <2>1, <2>2, StateIs
  <1>4. ~ Engaged(State(g, t))
    BY DEF Startable, Queued, Engaged
  <1>5. \A i \in Range(g.tasks[t].inputs) : ItemState(g, i) = "Ready"
    <2>1. x \in Node
      BY DEF Node
    <2> QED BY <2>1 DEF Startable, Supplied
  <1>6. State(s.dag, t) # "Done"
    BY <1>3
  <1>7. GraphLive(s.dag)
    BY <1>1, <1>3, <1>4, <1>5, <1>6, LiveRestated
  <1>8. GraphTyped(s.dag)
    BY <1>1, <1>3, RestatedTyped
  <1> QED BY <1>3, <1>7, <1>8 DEF Begun, Restated

LEMMA StartShaped ==
    ASSUME NEW r, NEW x \in Resource, NEW a, NEW K, NEW s,
           RunnerShaped(r), Supplied(r), Startable(r, x, a, K), Started(s, r, x, a, K),
           CoresRight(r)
    PROVE  RunnerShaped(s) /\ Supplied(s)
  <1>1. Begun(s.dag, r.dag, a.task)
    BY StartBegins
  <1>2. Tasks(s.dag) = Tasks(r.dag) /\ Items(s.dag) = Items(r.dag)
    BY <1>1 DEF Begun
  <1>3. a.task \in Tasks(r.dag) /\ a.cores \in Nat /\ K \subseteq r.free[x]
    BY DEF Startable, EntryType
  <1>4. K \in SUBSET Nat /\ s.taskCores \in [Tasks(s.dag) -> SUBSET Nat]
    BY <1>2, <1>3 DEF RunnerShaped, Started
  <1>5. s.free \in [Resource -> SUBSET Nat]
    BY DEF RunnerShaped, Started
  <1>6. r.cores[x] - a.cores \in Nat
    <2>1. IsFiniteSet(r.free[x]) /\ r.cores[x] = Cardinality(r.free[x])
      <3>1. IsFiniteSet(1..Cores[x])
        <4>1. Cores[x] \in Nat
          BY ResourceAssumption DEF Resource
        <4> QED BY <4>1, FS_Interval
      <3>2. r.free[x] \subseteq 1..Cores[x] /\ r.cores[x] = Cardinality(r.free[x])
        BY DEF CoresRight
      <3> QED BY <3>1, <3>2, FS_Subset
    <2>2. Cardinality(K) <= Cardinality(r.free[x]) /\ Cardinality(K) \in Nat /\ Cardinality(r.free[x]) \in Nat
      BY <1>3, <2>1, FS_Subset, FS_CardinalityType
    <2> QED BY <2>1, <2>2 DEF Startable
  <1>7. s.cores \in [Resource -> Nat]
    BY <1>6 DEF RunnerShaped, Started
  <1>8. r.memory[x] - r.dag.tasks[a.task].memory \in Nat
    <2>1. r.dag.tasks[a.task].memory \in Nat /\ r.memory[x] \in Nat
      BY <1>3 DEF RunnerShaped, GraphTyped, TaskTyped
    <2> QED BY <2>1 DEF Startable
  <1>9. s.memory \in [Resource -> Nat]
    BY <1>8 DEF RunnerShaped, Started
  <1>10. RunnerShaped(s)
    BY <1>1, <1>2, <1>4, <1>5, <1>7, <1>9 DEF RunnerShaped, Started, Begun
  <1>11. Supplied(s)
    <2>1. s.held = r.held /\ s.wanted = r.wanted /\ s.moving = r.moving
      BY DEF Started
    <2>2. \A i \in Items(r.dag) : ItemState(s.dag, i) = ItemState(r.dag, i)
      BY <1>1 DEF Begun
    <2>3. \A n \in Node : r.held[n] \subseteq Items(r.dag)
      BY DEF Supplied
    <2> QED BY <1>2, <2>1, <2>2, <2>3 DEF Supplied
  <1> QED BY <1>10, <1>11

\* The entry is gone, the others stay.
LEMMA StartQueues ==
    ASSUME NEW r, NEW x \in Resource, NEW a, NEW K, NEW s, NEW n,
           RunnerShaped(r), Supplied(r), Startable(r, x, a, K), Started(s, r, x, a, K),
           QueuesRight(r, n)
    PROVE  /\ QueuesRight(s, n)
           /\ \A y \in Resource : Entries(s, y) \subseteq Entries(r, y)
  <1>1. Begun(s.dag, r.dag, a.task)
    BY StartBegins
  <1>2. PICK E : E = EntryType(r.dag) /\ E = EntryType(s.dag)
    BY <1>1 DEF Begun, EntryType
  <1>3. /\ DOMAIN r.queue = Resource
        /\ \A y \in Resource : r.queue[y] \in [1..Cores[y] -> Seq(E)]
    BY <1>2 DEF QueuesRight
  <1>4. PICK w : w = [c \in 1..Cores[x] |-> Without(r.queue[x][c], a.id)]
    OBVIOUS
  <1>5. s.queue = [r.queue EXCEPT ![x] = w]
    <2>1. DOMAIN r.queue[x] = 1..Cores[x]
      BY <1>3
    <2>2. s.queue = [r.queue EXCEPT ![x] = [c \in DOMAIN r.queue[x] |-> Without(r.queue[x][c], a.id)]]
      BY DEF Started, Shortened
    <2> QED BY <1>4, <2>1, <2>2
  <1>6. s.queue[x] = w /\ DOMAIN s.queue = Resource /\ \A y \in Resource \ {x} : s.queue[y] = r.queue[y]
    BY <1>3, <1>5
  <1>7. ASSUME NEW c \in 1..Cores[x]
        PROVE  w[c] \in Seq(E) /\ \A e \in Range(w[c]) : e \in Range(r.queue[x][c]) /\ e.id # a.id
    <2>1. PICK u \in Seq(E) : u = r.queue[x][c]
      BY <1>3
    <2> QED BY <1>4, <2>1, WithoutDrops
  <1>8. \A y \in Resource : s.queue[y] \in [1..Cores[y] -> Seq(E)]
    <2>1. w \in [1..Cores[x] -> Seq(E)]
      BY <1>4, <1>7
    <2> QED BY <1>3, <1>6, <2>1
  <1>9. \A e \in Entries(s, x) : e \in Entries(r, x) /\ e.id # a.id
    BY <1>6, <1>7 DEF Entries
  <1>10. \A y \in Resource : y # x => Entries(s, y) = Entries(r, y)
    BY <1>6 DEF Entries
  <1>11. \A y \in Resource : Entries(s, y) \subseteq Entries(r, y)
    BY <1>9, <1>10
  <1>12. ASSUME NEW y \in Resource, NEW e \in Entries(s, y)
         PROVE  s.location[e.task] = y /\ Queued(State(s.dag, e.task)) /\ e.id < n
    <2>1. r.location[e.task] = y /\ Queued(State(r.dag, e.task)) /\ e.id < n
      BY <1>11 DEF QueuesRight
    <2>2. e.task \in Tasks(r.dag)
      <3>1. PICK c \in 1..Cores[y] : e \in Range(s.queue[y][c])
        BY DEF Entries
      <3>2. s.queue[y][c] \in Seq(E)
        BY <1>8
      <3>3. e \in E
        BY <3>1, <3>2 DEF Range
      <3> QED BY <1>2, <3>3 DEF EntryType
    <2>3. e.task # a.task
      <3>1. SUFFICES ASSUME e.task = a.task PROVE FALSE
        OBVIOUS
      <3>2. y = x
        BY <2>1, <3>1 DEF Startable
      <3> QED BY <1>9, <3>1, <3>2 DEF Startable
    <2> QED BY <1>1, <2>1, <2>2, <2>3 DEF Begun, Started
  <1>13. \A y \in Resource : \A e, f \in Entries(s, y) : e.task = f.task \/ e.id = f.id => e = f
    BY <1>11 DEF QueuesRight
  <1> QED BY <1>2, <1>6, <1>8, <1>11, <1>12, <1>13 DEF QueuesRight

-----------------------------------------------------------------------------
(* Data on its way to the tasks that wait for it.                          *)

\* The item i has been made.
Made(g, i) == i \in Items(g) /\ ItemState(g, i) = "Ready"

\* A transfer of i to n is under way.
MovingTo(r, i, n) == \E m \in BagToSet(r.moving) : m.item = i /\ m.to = n

\* What is made is, or soon will be, where others get it from.
Stored(r) ==
    \A i \in Items(r.dag) : Made(r.dag, i) =>
      /\ r.mode = "ViaMasterNode" => i \in r.held[Runner] \/ MovingTo(r, i, Runner)
      /\ r.mode = "Direct" => r.at[i] \in Node /\ i \in r.held[r.at[i]]

\* The item i is at x, or it is known how it will come there.
Coming(r, i, x) ==
    \/ i \in r.held[x]
    \/ MovingTo(r, i, x)
    \/ /\ r.mode = "ViaMasterNode" /\ x \in Range(r.wanted[Runner][i])
       /\ Made(r.dag, i) => MovingTo(r, i, Runner)
    \/ r.mode = "Direct" /\ ~ Made(r.dag, i)

Fed(r, t) == \A i \in Range(r.dag.tasks[t].inputs) : Coming(r, i, r.location[t])

FlowRight(r) ==
    /\ GraphFlow(r.dag)
    /\ \A t \in Tasks(r.dag) : Waits(State(r.dag, t)) => r.location[t] \in Resource
    /\ r.mode \in {"ViaMasterNode", "Direct"} =>
         Stored(r) /\ \A t \in Tasks(r.dag) : Waits(State(r.dag, t)) => Fed(r, t)

\* s differs from r at most in the states of tasks.
Unmoved(s, r) ==
    /\ s.mode = r.mode /\ s.at = r.at /\ s.held = r.held /\ s.wanted = r.wanted
    /\ s.moving = r.moving /\ Restated(s.dag, r.dag)
    /\ \A i \in Items(r.dag) : ItemState(s.dag, i) = ItemState(r.dag, i)

LEMMA UnmovedFlow ==
    ASSUME NEW r, NEW s, Unmoved(s, r)
    PROVE  /\ Stored(r) => Stored(s)
           /\ \A i, x : Coming(r, i, x) => Coming(s, i, x)
           /\ \A t \in Tasks(r.dag) : Fed(r, t) /\ s.location[t] = r.location[t] => Fed(s, t)
  <1>1. /\ s.mode = r.mode /\ s.at = r.at /\ s.held = r.held /\ s.wanted = r.wanted
        /\ s.moving = r.moving /\ Restated(s.dag, r.dag) /\ Items(s.dag) = Items(r.dag)
        /\ \A i \in Items(r.dag) : ItemState(s.dag, i) = ItemState(r.dag, i)
    BY DEF Unmoved, Restated
  <1>2. \A i : Made(s.dag, i) <=> Made(r.dag, i)
    BY <1>1 DEF Made
  <1>3. \A i, x : MovingTo(s, i, x) <=> MovingTo(r, i, x)
    BY <1>1 DEF MovingTo
  <1>4. \A i, x : Coming(r, i, x) => Coming(s, i, x)
    BY <1>1, <1>2, <1>3 DEF Coming
  <1>5. Stored(r) => Stored(s)
    BY <1>1, <1>2, <1>3 DEF Stored
  <1>6. \A t \in Tasks(r.dag) : s.dag.tasks[t].inputs = r.dag.tasks[t].inputs
    BY <1>1 DEF Restated
  <1> QED BY <1>4, <1>5, <1>6 DEF Fed

\* A task whose inputs are there has been told of all of them.
LEMMA InputsHeard ==
    ASSUME NEW g, GraphTyped(g), Wired(g), NEW t \in Tasks(g)
    PROVE  Slots(g, t) \subseteq Heard(g)
             <=> \A i \in Range(g.tasks[t].inputs) : ItemState(g, i) = "Ready"
  <1>1. ASSUME Slots(g, t) \subseteq Heard(g), NEW i \in Range(g.tasks[t].inputs)
        PROVE  ItemState(g, i) = "Ready"
    <2>1. i \in Items(g) /\ t \in Range(g.items[i].consumers)
      <3>1. g.tasks[t].inputs \in Seq(Items(g))
        BY DEF GraphTyped, TaskTyped
      <3>2. i \in Items(g)
        BY <3>1 DEF Range
      <3> QED BY <3>2 DEF Wired
    <2>2. PICK k \in DOMAIN g.items[i].consumers : g.items[i].consumers[k] = t
      BY <2>1 DEF Range
    <2>3. <<i, k>> \in Heard(g)
      BY <1>1, <2>1, <2>2, SlotOf
    <2> QED BY <2>1, <2>2, <2>3, HeardIs
  <1>2. ASSUME \A i \in Range(g.tasks[t].inputs) : ItemState(g, i) = "Ready", NEW p \in Slots(g, t)
        PROVE  p \in Heard(g)
    <2>1. PICK i \in Items(g) : \E k \in DOMAIN g.items[i].consumers :
            p = <<i, k>> /\ g.items[i].consumers[k] = t
      BY SlotIs
    <2>2. PICK k \in DOMAIN g.items[i].consumers : p = <<i, k>> /\ g.items[i].consumers[k] = t
      BY <2>1
    <2>3. t \in Range(g.items[i].consumers)
      BY <2>2 DEF Range
    <2>4. ItemState(g, i) = "Ready"
      BY <1>2, <2>3 DEF GraphTyped, ItemTyped
    <2> QED BY <2>2, <2>4, HeardIs
  <1> QED BY <1>1, <1>2

\* A task starts.
LEMMA StartFlow ==
    ASSUME NEW r, NEW x \in Resource, NEW a, NEW K, NEW s,
           RunnerShaped(r), Supplied(r), Startable(r, x, a, K), Started(s, r, x, a, K),
           FlowRight(r)
    PROVE  FlowRight(s)
  <1>1. PICK t : t = a.task /\ t \in Tasks(r.dag)
    BY DEF Startable, EntryType
  <1>2. PICK g : g = r.dag /\ GraphTyped(g) /\ GraphFlow(g) /\ Wired(g) /\ t \in Tasks(g)
    BY <1>1 DEF RunnerShaped, FlowRight, GraphFlow
  <1>3. /\ Restated(s.dag, g) /\ State(s.dag, t) = "Running"
        /\ \A u \in Tasks(g) : u # t => State(s.dag, u) = State(g, u)
        /\ \A i \in Items(g) : ItemState(s.dag, i) = ItemState(g, i)
    BY <1>1, <1>2, StartBegins DEF Begun
  <1>4. \A i \in Range(g.tasks[t].inputs) : ItemState(g, i) = "Ready"
    <2>1. x \in Node
      BY DEF Node
    <2> QED BY <1>1, <1>2, <2>1 DEF Startable, Supplied
  <1>5. Has(State(g, t)) /\ ~ Lacks(State(g, t))
    <2>1. Slots(g, t) \subseteq Heard(g)
      BY <1>2, <1>4, InputsHeard
    <2>2. Has(State(g, t))
      BY <1>2, <2>1 DEF GraphFlow, Counted
    <2> QED BY <2>2 DEF Has, Lacks
  <1>6. GraphFlow(s.dag)
    <2>1. PICK v : v = "Running"
      OBVIOUS
    <2>2. s.dag = UpdateTaskState(g, t, v)
      BY <1>1, <1>2, <2>1 DEF Started
    <2>3. v # "Done" /\ v # "Ready" /\ Has(v) /\ ~ Lacks(v)
      BY <2>1 DEF Has, Lacks
    <2> QED BY <1>2, <1>5, <2>2, <2>3, StateFlow
  <1>7. Unmoved(s, r) /\ s.location = r.location /\ s.mode = r.mode
    BY <1>2, <1>3 DEF Started, Unmoved
  <1>8. Tasks(s.dag) = Tasks(r.dag)
        /\ \A u \in Tasks(r.dag) : Waits(State(s.dag, u)) => Waits(State(r.dag, u))
    BY <1>2, <1>3 DEF Restated, Waits
  <1>9. \A u \in Tasks(s.dag) : Waits(State(s.dag, u)) => s.location[u] \in Resource
    BY <1>7, <1>8 DEF FlowRight
  <1>10. ASSUME s.mode \in {"ViaMasterNode", "Direct"}
         PROVE  Stored(s) /\ \A u \in Tasks(s.dag) : Waits(State(s.dag, u)) => Fed(s, u)
    <2>1. Stored(r) /\ \A u \in Tasks(r.dag) : Waits(State(r.dag, u)) => Fed(r, u)
      BY <1>7, <1>10 DEF FlowRight
    <2>2. Stored(s)
      BY <1>7, <2>1, UnmovedFlow
    <2>3. \A u \in Tasks(r.dag) : Fed(r, u) => Fed(s, u)
      BY <1>7, UnmovedFlow
    <2> QED BY <1>8, <2>1, <2>2, <2>3
  <1> QED BY <1>6, <1>9, <1>10 DEF FlowRight

LEMMA FlowSame ==
    ASSUME NEW r, FlowRight(r), NEW s, s.dag = r.dag, s.mode = r.mode, s.location = r.location,
           s.held = r.held, s.wanted = r.wanted, s.at = r.at, s.moving = r.moving
    PROVE  FlowRight(s)
  <1>1. \A i, n : MovingTo(s, i, n) <=> MovingTo(r, i, n)
    BY DEF MovingTo
  <1>2. \A i, n : Coming(s, i, n) <=> Coming(r, i, n)
    BY <1>1 DEF Coming
  <1>3. \A t : Fed(s, t) <=> Fed(r, t)
    BY <1>2 DEF Fed
  <1>4. Stored(s) <=> Stored(r)
    BY <1>1 DEF Stored
  <1> QED BY <1>3, <1>4 DEF FlowRight

\* The task runs, the others do as before.
LEMMA StartRuns ==
    ASSUME NEW r, NEW x \in Resource, NEW a, NEW K, NEW s,
           RunnerShaped(r), Supplied(r), Startable(r, x, a, K), Started(s, r, x, a, K)
    PROVE  /\ a.task \in Tasks(r.dag) /\ a.task \notin RunningAt(r, x)
           /\ RunningAt(s, x) = RunningAt(r, x) \cup {a.task}
           /\ \A y \in Resource : y # x => RunningAt(s, y) = RunningAt(r, y) /\ a.task \notin RunningAt(r, y)
           /\ s.taskCores[a.task] = K
           /\ \A u \in Tasks(r.dag) : u # a.task => s.taskCores[u] = r.taskCores[u]
  <1>1. Begun(s.dag, r.dag, a.task) /\ a.task \in Tasks(r.dag)
    BY StartBegins DEF Startable, EntryType
  <1>2. State(r.dag, a.task) # "Running" /\ r.location[a.task] = x
    BY DEF Startable, Queued
  <1>3. s.location = r.location
    BY DEF Started
  <1>4. \A y : \A u : u \in RunningAt(s, y) <=> u \in RunningAt(r, y) \/ (y = x /\ u = a.task)
    BY <1>1, <1>2, <1>3 DEF RunningAt, Begun
  <1>5. s.taskCores = [r.taskCores EXCEPT ![a.task] = K] /\ DOMAIN r.taskCores = Tasks(r.dag)
    BY DEF Started, RunnerShaped
  <1>6. a.task \notin RunningAt(r, x) /\ \A y \in Resource : a.task \notin RunningAt(r, y)
    BY <1>2 DEF RunningAt
  <1>7. RunningAt(s, x) = RunningAt(r, x) \cup {a.task}
    BY <1>4
  <1>8. \A y \in Resource : y # x => RunningAt(s, y) = RunningAt(r, y)
    BY <1>4
  <1> QED BY <1>1, <1>5, <1>6, <1>7, <1>8

LEMMA CoresFinite ==
    ASSUME NEW r, CoresRight(r), NEW x \in Resource
    PROVE  IsFiniteSet(r.free[x])
  <1>1. Cores[x] \in Nat
    BY ResourceAssumption DEF Resource
  <1>2. IsFiniteSet(1..Cores[x]) /\ r.free[x] \subseteq 1..Cores[x]
    BY <1>1, FS_Interval DEF CoresRight
  <1> QED BY <1>2, FS_Subset

LEMMA UnionGrows ==
    ASSUME NEW V, NEW K
    PROVE  UNION (V \cup {K}) = (UNION V) \cup K
  <1>1. ASSUME NEW y \in UNION (V \cup {K}) PROVE y \in (UNION V) \cup K
    <2>1. PICK T \in V \cup {K} : y \in T
      OBVIOUS
    <2> QED BY <2>1
  <1>2. ASSUME NEW y \in (UNION V) \cup K PROVE y \in UNION (V \cup {K})
    <2>1. CASE y \in K
      BY <2>1
    <2>2. CASE y \in UNION V
      <3>1. PICK T \in V : y \in T
        BY <2>2
      <3> QED BY <3>1
    <2> QED BY <2>1, <2>2
  <1> QED BY <1>1, <1>2

LEMMA StartCores ==
    ASSUME NEW r, NEW x \in Resource, NEW a, NEW K, NEW s,
           RunnerShaped(r), Supplied(r), Startable(r, x, a, K), Started(s, r, x, a, K),
           CoresRight(r)
    PROVE  CoresRight(s)
  <1> DEFINE R == RunningAt(r, x)
             t == a.task
  <1>1. /\ t \in Tasks(r.dag) /\ t \notin R /\ RunningAt(s, x) = R \cup {t}
        /\ \A y \in Resource : y # x => RunningAt(s, y) = RunningAt(r, y) /\ t \notin RunningAt(r, y)
        /\ s.taskCores[t] = K
        /\ \A u \in Tasks(r.dag) : u # t => s.taskCores[u] = r.taskCores[u]
    BY StartRuns
  <1>2. \A y \in Resource : RunningAt(r, y) \subseteq Tasks(r.dag)
    BY DEF RunningAt
  <1>3. \A y \in Resource : \A u \in RunningAt(r, y) : s.taskCores[u] = r.taskCores[u]
    BY <1>1, <1>2
  <1>4. /\ r.free[x] = 1..Cores[x] \ UNION {r.taskCores[u] : u \in R}
        /\ \A u \in R : r.taskCores[u] \subseteq 1..Cores[x]
        /\ \A u, v \in R : u # v => r.taskCores[u] \cap r.taskCores[v] = {}
        /\ r.cores[x] = Cardinality(r.free[x])
    BY DEF CoresRight
  <1>5. K \subseteq r.free[x] /\ Cardinality(K) = a.cores
    BY DEF Startable
  <1>6. s.free[x] = r.free[x] \ K /\ \A y \in Resource : y # x => s.free[y] = r.free[y]
    BY DEF Started, RunnerShaped
  <1>7. s.cores[x] = r.cores[x] - a.cores /\ \A y \in Resource : y # x => s.cores[y] = r.cores[y]
    BY DEF Started, RunnerShaped
  <1> DEFINE V == {r.taskCores[u] : u \in R}
             W == {s.taskCores[u] : u \in R \cup {t}}
  <1>8. W = V \cup {K}
    <2>1. \A u \in R : s.taskCores[u] = r.taskCores[u]
      BY <1>3
    <2> HIDE DEF R
    <2> QED BY <1>1, <2>1
  <1>9. s.free[x] = 1..Cores[x] \ (UNION W)
    <2>1. r.free[x] = 1..Cores[x] \ (UNION V)
      BY <1>4
    <2> HIDE DEF V, W
    <2>2. (UNION W) = (UNION V) \cup K
      BY <1>8, UnionGrows
    <2> QED BY <1>6, <2>1, <2>2
  <1>10. \A u \in R \cup {t} : s.taskCores[u] \subseteq 1..Cores[x]
    BY <1>1, <1>3, <1>4, <1>5
  <1>11. \A u, v \in R \cup {t} : u # v => s.taskCores[u] \cap s.taskCores[v] = {}
    <2>1. \A u \in R : r.taskCores[u] \cap K = {}
      BY <1>4, <1>5
    <2>2. \A u \in R : s.taskCores[u] = r.taskCores[u]
      BY <1>3
    <2> HIDE DEF R
    <2> QED BY <1>1, <1>4, <2>1, <2>2
  <1>12. s.cores[x] = Cardinality(s.free[x])
    <2>1. IsFiniteSet(r.free[x])
      BY CoresFinite
    <2>2. K \cap r.free[x] = K /\ r.free[x] \cap K = K
      BY <1>5
    <2>3. Cardinality(r.free[x] \ K) = Cardinality(r.free[x]) - Cardinality(r.free[x] \cap K)
      BY <2>1, FS_Difference
    <2> QED BY <1>4, <1>5, <1>6, <1>7, <2>2, <2>3
  <1>13. ASSUME NEW y \in Resource, y # x
         PROVE  /\ s.free[y] = 1..Cores[y] \ UNION {s.taskCores[u] : u \in RunningAt(s, y)}
                /\ \A u \in RunningAt(s, y) : s.taskCores[u] \subseteq 1..Cores[y]
                /\ \A u, v \in RunningAt(s, y) : u # v => s.taskCores[u] \cap s.taskCores[v] = {}
                /\ s.cores[y] = Cardinality(s.free[y])
    <2>1. RunningAt(s, y) = RunningAt(r, y) /\ \A u \in RunningAt(r, y) : s.taskCores[u] = r.taskCores[u]
      BY <1>1, <1>3, <1>13
    <2>2. {s.taskCores[u] : u \in RunningAt(r, y)} = {r.taskCores[u] : u \in RunningAt(r, y)}
      BY <2>1
    <2> QED BY <1>6, <1>7, <1>13, <2>1, <2>2 DEF CoresRight
  <1> HIDE DEF R
  <1> QED BY <1>1, <1>9, <1>10, <1>11, <1>12, <1>13 DEF CoresRight

LEMMA RunningFinite ==
    ASSUME NEW r, RunnerShaped(r), NEW x
    PROVE  /\ IsFiniteSet(Tasks(r.dag)) /\ IsFiniteSet(RunningAt(r, x))
           /\ RunningAt(r, x) \subseteq Tasks(r.dag)
  <1>1. PICK S : r.dag.tasks \in Seq(S)
    BY DEF RunnerShaped, GraphTyped
  <1>2. Tasks(r.dag) = 1..Len(r.dag.tasks) /\ Len(r.dag.tasks) \in Nat
    BY <1>1 DEF Tasks
  <1>3. IsFiniteSet(Tasks(r.dag))
    BY <1>2, FS_Interval
  <1>4. RunningAt(r, x) \subseteq Tasks(r.dag)
    BY DEF RunningAt
  <1> QED BY <1>3, <1>4, FS_Subset

LEMMA MemoryTyped ==
    ASSUME NEW g, GraphTyped(g)
    PROVE  \A t \in Tasks(g) : MemoryOf(g)[t] = g.tasks[t].memory /\ MemoryOf(g)[t] \in Nat
  BY DEF GraphTyped, TaskTyped, MemoryOf

LEMMA StartMemory ==
    ASSUME NEW r, NEW x \in Resource, NEW a, NEW K, NEW s,
           RunnerShaped(r), Supplied(r), Startable(r, x, a, K), Started(s, r, x, a, K),
           MemoryRight(r)
    PROVE  MemoryRight(s)
  <1> DEFINE t == a.task
  <1>1. /\ t \in Tasks(r.dag) /\ t \notin RunningAt(r, x)
        /\ RunningAt(s, x) = RunningAt(r, x) \cup {t}
        /\ \A y \in Resource : y # x => RunningAt(s, y) = RunningAt(r, y)
    BY StartRuns
  <1>2. Begun(s.dag, r.dag, t)
    BY StartBegins
  <1>3. MemoryOf(s.dag) = MemoryOf(r.dag)
    BY <1>2 DEF Begun, MemoryOf
  <1>4. /\ s.memory[x] = r.memory[x] - r.dag.tasks[t].memory
        /\ \A y \in Resource : y # x => s.memory[y] = r.memory[y]
    BY DEF Started, RunnerShaped
  <1>5. PICK f : f = MemoryOf(r.dag)
    OBVIOUS
  <1>6. /\ \A u \in Tasks(r.dag) : f[u] \in Nat
        /\ f[t] = r.dag.tasks[t].memory /\ f[t] \in Nat
    BY <1>1, <1>5, MemoryTyped DEF RunnerShaped
  <1>7. PICK R : R = RunningAt(r, x)
    OBVIOUS
  <1>8. IsFiniteSet(R) /\ (\A u \in R : f[u] \in Nat) /\ t \notin R
    BY <1>1, <1>6, <1>7, RunningFinite
  <1>9. Total(f, R \cup {t}) = Total(f, R) + f[t] /\ Total(f, R) \in Nat
    <2>1. PICK u : u = t
      OBVIOUS
    <2>2. IsFiniteSet(R) /\ (\A v \in R : f[v] \in Nat) /\ u \notin R /\ f[u] \in Nat
      BY <1>6, <1>8, <2>1
    <2>3. Total(f, R \cup {u}) = Total(f, R) + f[u]
      BY ONLY <2>2, TotalGrows
    <2> QED BY <1>8, <2>1, <2>3, TotalTyped
  <1>10. r.memory[x] + Total(f, R) = Memory[x] /\ r.memory[x] \in Nat
    BY <1>5, <1>7 DEF MemoryRight, RunnerShaped
  <1>11. s.memory[x] + Total(f, R \cup {t}) = Memory[x]
    BY <1>4, <1>6, <1>9, <1>10
  <1>12. s.memory[x] + Total(MemoryOf(s.dag), RunningAt(s, x)) = Memory[x]
    BY <1>1, <1>3, <1>5, <1>7, <1>11
  <1>13. \A y \in Resource : y # x => s.memory[y] + Total(MemoryOf(s.dag), RunningAt(s, y)) = Memory[y]
    BY <1>1, <1>3, <1>4 DEF MemoryRight
  <1> QED BY <1>12, <1>13 DEF MemoryRight

LEMMA AppendToSet ==
    ASSUME NEW S, NEW s \in Seq(S), NEW x \in S
    PROVE  ToSet(Append(s, x)) = ToSet(s) \cup {x}
  BY AppendRange DEF ToSet, Range

\* What is asked, runs or has been answered is of a task that runs.
LEMMA PlacesRun ==
    ASSUME NEW r, NEW c, NEW A, PlacesRight(r, c, A), NEW t, State(r.dag, t) # "Running"
    PROVE  /\ t \notin A /\ \A q \in ToSet(r.requests) : q.task # t
           /\ \A x \in Resource : \A q \in c[x].running : q.task # t
  BY DEF PlacesRight, RequestRight

LEMMA StartRequestRight ==
    ASSUME NEW r, NEW x \in Resource, NEW a, NEW K, NEW s, NEW q,
           RunnerShaped(r), Supplied(r), Startable(r, x, a, K), Started(s, r, x, a, K),
           RequestRight(r, q), q.task # a.task
    PROVE  RequestRight(s, q)
  <1>0. /\ a.task \in Tasks(r.dag) /\ a.task \notin RunningAt(r, x)
        /\ RunningAt(s, x) = RunningAt(r, x) \cup {a.task}
        /\ \A y \in Resource : y # x => RunningAt(s, y) = RunningAt(r, y) /\ a.task \notin RunningAt(r, y)
        /\ s.taskCores[a.task] = K
        /\ \A u \in Tasks(r.dag) : u # a.task => s.taskCores[u] = r.taskCores[u]
    BY StartRuns
  <1>1. Begun(s.dag, r.dag, a.task)
    BY StartBegins
  <1>2. \A u \in Tasks(r.dag) : u # a.task => s.taskCores[u] = r.taskCores[u]
    BY <1>0
  <1>3. q.task \in Tasks(r.dag) /\ q \in RequestType(r.dag)
    BY DEF RequestRight, RequestType
  <1>4. q \in RequestType(s.dag)
    BY <1>1, <1>3 DEF RequestType, Begun
  <1>5. s.location = r.location
    BY DEF Started
  <1> QED BY <1>1, <1>2, <1>3, <1>4, <1>5 DEF RequestRight, Begun

LEMMA StartPlaces ==
    ASSUME NEW r, NEW x \in Resource, NEW a, NEW K, NEW s, NEW c, NEW A,
           RunnerShaped(r), Supplied(r), Startable(r, x, a, K), Started(s, r, x, a, K),
           PlacesRight(r, c, A)
    PROVE  /\ PlacesRight(s, c, A) /\ ToSet(s.requests) = ToSet(r.requests) \cup {RequestOf(r, x, a)}
           /\ RequestOf(r, x, a) \in RequestType(r.dag)
  <1>0. /\ a.task \in Tasks(r.dag) /\ a.task \notin RunningAt(r, x)
        /\ RunningAt(s, x) = RunningAt(r, x) \cup {a.task}
        /\ \A y \in Resource : y # x => RunningAt(s, y) = RunningAt(r, y) /\ a.task \notin RunningAt(r, y)
        /\ s.taskCores[a.task] = K
        /\ \A u \in Tasks(r.dag) : u # a.task => s.taskCores[u] = r.taskCores[u]
    BY StartRuns
  <1>1. Begun(s.dag, r.dag, a.task)
    BY StartBegins
  <1>2. /\ a.task \in Tasks(r.dag) /\ s.taskCores[a.task] = K
    BY <1>0
  <1>3. State(r.dag, a.task) # "Running" /\ r.location[a.task] = x /\ a.cores \in Nat /\ a.cores = Cardinality(K)
    BY DEF Startable, Queued, EntryType
  <1>4. /\ a.task \notin A /\ \A q \in ToSet(r.requests) : q.task # a.task
        /\ \A y \in Resource : \A q \in c[y].running : q.task # a.task
    BY <1>3, PlacesRun
  <1>5. PICK rq : rq = RequestOf(r, x, a)
    OBVIOUS
  <1>6. PICK E : E = RequestType(r.dag) /\ E = RequestType(s.dag)
    BY <1>1 DEF Begun, RequestType
  <1>7. /\ rq \in E /\ rq.task = a.task /\ rq.resource = x /\ rq.cores = a.cores
        /\ rq.memory = r.dag.tasks[a.task].memory
    <2>1. r.dag.tasks[a.task].memory \in Nat
      BY <1>2 DEF RunnerShaped, GraphTyped, TaskTyped
    <2> QED BY <1>2, <1>3, <1>5, <1>6, <2>1 DEF RequestOf, RequestType
  <1>8. RequestRight(s, rq)
    BY <1>1, <1>2, <1>3, <1>6, <1>7 DEF RequestRight, Begun, Started
  <1>9. PICK old \in Seq(E) : old = r.requests
    BY <1>6 DEF PlacesRight
  <1>10. s.requests = Append(old, rq) /\ s.requests \in Seq(E)
    BY <1>5, <1>7, <1>9 DEF Started
  <1>11. ToSet(s.requests) = ToSet(old) \cup {rq}
    BY <1>7, <1>10, AppendToSet
  <1>12. \A q \in ToSet(s.requests) : RequestRight(s, q)
    <2>1. \A q \in ToSet(old) : RequestRight(s, q)
      BY <1>4, <1>9, StartRequestRight DEF PlacesRight
    <2> QED BY <1>8, <1>11, <2>1
  <1>13. \A y \in Resource : \A q \in c[y].running : RequestRight(s, q) /\ q.resource = y
    BY <1>4, StartRequestRight DEF PlacesRight
  <1>14. A \subseteq Tasks(s.dag) /\ \A t \in A : State(s.dag, t) = "Running" /\ s.location[t] \in Resource
    BY <1>1, <1>4 DEF PlacesRight, Begun, Started
  <1>15. \A j, k \in 1..Len(s.requests) : s.requests[j].task = s.requests[k].task => j = k
    <2>1. /\ Len(s.requests) = Len(old) + 1 /\ Len(old) \in Nat
          /\ s.requests[Len(old) + 1] = rq
          /\ \A k \in 1..Len(old) : s.requests[k] = old[k] /\ old[k] \in ToSet(old)
      BY <1>7, <1>10 DEF ToSet
    <2>2. \A k \in 1..(Len(old) + 1) : k \in 1..Len(old) \/ k = Len(old) + 1
      BY <2>1
    <2>3. \A j, k \in 1..Len(old) : old[j].task = old[k].task => j = k
      BY <1>9 DEF PlacesRight
    <2>4. \A k \in 1..Len(old) : s.requests[k].task # a.task
      BY <1>4, <1>9, <2>1
    <2> QED BY <1>7, <2>1, <2>2, <2>3, <2>4
  <1>16. \A q \in ToSet(s.requests) :
           q.task \notin A /\ \A y \in Resource : \A p \in c[y].running : p.task # q.task
    BY <1>4, <1>7, <1>9, <1>11 DEF PlacesRight
  <1>17. \A y \in Resource :
           /\ \A p \in c[y].running : p.task \notin A
           /\ \A p, q \in c[y].running : p.task = q.task => p = q
    BY DEF PlacesRight
  <1>18. PlacesRight(s, c, A)
    BY <1>6, <1>10, <1>12, <1>13, <1>14, <1>15, <1>16, <1>17 DEF PlacesRight
  <1> QED BY <1>5, <1>6, <1>7, <1>9, <1>11, <1>18

LEMMA RequestsFinite ==
    ASSUME NEW r, NEW c, NEW A, RunnerShaped(r), PlacesRight(r, c, A), NEW x
    PROVE  /\ IsFiniteSet(AskedAt(r, x)) /\ AskedAt(r, x) \subseteq RequestType(r.dag)
           /\ IsFiniteSet(AnsweredAt(r, A, x)) /\ AnsweredAt(r, A, x) \subseteq RunningAt(r, x)
  <1>1. PICK q \in Seq(RequestType(r.dag)) : q = r.requests
    BY DEF PlacesRight
  <1>2. IsFiniteSet(ToSet(q)) /\ ToSet(q) \subseteq RequestType(r.dag)
    <2>1. q \in Surjection(DOMAIN q, ToSet(q))
      BY DEF Surjection, ToSet
    <2>2. IsFiniteSet(DOMAIN q)
      BY FS_Interval
    <2>3. \A k \in DOMAIN q : q[k] \in RequestType(r.dag)
      OBVIOUS
    <2> QED BY <2>1, <2>2, <2>3, FS_Surjection DEF ToSet
  <1>3. AskedAt(r, x) \subseteq ToSet(q)
    BY <1>1 DEF AskedAt
  <1>4. AnsweredAt(r, A, x) \subseteq RunningAt(r, x)
    BY DEF AnsweredAt, RunningAt, PlacesRight
  <1>5. IsFiniteSet(RunningAt(r, x))
    BY RunningFinite
  <1> QED BY <1>2, <1>3, <1>4, <1>5, FS_Subset

LEMMA RequestTyped ==
    ASSUME NEW g
    PROVE  \A q \in RequestType(g) : /\ CoresIn(g)[q] = q.cores /\ q.cores \in Nat
                                     /\ MemoryIn(g)[q] = q.memory /\ q.memory \in Nat
  BY DEF RequestType, CoresIn, MemoryIn

LEMMA StartAsks ==
    ASSUME NEW r, NEW x \in Resource, NEW a, NEW K, NEW s, NEW c, NEW A,
           RunnerShaped(r), Supplied(r), Startable(r, x, a, K), Started(s, r, x, a, K),
           PlacesRight(r, c, A)
    PROVE  /\ RequestOf(r, x, a) \notin AskedAt(r, x)
           /\ AskedAt(s, x) = AskedAt(r, x) \cup {RequestOf(r, x, a)}
           /\ \A y \in Resource : y # x => AskedAt(s, y) = AskedAt(r, y)
           /\ \A y \in Resource : AnsweredAt(s, A, y) = AnsweredAt(r, A, y)
           /\ \A t \in A : CoresOf(s)[t] = CoresOf(r)[t]
  <1>1. PICK rq : rq = RequestOf(r, x, a)
    OBVIOUS
  <1>2. rq.task = a.task /\ rq.resource = x
    BY <1>1 DEF RequestOf
  <1>3. ToSet(s.requests) = ToSet(r.requests) \cup {rq}
    <2>1. /\ PlacesRight(s, c, A) /\ ToSet(s.requests) = ToSet(r.requests) \cup {RequestOf(r, x, a)}
          /\ RequestOf(r, x, a) \in RequestType(r.dag)
      BY StartPlaces
    <2> QED BY <1>1, <2>1
  <1>4. State(r.dag, a.task) # "Running"
    BY DEF Startable, Queued
  <1>5. a.task \notin A /\ \A q \in ToSet(r.requests) : q.task # a.task
    BY <1>4, PlacesRun
  <1>6. rq \notin AskedAt(r, x)
    BY <1>2, <1>5 DEF AskedAt
  <1>7. /\ AskedAt(s, x) = AskedAt(r, x) \cup {rq}
        /\ \A y \in Resource : y # x => AskedAt(s, y) = AskedAt(r, y)
    BY <1>2, <1>3 DEF AskedAt
  <1>8. \A y \in Resource : AnsweredAt(s, A, y) = AnsweredAt(r, A, y)
    BY DEF AnsweredAt, Started
  <1>9. /\ a.task \in Tasks(r.dag) /\ a.task \notin RunningAt(r, x)
        /\ RunningAt(s, x) = RunningAt(r, x) \cup {a.task}
        /\ \A y \in Resource : y # x => RunningAt(s, y) = RunningAt(r, y) /\ a.task \notin RunningAt(r, y)
        /\ s.taskCores[a.task] = K
        /\ \A u \in Tasks(r.dag) : u # a.task => s.taskCores[u] = r.taskCores[u]
    BY StartRuns
  <1>10. Tasks(s.dag) = Tasks(r.dag)
    BY StartBegins DEF Begun
  <1>11. \A t \in A : CoresOf(s)[t] = CoresOf(r)[t]
    BY <1>5, <1>9, <1>10 DEF CoresOf, PlacesRight
  <1> QED BY <1>1, <1>6, <1>7, <1>8, <1>11

LEMMA StartComps ==
    ASSUME NEW r, NEW x \in Resource, NEW a, NEW K, NEW s, NEW c, NEW A,
           RunnerShaped(r), Supplied(r), Startable(r, x, a, K), Started(s, r, x, a, K),
           PlacesRight(r, c, A), CompsRight(r, c, A)
    PROVE  CompsRight(s, c, A)
  <1>1. PICK rq : rq = RequestOf(r, x, a)
    OBVIOUS
  <1>2. /\ rq \notin AskedAt(r, x)
        /\ AskedAt(s, x) = AskedAt(r, x) \cup {rq}
        /\ \A y \in Resource : y # x => AskedAt(s, y) = AskedAt(r, y)
        /\ \A y \in Resource : AnsweredAt(s, A, y) = AnsweredAt(r, A, y)
        /\ \A t \in A : CoresOf(s)[t] = CoresOf(r)[t]
    <2>1. PICK o : o = RequestOf(r, x, a)
      OBVIOUS
    <2>2. /\ o \notin AskedAt(r, x)
          /\ AskedAt(s, x) = AskedAt(r, x) \cup {o}
          /\ \A y \in Resource : y # x => AskedAt(s, y) = AskedAt(r, y)
          /\ \A y \in Resource : AnsweredAt(s, A, y) = AnsweredAt(r, A, y)
          /\ \A t \in A : CoresOf(s)[t] = CoresOf(r)[t]
      BY <2>1, StartAsks
    <2> QED BY <1>1, <2>1, <2>2
  <1>3. rq \in RequestType(r.dag) /\ rq.cores = a.cores /\ rq.memory = r.dag.tasks[a.task].memory
    <2>1. RequestOf(r, x, a) \in RequestType(r.dag)
      BY StartPlaces
    <2> QED BY <1>1, <2>1 DEF RequestOf
  <1>4. Begun(s.dag, r.dag, a.task)
    BY StartBegins
  <1>5. /\ CoresIn(s.dag) = CoresIn(r.dag) /\ MemoryIn(s.dag) = MemoryIn(r.dag)
        /\ MemoryOf(s.dag) = MemoryOf(r.dag)
    BY <1>4 DEF Begun, CoresIn, MemoryIn, RequestType, MemoryOf
  <1>6. \A y \in Resource : Total(CoresOf(s), AnsweredAt(s, A, y)) = Total(CoresOf(r), AnsweredAt(r, A, y))
    <2> TAKE y \in Resource
    <2>1. PICK S : S = AnsweredAt(r, A, y)
      OBVIOUS
    <2>2. \A t \in S : CoresOf(s)[t] = CoresOf(r)[t]
      BY <1>2, <2>1 DEF AnsweredAt
    <2>3. Total(CoresOf(s), S) = Total(CoresOf(r), S)
      BY <2>2, TotalSame
    <2> QED BY <1>2, <2>1, <2>3
  <1>7. PICK f : f = CoresIn(r.dag)
    OBVIOUS
  <1>8. PICK m : m = MemoryIn(r.dag)
    OBVIOUS
  <1>9. PICK Q : Q = AskedAt(r, x)
    OBVIOUS
  <1>10. /\ IsFiniteSet(Q) /\ rq \notin Q
         /\ (\A q \in Q : f[q] \in Nat) /\ f[rq] = a.cores /\ f[rq] \in Nat
         /\ (\A q \in Q : m[q] \in Nat) /\ m[rq] = r.dag.tasks[a.task].memory /\ m[rq] \in Nat
    BY <1>2, <1>3, <1>7, <1>8, <1>9, RequestsFinite, RequestTyped
  <1>11. /\ Total(f, Q \cup {rq}) = Total(f, Q) + a.cores /\ Total(f, Q) \in Nat /\ a.cores \in Nat
    <2>0. IsFiniteSet(Q) /\ (\A q \in Q : f[q] \in Nat) /\ rq \notin Q /\ f[rq] \in Nat
      BY <1>10
    <2>1. Total(f, Q \cup {rq}) = Total(f, Q) + f[rq]
      BY ONLY <2>0, TotalGrows
    <2> QED BY <1>10, <2>1, TotalTyped
  <1>12. /\ Total(m, Q \cup {rq}) = Total(m, Q) + r.dag.tasks[a.task].memory /\ Total(m, Q) \in Nat
         /\ r.dag.tasks[a.task].memory \in Nat
    <2>0. IsFiniteSet(Q) /\ (\A q \in Q : m[q] \in Nat) /\ rq \notin Q /\ m[rq] \in Nat
      BY <1>10
    <2>1. Total(m, Q \cup {rq}) = Total(m, Q) + m[rq]
      BY ONLY <2>0, TotalGrows
    <2> QED BY <1>10, <2>1, TotalTyped
  <1>13. /\ s.cores[x] = r.cores[x] - a.cores /\ r.cores[x] \in Nat
         /\ \A y \in Resource : y # x => s.cores[y] = r.cores[y]
         /\ s.memory[x] = r.memory[x] - r.dag.tasks[a.task].memory /\ r.memory[x] \in Nat
         /\ \A y \in Resource : y # x => s.memory[y] = r.memory[y]
    BY DEF Started, RunnerShaped
  <1>14. s.cores[x] + Total(CoresIn(s.dag), AskedAt(s, x)) = r.cores[x] + Total(CoresIn(r.dag), AskedAt(r, x))
    BY <1>2, <1>5, <1>7, <1>9, <1>11, <1>13
  <1>15. s.memory[x] + Total(MemoryIn(s.dag), AskedAt(s, x)) = r.memory[x] + Total(MemoryIn(r.dag), AskedAt(r, x))
    BY <1>2, <1>5, <1>8, <1>9, <1>12, <1>13
  <1>16. \A y \in Resource :
           /\ s.cores[y] + Total(CoresIn(s.dag), AskedAt(s, y)) = r.cores[y] + Total(CoresIn(r.dag), AskedAt(r, y))
           /\ s.memory[y] + Total(MemoryIn(s.dag), AskedAt(s, y)) = r.memory[y] + Total(MemoryIn(r.dag), AskedAt(r, y))
    BY <1>2, <1>5, <1>13, <1>14, <1>15
  <1>17. \A y \in Resource : Total(MemoryOf(s.dag), AnsweredAt(s, A, y)) = Total(MemoryOf(r.dag), AnsweredAt(r, A, y))
    BY <1>2, <1>5
  <1> QED BY <1>6, <1>16, <1>17 DEF CompsRight

\* Everything holds again.
LEMMA StartRight ==
    ASSUME NEW r, NEW x \in Resource, NEW a, NEW K, NEW s, NEW c, NEW A, NEW n,
           RunnerRight(r, c, A, n), Startable(r, x, a, K), s = StartTask(r, x, a, K)
    PROVE  RunnerRight(s, c, A, n) /\ Started(s, r, x, a, K)
  <1>1. /\ RunnerShaped(r) /\ Supplied(r) /\ QueuesRight(r, n)
        /\ CoresRight(r) /\ MemoryRight(r) /\ PlacesRight(r, c, A) /\ CompsRight(r, c, A)
    BY DEF RunnerRight
  <1>2. Started(s, r, x, a, K)
    BY <1>1, StartIs DEF RunnerShaped
  <1>3. RunnerShaped(s) /\ Supplied(s)
    BY <1>1, <1>2, StartShaped
  <1>4. QueuesRight(s, n)
    BY <1>1, <1>2, StartQueues
  <1>5. CoresRight(s)
    BY <1>1, <1>2, StartCores
  <1>6. MemoryRight(s)
    BY <1>1, <1>2, StartMemory
  <1>7. PlacesRight(s, c, A)
    BY <1>1, <1>2, StartPlaces
  <1>8. CompsRight(s, c, A)
    BY <1>1, <1>2, StartComps
  <1> QED BY <1>2, <1>3, <1>4, <1>5, <1>6, <1>7, <1>8 DEF RunnerRight

\* e is r after some tasks have started.
Follows(e, r) ==
    /\ e.location = r.location /\ e.held = r.held /\ Restated(e.dag, r.dag)
    /\ e.actions = r.actions /\ e.nextAction = r.nextAction
    /\ \A y \in Resource : Entries(e, y) \subseteq Entries(r, y)
    /\ FlowRight(r) => FlowRight(e)

LEMMA FollowsSelf ==
    ASSUME NEW r, GraphTyped(r.dag)
    PROVE  Follows(r, r)
  BY RestatedSelf DEF Follows

LEMMA FollowsTwice ==
    ASSUME NEW r, NEW e, NEW s, Follows(e, r), Follows(s, e)
    PROVE  Follows(s, r)
  <1>1. Restated(s.dag, r.dag)
    BY RestatedTwice DEF Follows
  <1> QED BY <1>1 DEF Follows

LEMMA StartFollows ==
    ASSUME NEW r, NEW x \in Resource, NEW a, NEW K, NEW s, NEW n,
           RunnerShaped(r), Supplied(r), Startable(r, x, a, K), Started(s, r, x, a, K),
           QueuesRight(r, n)
    PROVE  Follows(s, r)
  <1>1. Restated(s.dag, r.dag)
    BY StartBegins DEF Begun
  <1>2. QueuesRight(s, n) /\ \A y \in Resource : Entries(s, y) \subseteq Entries(r, y)
    BY StartQueues
  <1>3. FlowRight(r) => FlowRight(s)
    BY StartFlow
  <1> QED BY <1>1, <1>2, <1>3 DEF Follows, Started

\* What stands at the head of the free cores.
LEMMA HeadsRight ==
    ASSUME NEW r, NEW c, NEW A, NEW n, RunnerRight(r, c, A, n), NEW x \in Resource,
           NEW H, H = Heads(r, x), NEW E, E = HeadsOf(r.queue[x], H)
    PROVE  /\ H \subseteq r.free[x] /\ IsFiniteSet(H) /\ H \subseteq Int
           /\ IsFiniteSet(E) /\ E \subseteq Entries(r, x) /\ E \subseteq EntryType(r.dag)
           /\ \A a \in E : /\ r.location[a.task] = x /\ Queued(State(r.dag, a.task)) /\ a.id \in Int
                           /\ \A i \in Range(r.dag.tasks[a.task].inputs) : i \in r.held[x]
           /\ \A a, b \in E : a.id = b.id \/ a.task = b.task => a = b
  <1>1. H \subseteq r.free[x] /\ CoresRight(r) /\ QueuesRight(r, n) /\ RunnerShaped(r)
    BY DEF Heads, RunnerRight
  <1>2. H \subseteq 1..Cores[x] /\ Cores[x] \in Nat
    BY <1>1, ResourceAssumption DEF CoresRight, Resource
  <1>3. IsFiniteSet(H)
    <2>1. IsFiniteSet(1..Cores[x])
      BY <1>2, FS_Interval
    <2> QED BY <1>2, <2>1, FS_Subset
  <1>4. PICK h : h = [k \in H |-> Head(r.queue[x][k])]
    OBVIOUS
  <1>5. h \in Surjection(H, E) /\ \A a \in E : \E k \in H : a = Head(r.queue[x][k])
    BY <1>4 DEF Surjection, HeadsOf
  <1>6. IsFiniteSet(E)
    BY <1>3, <1>5, FS_Surjection
  <1>7. ASSUME NEW a \in E
        PROVE  /\ a \in Entries(r, x) /\ a \in EntryType(r.dag)
               /\ \A i \in Range(r.dag.tasks[a.task].inputs) : i \in r.held[x]
    <2>1. PICK k \in H : a = Head(r.queue[x][k])
      BY <1>5
    <2>2. PICK T : T = EntryType(r.dag)
      OBVIOUS
    <2>3. PICK u \in Seq(T) : u = r.queue[x][k]
      BY <1>1, <1>2, <2>2 DEF QueuesRight
    <2>4. u # <<>> /\ ToSet(r.dag.tasks[a.task].inputs) \subseteq r.held[x]
      BY <2>1, <2>3 DEF Heads
    <2>5. a = u[1] /\ 1 \in DOMAIN u /\ a \in T
      BY <2>1, <2>3, <2>4
    <2>6. a \in Range(u)
      BY <2>5 DEF Range
    <2>7. a \in Entries(r, x)
      BY <1>2, <2>1, <2>3, <2>6 DEF Entries
    <2>8. ToSet(r.dag.tasks[a.task].inputs) = Range(r.dag.tasks[a.task].inputs)
      BY DEF ToSet, Range
    <2> QED BY <2>2, <2>4, <2>5, <2>7, <2>8
  <1>8. \A a \in E : r.location[a.task] = x /\ Queued(State(r.dag, a.task)) /\ a.id \in Int
    BY <1>1, <1>7 DEF QueuesRight, EntryType
  <1>9. \A a, b \in E : a.id = b.id \/ a.task = b.task => a = b
    BY <1>1, <1>7 DEF QueuesRight
  <1> QED BY <1>1, <1>2, <1>3, <1>6, <1>7, <1>8, <1>9

\* In a pass over the entries in order, after k of them.
InPass(e, r, c, A, n, x, H, order, k) ==
    /\ RunnerRight(e, c, A, n) /\ Follows(e, r)
    /\ \A j \in (k + 1)..Len(order) :
         /\ Queued(State(e.dag, order[j].task))
         /\ Showing(r.queue[x], H, order[j]) \subseteq e.free[x]

LEMMA PassSteps ==
    ASSUME NEW r, NEW c, NEW A, NEW n, RunnerRight(r, c, A, n), NEW x \in Resource,
           NEW H, H = Heads(r, x), NEW E, E = HeadsOf(r.queue[x], H),
           NEW order, Lists(order, E), NEW k \in 1..Len(order), NEW e,
           InPass(e, r, c, A, n, x, H, order, k - 1),
           NEW s, s = StartIfReady(e, x, order[k], Showing(r.queue[x], H, order[k]))
    PROVE  InPass(s, r, c, A, n, x, H, order, k)
  <1>1. PICK a : a = order[k] /\ a \in E
    BY DEF Lists
  <1>2. PICK R : R = Showing(r.queue[x], H, a)
    OBVIOUS
  <1>3. /\ H \subseteq r.free[x] /\ IsFiniteSet(H) /\ H \subseteq Int
        /\ IsFiniteSet(E) /\ E \subseteq Entries(r, x) /\ E \subseteq EntryType(r.dag)
        /\ \A b \in E : /\ r.location[b.task] = x /\ Queued(State(r.dag, b.task)) /\ b.id \in Int
                        /\ \A i \in Range(r.dag.tasks[b.task].inputs) : i \in r.held[x]
        /\ \A b, d \in E : b.id = d.id \/ b.task = d.task => b = d
    BY HeadsRight
  <1>4. order \in Seq(E) /\ Len(order) \in Nat
    BY DEF Lists
  <1>5. k \in ((k - 1) + 1)..Len(order) /\ \A j \in (k + 1)..Len(order) : j \in ((k - 1) + 1)..Len(order) /\ j # k
    BY <1>4
  <1>6. RunnerRight(e, c, A, n) /\ Follows(e, r) /\ Queued(State(e.dag, a.task)) /\ R \subseteq e.free[x]
    BY <1>1, <1>2, <1>5 DEF InPass
  <1>7. CASE Cardinality(R) < a.cores \/ e.dag.tasks[a.task].memory > e.memory[x]
    <2>1. s = e
      BY <1>1, <1>2, <1>7 DEF StartIfReady
    <2> QED BY <1>5, <2>1 DEF InPass
  <1>8. CASE ~ (Cardinality(R) < a.cores \/ e.dag.tasks[a.task].memory > e.memory[x])
    <2>1. PICK K : K = ToSet(SubSeq(InOrder(R), 1, a.cores))
      OBVIOUS
    <2>2. s = StartTask(e, x, a, K)
      BY <1>1, <1>2, <1>8, <2>1 DEF StartIfReady
    <2>3. R \subseteq H /\ IsFiniteSet(R) /\ R \subseteq Int /\ Cardinality(R) \in Nat
      <3>1. R \subseteq H
        BY <1>2 DEF Showing
      <3> QED BY <1>3, <3>1, FS_Subset, FS_CardinalityType
    <2>4. a \in EntryType(r.dag) /\ a.cores \in Nat /\ a.task \in Tasks(r.dag)
      BY <1>1, <1>3 DEF EntryType
    <2>5. K \subseteq R /\ Cardinality(K) = a.cores
      <3>1. PICK o : o = InOrder(R)
        OBVIOUS
      <3>2. Lists(o, R) /\ Len(o) = Cardinality(R)
        BY <2>3, <3>1, InOrderLists
      <3>3. a.cores <= Len(o)
        BY <1>8, <2>3, <2>4, <3>2
      <3> QED BY <2>1, <2>4, <3>1, <3>2, <3>3, FirstTaken
    <2>6. Restated(e.dag, r.dag) /\ e.location = r.location /\ e.held = r.held
          /\ Entries(e, x) \subseteq Entries(r, x)
      BY <1>6 DEF Follows
    <2>7. a \in EntryType(e.dag)
      BY <2>4, <2>6 DEF Restated, EntryType
    <2>8. e.dag.tasks[a.task].memory <= e.memory[x]
      <3>1. e.dag.tasks[a.task].memory \in Nat /\ e.memory[x] \in Nat
        BY <1>6, <2>7 DEF RunnerRight, RunnerShaped, GraphTyped, TaskTyped, EntryType
      <3> QED BY <1>8, <3>1
    <2>9. \A i \in Range(e.dag.tasks[a.task].inputs) : i \in e.held[x]
      BY <1>1, <1>3, <2>4, <2>6 DEF Restated
    <2>10. \A b \in Entries(e, x) : b.task = a.task => b = a
      <3>1. QueuesRight(r, n)
        BY DEF RunnerRight
      <3> QED BY <1>1, <1>3, <2>6, <3>1 DEF QueuesRight
    <2>11. Startable(e, x, a, K)
      BY <1>1, <1>3, <1>6, <2>5, <2>6, <2>7, <2>8, <2>9, <2>10 DEF Startable
    <2>12. RunnerRight(s, c, A, n) /\ Started(s, e, x, a, K)
      BY <1>6, <2>2, <2>11, StartRight
    <2>13. RunnerShaped(e) /\ Supplied(e) /\ QueuesRight(e, n)
      BY <1>6 DEF RunnerRight
    <2>14. Follows(s, e) /\ Begun(s.dag, e.dag, a.task)
      BY <2>11, <2>12, <2>13, StartFollows, StartBegins
    <2>15. Follows(s, r)
      BY <1>6, <2>14, FollowsTwice
    <2>16. ASSUME NEW j \in (k + 1)..Len(order)
           PROVE  /\ Queued(State(s.dag, order[j].task))
                  /\ Showing(r.queue[x], H, order[j]) \subseteq s.free[x]
      <3>1. PICK b : b = order[j] /\ b \in E
        BY <1>4
      <3>2. b # a
        <4>1. j \in 1..Len(order) /\ j # k
          BY <1>4
        <4> QED BY <1>1, <3>1, <4>1 DEF Lists
      <3>3. b.task # a.task /\ b.task \in Tasks(e.dag)
        BY <1>1, <1>3, <2>6, <3>1, <3>2 DEF EntryType, Restated
      <3>4. Queued(State(e.dag, b.task)) /\ Showing(r.queue[x], H, b) \subseteq e.free[x]
        BY <1>5, <3>1 DEF InPass
      <3>5. State(s.dag, b.task) = State(e.dag, b.task)
        BY <2>14, <3>3 DEF Begun
      <3>6. Showing(r.queue[x], H, b) \cap R = {}
        BY <1>2, <3>2 DEF Showing
      <3>7. s.free[x] = e.free[x] \ K
        BY <2>12, <2>13 DEF Started, RunnerShaped
      <3> QED BY <2>5, <3>1, <3>4, <3>5, <3>6, <3>7
    <2> QED BY <2>12, <2>15, <2>16 DEF InPass
  <1> QED BY <1>7, <1>8

LEMMA PassRight ==
    ASSUME NEW r, NEW c, NEW A, NEW n, RunnerRight(r, c, A, n), NEW x \in Resource,
           NEW s, s = Pass(r, x)
    PROVE  RunnerRight(s, c, A, n) /\ Follows(s, r)
  <1>1. PICK H : H = Heads(r, x)
    OBVIOUS
  <1>2. PICK q : q = r.queue[x]
    OBVIOUS
  <1>3. PICK E : E = HeadsOf(q, H)
    OBVIOUS
  <1>4. PICK order : order = EntriesInOrder(E)
    OBVIOUS
  <1>5. /\ H \subseteq r.free[x] /\ IsFiniteSet(H) /\ H \subseteq Int
        /\ IsFiniteSet(E) /\ E \subseteq Entries(r, x) /\ E \subseteq EntryType(r.dag)
        /\ \A a \in E : /\ r.location[a.task] = x /\ Queued(State(r.dag, a.task)) /\ a.id \in Int
                        /\ \A i \in Range(r.dag.tasks[a.task].inputs) : i \in r.held[x]
        /\ \A a, b \in E : a.id = b.id \/ a.task = b.task => a = b
    BY <1>1, <1>2, <1>3, HeadsRight
  <1>6. Lists(order, E)
    <2>1. IsFiniteSet(E) /\ (\A a \in E : a.id \in Int) /\ \A a, b \in E : a.id = b.id => a = b
      BY <1>5
    <2> QED BY <1>4, <2>1, EntriesListed
  <1>7. order \in Seq(E) /\ Len(order) \in Nat
    BY <1>6 DEF Lists
  <1>8. s = StartReady(r, x, q, H, order)
    BY <1>1, <1>2, <1>3, <1>4, PassIs
  <1>9. PICK f : /\ f[0] = r
                 /\ \A k \in 1..Len(order) : f[k] = StartIfReady(f[k - 1], x, order[k], Showing(q, H, order[k]))
                 /\ StartReady(r, x, q, H, order) = f[Len(order)]
    <2>1. order \in Seq(E)
      BY <1>7
    <2> QED BY ONLY <2>1, StartReadyFolds
  <1> DEFINE P(k) == InPass(f[k], r, c, A, n, x, H, order, k)
             F == {k \in 0..Len(order) : P(k)}
  <1>10. 0 \in F
    <2>1. ASSUME NEW j \in (0 + 1)..Len(order)
          PROVE  /\ Queued(State(r.dag, order[j].task))
                 /\ Showing(r.queue[x], H, order[j]) \subseteq r.free[x]
      <3>1. order[j] \in E
        BY <1>7
      <3> QED BY <1>5, <3>1 DEF Showing
    <2>2. Follows(r, r)
      BY FollowsSelf DEF RunnerRight, RunnerShaped
    <2>3. InPass(r, r, c, A, n, x, H, order, 0)
      BY <2>1, <2>2 DEF InPass
    <2>4. 0 \in 0..Len(order)
      BY <1>7
    <2> QED BY <1>9, <2>3, <2>4
  <1>11. ASSUME NEW k \in 1..Len(order), k - 1 \in F PROVE k \in F
    <2>1. PICK e : e = f[k - 1] /\ InPass(e, r, c, A, n, x, H, order, k - 1)
      BY <1>11
    <2>2. PICK d : d = StartIfReady(e, x, order[k], Showing(r.queue[x], H, order[k]))
      OBVIOUS
    <2>3. f[k] = d
      BY <1>2, <1>9, <2>1, <2>2
    <2>4. E = HeadsOf(r.queue[x], H)
      BY <1>2, <1>3
    <2>5. InPass(d, r, c, A, n, x, H, order, k)
      BY <1>1, <1>6, <2>1, <2>2, <2>4, PassSteps
    <2>6. k \in 0..Len(order)
      BY <1>7
    <2> QED BY <2>3, <2>5, <2>6
  <1> HIDE DEF F
  <1>12. Len(order) \in F
    <2>1. \A k \in 0..Len(order) : k \in F
      BY <1>7, <1>10, <1>11, PrefixInduction
    <2> QED BY <1>7, <2>1
  <1>13. InPass(s, r, c, A, n, x, H, order, Len(order))
    BY <1>8, <1>9, <1>12 DEF F
  <1> QED BY <1>13 DEF InPass

\* process_resource_queue
LEMMA QueueProcessed ==
    ASSUME NEW r, NEW c, NEW A, NEW n, RunnerRight(r, c, A, n), NEW x \in Resource,
           NEW s, s = ProcessResourceQueue(r, x)
    PROVE  RunnerRight(s, c, A, n) /\ Follows(s, r)
  <1>1. PICK S : r.dag.tasks \in Seq(S)
    BY DEF RunnerRight, RunnerShaped, GraphTyped
  <1>2. PICK t \in Seq(S) : t = r.dag.tasks
    BY <1>1
  <1>3. s = Passes(r, x, t)
    BY <1>2, ProcessIs
  <1>4. PICK f : /\ f[0] = r
                 /\ \A k \in 1..Len(t) : f[k] = Pass(f[k - 1], x)
                 /\ Passes(r, x, t) = f[Len(t)]
    <2>1. t \in Seq(S)
      OBVIOUS
    <2> QED BY ONLY <2>1, PassesFolds
  <1> DEFINE P(e) == RunnerRight(e, c, A, n) /\ Follows(e, r)
             F == {k \in 0..Len(t) : P(f[k])}
  <1>5. Len(t) \in Nat /\ 0 \in F
    <2>1. Follows(r, r)
      BY FollowsSelf DEF RunnerRight, RunnerShaped
    <2>2. Len(t) \in Nat /\ 0 \in 0..Len(t)
      OBVIOUS
    <2> QED BY <1>4, <2>1, <2>2
  <1>6. ASSUME NEW k \in 1..Len(t), k - 1 \in F PROVE k \in F
    <2>1. PICK e : e = f[k - 1] /\ P(e)
      BY <1>6
    <2>2. PICK d : d = Pass(e, x)
      OBVIOUS
    <2>3. RunnerRight(d, c, A, n) /\ Follows(d, e)
      BY <2>1, <2>2, PassRight
    <2>4. P(d)
      BY <2>1, <2>3, FollowsTwice
    <2>5. f[k] = d /\ k \in 0..Len(t)
      BY <1>4, <2>1, <2>2
    <2> HIDE DEF P
    <2> QED BY <2>4, <2>5
  <1> HIDE DEF F
  <1>7. Len(t) \in F
    <2>1. \A k \in 0..Len(t) : k \in F
      BY <1>5, <1>6, PrefixInduction
    <2> QED BY <1>5, <2>1
  <1> QED BY <1>3, <1>4, <1>7 DEF F

-----------------------------------------------------------------------------
(* Data moves.                                                             *)

\* What was held or under way still is, and what was asked for is still asked
\* for or is under way.
Onward(s, r) ==
    /\ \A n \in Node : r.held[n] \subseteq s.held[n]
    /\ \A m \in BagToSet(r.moving) : m \in BagToSet(s.moving)
    /\ \A n \in Node : \A i \in Items(r.dag) : \A y \in Range(r.wanted[n][i]) :
         y \in Range(s.wanted[n][i]) \/ MovingTo(s, i, y)

\* s is r after data has been moved, asked for, or has come.
Hauled(s, r) == Moved(s, r) /\ Supplied(s) /\ Onward(s, r)

LEMMA HauledSelf ==
    ASSUME NEW r, Supplied(r)
    PROVE  Hauled(r, r)
  BY DEF Hauled, Moved, Onward

LEMMA HauledMoving ==
    ASSUME NEW r, NEW s, Hauled(s, r), NEW i, NEW n, MovingTo(r, i, n)
    PROVE  MovingTo(s, i, n)
  BY DEF Hauled, Onward, MovingTo

LEMMA HauledTwice ==
    ASSUME NEW r, NEW e, NEW s, DOMAIN r = RunnerFields, Hauled(e, r), Hauled(s, e)
    PROVE  Hauled(s, r)
  <1>1. Moved(s, r) /\ Supplied(s)
    BY DEF Hauled, Moved
  <1>2. e.dag = r.dag
    BY MovedIs DEF Hauled
  <1>3. ASSUME NEW n \in Node, NEW i \in Items(r.dag), NEW y \in Range(r.wanted[n][i])
        PROVE  y \in Range(s.wanted[n][i]) \/ MovingTo(s, i, y)
    <2>1. CASE y \in Range(e.wanted[n][i])
      BY <1>2, <2>1 DEF Hauled, Onward
    <2>2. CASE MovingTo(e, i, y)
      BY <2>2, HauledMoving
    <2> QED BY <2>1, <2>2 DEF Hauled, Onward
  <1>4. \A n \in Node : r.held[n] \subseteq s.held[n]
    BY DEF Hauled, Onward
  <1>5. \A m \in BagToSet(r.moving) : m \in BagToSet(s.moving)
    BY DEF Hauled, Onward
  <1>6. Onward(s, r)
    BY ONLY <1>3, <1>4, <1>5 DEF Onward
  <1> QED BY <1>1, <1>6 DEF Hauled

LEMMA TransferHauls ==
    ASSUME NEW r, DOMAIN r = RunnerFields, Supplied(r), NEW i, Made(r.dag, i),
           NEW from, NEW to \in Node, NEW s, s = TransferData(r, i, from, to)
    PROVE  Hauled(s, r) /\ MovingTo(s, i, to)
  <1>1. PICK m : m = [item |-> i, from |-> from, to |-> to]
    OBVIOUS
  <1>2. PICK b : b = r.moving (+) SetToBag({m})
    OBVIOUS
  <1>3. s = [r EXCEPT !.moving = b]
    BY <1>1, <1>2 DEF TransferData
  <1>4. Moved(s, r) /\ s.moving = b /\ s.held = r.held /\ s.wanted = r.wanted /\ s.dag = r.dag
    BY <1>3 DEF Moved, RunnerFields, DataFields
  <1>5. BagToSet(b) = BagToSet(r.moving) \cup {m}
    BY <1>2 DEF BagToSet, SetToBag, (+)
  <1>6. m.item = i /\ m.to = to
    BY <1>1
  <1>7. Onward(s, r) /\ MovingTo(s, i, to)
    BY <1>4, <1>5, <1>6 DEF Onward, MovingTo
  <1>8. IsABag(b)
    <2>1. PICK a : a = r.moving /\ IsABag(a)
      BY DEF Supplied
    <2>2. b = [e \in DOMAIN a \cup {m} |->
                (IF e \in DOMAIN a THEN a[e] ELSE 0) + (IF e = m THEN 1 ELSE 0)]
      BY <1>2, <2>1 DEF SetToBag, (+)
    <2> QED BY ONLY <2>1, <2>2 DEF IsABag
  <1>9. Supplied(s)
    BY <1>4, <1>5, <1>6, <1>8 DEF Supplied, Made
  <1> QED BY <1>4, <1>7, <1>9 DEF Hauled

\* w are those who want i from n.
Wanting(r, n, i, w) == [r EXCEPT !.wanted[n][i] = w]

Wants(s, r, n, i, w) ==
    /\ Moved(s, r) /\ Supplied(s) /\ s.moving = r.moving /\ s.held = r.held
    /\ s.wanted[n][i] = w
    /\ \A m \in Node : \A j \in Items(r.dag) :
         m # n \/ j # i => s.wanted[m][j] = r.wanted[m][j]

LEMMA WantMoves ==
    ASSUME NEW r, DOMAIN r = RunnerFields, Supplied(r), NEW i \in Items(r.dag), NEW n \in Node,
           NEW w \in Seq(Node), NEW s, s = Wanting(r, n, i, w)
    PROVE  Wants(s, r, n, i, w)
  <1>1. PICK v : v = [r.wanted EXCEPT ![n][i] = w]
    OBVIOUS
  <1>2. s = [r EXCEPT !.wanted = v]
    BY <1>1 DEF Wanting
  <1>3. Moved(s, r) /\ s.moving = r.moving /\ s.held = r.held /\ s.wanted = v /\ s.dag = r.dag
    BY <1>2 DEF Moved, RunnerFields, DataFields
  <1>4. r.wanted \in [Node -> [Items(r.dag) -> Seq(Node)]]
    BY DEF Supplied
  <1>5. v \in [Node -> [Items(r.dag) -> Seq(Node)]]
    BY <1>1, <1>4
  <1>6. /\ v[n][i] = w
        /\ \A m \in Node : \A j \in Items(r.dag) : m # n \/ j # i => v[m][j] = r.wanted[m][j]
    BY <1>1, <1>4
  <1>7. Supplied(s)
    BY <1>3, <1>5 DEF Supplied
  <1> QED BY <1>3, <1>6, <1>7 DEF Wants

LEMMA AddHauls ==
    ASSUME NEW r, DOMAIN r = RunnerFields, Supplied(r), NEW i \in Items(r.dag),
           NEW from \in Node, NEW to \in Node, NEW s, s = AddDataTransferTask(r, i, from, to)
    PROVE  /\ Hauled(s, r)
           /\ i \in r.held[from] => MovingTo(s, i, to)
           /\ i \notin r.held[from] => to \in Range(s.wanted[from][i])
  <1>1. CASE i \in r.held[from]
    <2>1. s = TransferData(r, i, from, to)
      BY <1>1 DEF AddDataTransferTask
    <2>2. Made(r.dag, i)
      BY <1>1 DEF Supplied, Made
    <2> QED BY <1>1, <2>1, <2>2, TransferHauls
  <1>2. CASE i \notin r.held[from]
    <2>1. PICK v \in Seq(Node) : v = r.wanted[from][i]
      BY DEF Supplied
    <2>2. PICK w \in Seq(Node) : w = Append(v, to)
      <3>1. Append(v, to) \in Seq(Node)
        OBVIOUS
      <3> QED BY <3>1
    <2>3. to \in Range(w) /\ \A y \in Range(v) : y \in Range(w)
      BY ONLY <2>1, <2>2, v \in Seq(Node), to \in Node, AppendRange
    <2>4. s = Wanting(r, from, i, w)
      BY <1>2, <2>1, <2>2 DEF AddDataTransferTask, Wanting
    <2>5. /\ Moved(s, r) /\ Supplied(s) /\ s.moving = r.moving /\ s.held = r.held
          /\ s.wanted[from][i] = w
          /\ \A m \in Node : \A j \in Items(r.dag) :
               m # from \/ j # i => s.wanted[m][j] = r.wanted[m][j]
      <3>1. Wants(s, r, from, i, w)
        BY <2>4, WantMoves
      <3> QED BY <3>1 DEF Wants
    <2>6. Onward(s, r)
      BY <2>1, <2>3, <2>5 DEF Onward
    <2> QED BY <1>2, <2>3, <2>5, <2>6 DEF Hauled
  <1> QED BY <1>1, <1>2

LEMMA TransferAllHauls ==
    ASSUME NEW r, DOMAIN r = RunnerFields, Supplied(r), NEW i, Made(r.dag, i),
           NEW n, NEW w \in Seq(Node), NEW s, s = TransferAll(r, i, n, w)
    PROVE  Hauled(s, r) /\ \A y \in Range(w) : MovingTo(s, i, y)
  <1>1. PICK f : /\ f[0] = r
                 /\ \A k \in 1..Len(w) : f[k] = TransferData(f[k - 1], i, n, w[k])
                 /\ TransferAll(r, i, n, w) = f[Len(w)]
    <2>1. w \in Seq(Node)
      OBVIOUS
    <2> QED BY ONLY <2>1, TransferAllFolds
  <1> DEFINE F == {k \in 0..Len(w) : Hauled(f[k], r) /\ \A j \in 1..k : MovingTo(f[k], i, w[j])}
  <1>2. Len(w) \in Nat /\ 0 \in F
    BY <1>1, HauledSelf
  <1>3. ASSUME NEW k \in 1..Len(w), k - 1 \in F PROVE k \in F
    <2>1. PICK e : e = f[k - 1] /\ Hauled(e, r) /\ \A j \in 1..(k - 1) : MovingTo(e, i, w[j])
      BY <1>3
    <2>2. PICK d : d = TransferData(e, i, n, w[k])
      OBVIOUS
    <2>3. DOMAIN e = RunnerFields /\ Supplied(e) /\ e.dag = r.dag
      BY <2>1, MovedIs DEF Hauled
    <2>4. Hauled(d, e) /\ MovingTo(d, i, w[k])
      <3>1. w[k] \in Node
        OBVIOUS
      <3>2. Made(e.dag, i)
        BY <2>3
      <3> QED BY <2>2, <2>3, <3>1, <3>2, TransferHauls
    <2>5. Hauled(d, r)
      BY <2>1, <2>4, HauledTwice
    <2>6. ASSUME NEW j \in 1..k PROVE MovingTo(d, i, w[j])
      <3>1. CASE j = k
        BY <2>4, <3>1
      <3>2. CASE j # k
        <4>1. MovingTo(e, i, w[j])
          BY <2>1, <3>2
        <4> QED BY <2>4, <4>1, HauledMoving
      <3> QED BY <3>1, <3>2
    <2>7. f[k] = d /\ k \in 0..Len(w)
      BY <1>1, <2>1, <2>2
    <2> QED BY <2>5, <2>6, <2>7
  <1> HIDE DEF F
  <1>4. Len(w) \in F
    <2>1. \A k \in 0..Len(w) : k \in F
      BY <1>2, <1>3, PrefixInduction
    <2> QED BY <1>2, <2>1
  <1> QED BY <1>1, <1>4 DEF F, Range

LEMMA SendHauls ==
    ASSUME NEW r, DOMAIN r = RunnerFields, Supplied(r), NEW i, Made(r.dag, i), NEW n \in Node,
           NEW s, s = SendWanted(r, i, n)
    PROVE  Hauled(s, r) /\ \A y \in Range(r.wanted[n][i]) : MovingTo(s, i, y)
  <1>1. PICK w \in Seq(Node) : w = r.wanted[n][i]
    BY DEF Supplied, Made
  <1>2. PICK none \in Seq(Node) : none = <<>>
    <2>1. \E none \in Seq(Node) : none = <<>>
      <3>1. <<>> \in Seq(Node)
        OBVIOUS
      <3> QED BY <3>1
    <2> QED BY <2>1
  <1>3. PICK e : e = Wanting(r, n, i, none)
    OBVIOUS
  <1>4. i \in Items(r.dag)
    BY DEF Made
  <1>5. /\ Moved(e, r) /\ Supplied(e) /\ e.moving = r.moving /\ e.held = r.held
        /\ \A m \in Node : \A j \in Items(r.dag) :
             m # n \/ j # i => e.wanted[m][j] = r.wanted[m][j]
    <2>1. Wants(e, r, n, i, none)
      BY <1>3, <1>4, WantMoves
    <2> QED BY <2>1 DEF Wants
  <1>6. DOMAIN e = RunnerFields /\ e.dag = r.dag
    BY <1>5, MovedIs
  <1>7. s = TransferAll(e, i, n, w)
    BY <1>1, <1>2, <1>3, SendIs DEF Wanting
  <1>8. Hauled(s, e) /\ \A y \in Range(w) : MovingTo(s, i, y)
    BY <1>5, <1>6, <1>7, TransferAllHauls
  <1>9. Moved(s, r) /\ Supplied(s)
    BY <1>5, <1>8 DEF Hauled, Moved
  <1>10. Onward(s, r)
    BY <1>1, <1>5, <1>6, <1>8 DEF Hauled, Onward
  <1> QED BY <1>1, <1>8, <1>9, <1>10 DEF Hauled

LEMMA ArriveHauls ==
    ASSUME NEW r, DOMAIN r = RunnerFields, Supplied(r), NEW i, Made(r.dag, i), NEW n \in Node,
           NEW s, s = Arrive(r, i, n)
    PROVE  Hauled(s, r) /\ i \in s.held[n] /\ \A y \in Range(r.wanted[n][i]) : MovingTo(s, i, y)
  <1>1. PICK v : v = [r.held EXCEPT ![n] = @ \cup {i}]
    OBVIOUS
  <1>2. PICK e : e = [r EXCEPT !.held = v]
    OBVIOUS
  <1>3. Moved(e, r) /\ e.moving = r.moving /\ e.held = v /\ e.wanted = r.wanted /\ e.dag = r.dag
    BY <1>2 DEF Moved, RunnerFields, DataFields
  <1>4. v \in [Node -> SUBSET Items(r.dag)] /\ \A m \in Node : \A j \in v[m] : j \in r.held[m] \/ j = i
    BY <1>1 DEF Supplied, Made
  <1>5. Supplied(e)
    BY <1>3, <1>4 DEF Supplied, Made
  <1>6. i \in e.held[n] /\ \A m \in Node : r.held[m] \subseteq e.held[m]
    BY <1>1, <1>3 DEF Supplied
  <1>7. Onward(e, r)
    BY <1>3, <1>6 DEF Onward
  <1>8. Hauled(e, r) /\ DOMAIN e = RunnerFields
    BY <1>3, <1>5, <1>7 DEF Hauled, Moved
  <1>9. s = SendWanted(e, i, n)
    BY <1>1, <1>2 DEF Arrive
  <1>10. Hauled(s, e) /\ \A y \in Range(r.wanted[n][i]) : MovingTo(s, i, y)
    <2>1. Hauled(s, e) /\ \A y \in Range(e.wanted[n][i]) : MovingTo(s, i, y)
      BY <1>3, <1>5, <1>8, <1>9, SendHauls
    <2> QED BY <1>3, <2>1
  <1>11. i \in s.held[n]
    BY <1>6, <1>10 DEF Hauled, Onward
  <1> QED BY <1>8, <1>10, <1>11, HauledTwice

\* What was on its way still is after data has moved.
LEMMA HauledComing ==
    ASSUME NEW r, DOMAIN r = RunnerFields, NEW s, Hauled(s, r), NEW i \in Items(r.dag),
           NEW x \in Node, Coming(r, i, x)
    PROVE  Coming(s, i, x)
  <1>1. s.dag = r.dag /\ s.mode = r.mode /\ s.at = r.at
    BY MovedIs DEF Hauled
  <1>2. r.held[x] \subseteq s.held[x] /\ Runner \in Node
        /\ \A n \in Node : \A y \in Range(r.wanted[n][i]) : y \in Range(s.wanted[n][i]) \/ MovingTo(s, i, y)
    BY DEF Hauled, Onward, Node
  <1>3. \A n : MovingTo(r, i, n) => MovingTo(s, i, n)
    BY HauledMoving
  <1> QED BY <1>1, <1>2, <1>3 DEF Coming

LEMMA HauledStored ==
    ASSUME NEW r, DOMAIN r = RunnerFields, NEW s, Hauled(s, r), Stored(r)
    PROVE  Stored(s)
  <1>1. s.dag = r.dag /\ s.mode = r.mode /\ s.at = r.at
    BY MovedIs DEF Hauled
  <1>2. Runner \in Node /\ \A n \in Node : r.held[n] \subseteq s.held[n]
    BY DEF Hauled, Onward, Node
  <1>3. \A i, n : MovingTo(r, i, n) => MovingTo(s, i, n)
    BY HauledMoving
  <1> QED BY <1>1, <1>2, <1>3 DEF Stored

LEMMA HauledFed ==
    ASSUME NEW r, RunnerShaped(r), NEW s, Hauled(s, r), NEW t \in Tasks(r.dag),
           r.location[t] \in Resource, Fed(r, t)
    PROVE  Fed(s, t)
  <1>1. DOMAIN r = RunnerFields
    BY DEF RunnerShaped
  <1>2. s.dag = r.dag /\ s.location = r.location
    BY <1>1, MovedIs DEF Hauled
  <1>3. \A i \in Range(r.dag.tasks[t].inputs) : i \in Items(r.dag)
    <2>1. r.dag.tasks[t].inputs \in Seq(Items(r.dag))
      BY DEF RunnerShaped, GraphTyped, TaskTyped
    <2> QED BY <2>1 DEF Range
  <1>4. PICK x \in Node : x = r.location[t]
    BY DEF Node
  <1>5. \A i \in Range(r.dag.tasks[t].inputs) : Coming(s, i, x)
    BY <1>1, <1>3, <1>4, HauledComing DEF Fed
  <1> QED BY <1>2, <1>4, <1>5 DEF Fed

LEMMA HauledFlow ==
    ASSUME NEW r, RunnerShaped(r), FlowRight(r), NEW s, Hauled(s, r)
    PROVE  FlowRight(s)
  <1>1. DOMAIN r = RunnerFields
    BY DEF RunnerShaped
  <1>2. s.dag = r.dag /\ s.location = r.location /\ s.mode = r.mode
    BY <1>1, MovedIs DEF Hauled
  <1>3. Stored(r) => Stored(s)
    BY <1>1, HauledStored
  <1>4. \A t \in Tasks(r.dag) : r.location[t] \in Resource /\ Fed(r, t) => Fed(s, t)
    BY HauledFed
  <1> QED BY <1>2, <1>3, <1>4 DEF FlowRight

LEMMA HauledShaped ==
    ASSUME NEW r, RunnerShaped(r), NEW s, Hauled(s, r)
    PROVE  RunnerShaped(s) /\ Supplied(s) /\ s.dag = r.dag /\ s.location = r.location /\ s.at = r.at
  <1>1. DOMAIN r = RunnerFields /\ Moved(s, r)
    BY DEF RunnerShaped, Hauled
  <1>2. /\ DOMAIN s = RunnerFields /\ s.dag = r.dag /\ s.at = r.at
        /\ s.free = r.free /\ s.cores = r.cores /\ s.memory = r.memory
        /\ s.location = r.location /\ s.taskCores = r.taskCores
    BY <1>1, MovedIs
  <1> QED BY <1>2 DEF RunnerShaped, Hauled

LEMMA NowhereApart ==
    Nowhere \notin Node
  BY ResourceAssumption DEF Nowhere, Node, Runner, Resource

\* The data can be had from where it is sent from.
Fetchable(r) == Stored(r) /\ r.mode \in {"ViaMasterNode", "Direct"}

LEMMA HauledFetchable ==
    ASSUME NEW r, DOMAIN r = RunnerFields, NEW s, Hauled(s, r), Fetchable(r)
    PROVE  Fetchable(s)
  <1>1. s.mode = r.mode
    BY MovedIs DEF Hauled
  <1> QED BY <1>1, HauledStored DEF Fetchable

LEMMA FetchHauls ==
    ASSUME NEW r, RunnerShaped(r), Supplied(r), NEW i \in Items(r.dag), NEW x \in Node,
           NEW s, s = FetchInput(r, i, x)
    PROVE  Hauled(s, r) /\ (Fetchable(r) => Coming(s, i, x))
  <1>1. DOMAIN r = RunnerFields /\ Runner \in Node /\ r.at[i] \in Node \cup {Nowhere}
    BY DEF RunnerShaped, Node
  <1>2. CASE r.mode = "ViaMasterNode"
    <2>1. s = AddDataTransferTask(r, i, Runner, x)
      BY <1>2 DEF FetchInput
    <2>2. /\ Hauled(s, r)
          /\ i \in r.held[Runner] => MovingTo(s, i, x)
          /\ i \notin r.held[Runner] => x \in Range(s.wanted[Runner][i])
      BY <1>1, <2>1, AddHauls
    <2>3. s.dag = r.dag /\ s.mode = r.mode
      BY <1>1, <2>2, MovedIs DEF Hauled
    <2>4. MovingTo(r, i, Runner) => MovingTo(s, i, Runner)
      BY <2>2, HauledMoving
    <2>5. Fetchable(r) => Coming(s, i, x)
      BY <1>2, <2>2, <2>3, <2>4 DEF Fetchable, Stored, Coming
    <2> QED BY <2>2, <2>5
  <1>3. CASE r.mode # "ViaMasterNode" /\ r.mode = "Direct" /\ r.at[i] \notin {Nowhere, x}
    <2>1. s = AddDataTransferTask(r, i, r.at[i], x) /\ r.at[i] \in Node
      BY <1>1, <1>3 DEF FetchInput
    <2>2. Hauled(s, r) /\ (i \in r.held[r.at[i]] => MovingTo(s, i, x))
      BY <1>1, <2>1, AddHauls
    <2>3. s.dag = r.dag /\ s.mode = r.mode
      BY <1>1, <2>2, MovedIs DEF Hauled
    <2>4. Fetchable(r) => Coming(s, i, x)
      BY <1>3, <2>2, <2>3 DEF Fetchable, Stored, Coming
    <2> QED BY <2>2, <2>4
  <1>4. CASE r.mode # "ViaMasterNode" /\ ~ (r.mode = "Direct" /\ r.at[i] \notin {Nowhere, x})
    <2>1. s = r
      BY <1>4 DEF FetchInput
    <2>2. Fetchable(r) => Coming(r, i, x)
      BY <1>1, <1>4, NowhereApart DEF Fetchable, Stored, Coming
    <2> QED BY <2>1, <2>2, HauledSelf
  <1> QED BY <1>2, <1>3, <1>4

\* i goes to where t waits, if that is not x.
Reaching(r, i, x, t) == r.location[t] \in Resource \ {x} => MovingTo(r, i, r.location[t])

LEMMA HauledReaching ==
    ASSUME NEW r, DOMAIN r = RunnerFields, NEW s, Hauled(s, r), NEW i, NEW x, NEW t,
           Reaching(r, i, x, t)
    PROVE  Reaching(s, i, x, t)
  <1>1. s.location = r.location
    BY MovedIs DEF Hauled
  <1> QED BY <1>1, HauledMoving DEF Reaching

LEMMA DeliverHauls ==
    ASSUME NEW r, RunnerShaped(r), Supplied(r), NEW i \in Items(r.dag), NEW x \in Node,
           NEW t \in Tasks(r.dag), NEW s, s = Deliver(r, i, x, t)
    PROVE  Hauled(s, r) /\ (i \in r.held[x] => Reaching(s, i, x, t))
  <1>1. DOMAIN r = RunnerFields /\ r.location[t] \in Node \cup {Nowhere}
    BY DEF RunnerShaped, Node
  <1>2. CASE r.location[t] \in {Nowhere, x}
    <2>1. s = r
      BY <1>2 DEF Deliver
    <2>2. Reaching(r, i, x, t)
      BY <1>2, NowhereApart DEF Reaching, Node
    <2> QED BY <2>1, <2>2, HauledSelf
  <1>3. CASE r.location[t] \notin {Nowhere, x}
    <2>1. s = AddDataTransferTask(r, i, x, r.location[t]) /\ r.location[t] \in Node
      BY <1>1, <1>3 DEF Deliver
    <2>2. Hauled(s, r) /\ (i \in r.held[x] => MovingTo(s, i, r.location[t]))
      BY <1>1, <2>1, AddHauls
    <2>3. s.location = r.location
      BY <1>1, <2>2, MovedIs DEF Hauled
    <2> QED BY <2>2, <2>3 DEF Reaching
  <1> QED BY <1>2, <1>3

LEMMA UploadHauls ==
    ASSUME NEW r, RunnerShaped(r), Supplied(r), NEW i, Made(r.dag, i), NEW x \in Node,
           NEW s, s = Upload(r, i, x)
    PROVE  Hauled(s, r) /\ (r.mode = "ViaMasterNode" => MovingTo(s, i, Runner))
  <1>1. DOMAIN r = RunnerFields /\ Runner \in Node
    BY DEF RunnerShaped, Node
  <1>2. CASE r.mode = "Direct" /\ r.dag.items[i].consumers # <<>>
    <2>1. s = r
      BY <1>2 DEF Upload
    <2> QED BY <1>2, <2>1, HauledSelf
  <1>3. CASE ~ (r.mode = "Direct" /\ r.dag.items[i].consumers # <<>>)
    <2>1. s = TransferData(r, i, x, Runner)
      BY <1>3 DEF Upload
    <2> QED BY <1>1, <2>1, TransferHauls
  <1> QED BY <1>2, <1>3

LEMMA FetchAllHauls ==
    ASSUME NEW r, RunnerShaped(r), Supplied(r), NEW x \in Node,
           NEW w \in Seq(Items(r.dag)), NEW s, s = FetchAll(r, x, w)
    PROVE  Hauled(s, r) /\ (Fetchable(r) => \A i \in Range(w) : Coming(s, i, x))
  <1>1. PICK f : /\ f[0] = r
                 /\ \A k \in 1..Len(w) : f[k] = FetchInput(f[k - 1], w[k], x)
                 /\ FetchAll(r, x, w) = f[Len(w)]
    <2>1. w \in Seq(Items(r.dag))
      OBVIOUS
    <2> QED BY ONLY <2>1, FetchAllFolds
  <1> DEFINE P(e, k) == Hauled(e, r) /\ (Fetchable(r) => \A j \in 1..k : Coming(e, w[j], x))
             F == {k \in 0..Len(w) : P(f[k], k)}
  <1>2. Len(w) \in Nat /\ 0 \in F
    <2>1. P(r, 0)
      BY HauledSelf
    <2>2. Len(w) \in Nat /\ 0 \in 0..Len(w)
      OBVIOUS
    <2> HIDE DEF P
    <2> QED BY <1>1, <2>1, <2>2
  <1>3. ASSUME NEW k \in 1..Len(w), k - 1 \in F PROVE k \in F
    <2>1. PICK e : e = f[k - 1] /\ P(e, k - 1)
      BY <1>3
    <2>2. PICK d : d = FetchInput(e, w[k], x)
      OBVIOUS
    <2>3. /\ RunnerShaped(e) /\ Supplied(e) /\ e.dag = r.dag /\ e.location = r.location
          /\ DOMAIN e = RunnerFields /\ DOMAIN r = RunnerFields
      BY <2>1, HauledShaped DEF RunnerShaped
    <2>4. Hauled(d, e) /\ (Fetchable(e) => Coming(d, w[k], x))
      <3>1. w[k] \in Items(e.dag)
        BY <2>3
      <3> QED BY <2>2, <2>3, <3>1, FetchHauls
    <2>5. Hauled(d, r)
      BY <2>1, <2>3, <2>4, HauledTwice
    <2>6. ASSUME Fetchable(r), NEW j \in 1..k PROVE Coming(d, w[j], x)
      <3>1. CASE j = k
        <4>1. Fetchable(e)
          BY <2>1, <2>3, <2>6, HauledFetchable
        <4> QED BY <2>3, <2>4, <2>6, <3>1, <4>1
      <3>2. CASE j # k
        <4>1. j \in 1..(k - 1)
          BY <3>2
        <4>2. Coming(e, w[j], x)
          BY <2>1, <2>6, <4>1
        <4> QED BY <2>3, <2>4, <4>2, HauledComing
      <3> QED BY <3>1, <3>2
    <2>7. P(d, k)
      BY <2>5, <2>6
    <2>8. f[k] = d /\ k \in 0..Len(w)
      BY <1>1, <2>1, <2>2
    <2> HIDE DEF P
    <2> QED BY <2>7, <2>8
  <1> HIDE DEF F
  <1>4. Len(w) \in F
    <2>1. \A k \in 0..Len(w) : k \in F
      BY <1>2, <1>3, PrefixInduction
    <2> QED BY <1>2, <2>1
  <1> QED BY <1>1, <1>4 DEF F, Range

LEMMA DeliverAllHauls ==
    ASSUME NEW r, RunnerShaped(r), Supplied(r), NEW i \in Items(r.dag), NEW x \in Node,
           NEW w \in Seq(Tasks(r.dag)), NEW s, s = DeliverAll(r, i, x, w)
    PROVE  Hauled(s, r) /\ (i \in r.held[x] => \A t \in Range(w) : Reaching(s, i, x, t))
  <1>1. PICK f : /\ f[0] = r
                 /\ \A k \in 1..Len(w) : f[k] = Deliver(f[k - 1], i, x, w[k])
                 /\ DeliverAll(r, i, x, w) = f[Len(w)]
    <2>1. w \in Seq(Tasks(r.dag))
      OBVIOUS
    <2> QED BY ONLY <2>1, DeliverAllFolds
  <1> DEFINE P(e, k) == Hauled(e, r) /\ (i \in r.held[x] => \A j \in 1..k : Reaching(e, i, x, w[j]))
             F == {k \in 0..Len(w) : P(f[k], k)}
  <1>2. Len(w) \in Nat /\ 0 \in F
    <2>1. P(r, 0)
      BY HauledSelf
    <2>2. Len(w) \in Nat /\ 0 \in 0..Len(w)
      OBVIOUS
    <2> HIDE DEF P
    <2> QED BY <1>1, <2>1, <2>2
  <1>3. ASSUME NEW k \in 1..Len(w), k - 1 \in F PROVE k \in F
    <2>1. PICK e : e = f[k - 1] /\ P(e, k - 1)
      BY <1>3
    <2>2. PICK d : d = Deliver(e, i, x, w[k])
      OBVIOUS
    <2>3. /\ RunnerShaped(e) /\ Supplied(e) /\ e.dag = r.dag /\ e.location = r.location
          /\ DOMAIN e = RunnerFields /\ DOMAIN r = RunnerFields
      BY <2>1, HauledShaped DEF RunnerShaped
    <2>4. Hauled(d, e) /\ (i \in e.held[x] => Reaching(d, i, x, w[k]))
      <3>1. w[k] \in Tasks(e.dag) /\ i \in Items(e.dag)
        BY <2>3
      <3> QED BY <2>2, <2>3, <3>1, DeliverHauls
    <2>5. Hauled(d, r)
      BY <2>1, <2>3, <2>4, HauledTwice
    <2>6. ASSUME i \in r.held[x], NEW j \in 1..k PROVE Reaching(d, i, x, w[j])
      <3>1. CASE j = k
        <4>1. i \in e.held[x]
          BY <2>1, <2>6 DEF Hauled, Onward
        <4> QED BY <2>3, <2>4, <2>6, <3>1, <4>1
      <3>2. CASE j # k
        <4>1. j \in 1..(k - 1)
          BY <3>2
        <4>2. Reaching(e, i, x, w[j])
          BY <2>1, <2>6, <4>1
        <4> QED BY <2>3, <2>4, <4>2, HauledReaching
      <3> QED BY <3>1, <3>2
    <2>7. P(d, k)
      BY <2>5, <2>6
    <2>8. f[k] = d /\ k \in 0..Len(w)
      BY <1>1, <2>1, <2>2
    <2> HIDE DEF P
    <2> QED BY <2>7, <2>8
  <1> HIDE DEF F
  <1>4. Len(w) \in F
    <2>1. \A k \in 0..Len(w) : k \in F
      BY <1>2, <1>3, PrefixInduction
    <2> QED BY <1>2, <2>1
  <1> QED BY <1>1, <1>4 DEF F, Range

\* i goes to all who wait for it.
ReachingAll(r, i, x) == \A t \in Range(r.dag.items[i].consumers) : Reaching(r, i, x, t)

LEMMA HauledReachingAll ==
    ASSUME NEW r, DOMAIN r = RunnerFields, NEW s, Hauled(s, r), NEW i, NEW x, ReachingAll(r, i, x)
    PROVE  ReachingAll(s, i, x)
  <1>1. s.dag = r.dag
    BY MovedIs DEF Hauled
  <1> QED BY <1>1, HauledReaching DEF ReachingAll

LEMMA ConsumersHauls ==
    ASSUME NEW r, RunnerShaped(r), Supplied(r), NEW i \in Items(r.dag), NEW x \in Node,
           NEW s, s = SendToConsumers(r, i, x)
    PROVE  Hauled(s, r) /\ (i \in r.held[x] => ReachingAll(s, i, x))
  <1>1. PICK w \in Seq(Tasks(r.dag)) : w = r.dag.items[i].consumers
    BY DEF RunnerShaped, GraphTyped, ItemTyped
  <1>2. s = DeliverAll(r, i, x, w)
    BY <1>1, ConsumersIs
  <1>3. Hauled(s, r) /\ (i \in r.held[x] => \A t \in Range(w) : Reaching(s, i, x, t))
    BY <1>2, DeliverAllHauls
  <1>4. s.dag = r.dag
    BY <1>3, HauledShaped
  <1> QED BY <1>1, <1>3, <1>4 DEF ReachingAll

LEMMA SendAllHauls ==
    ASSUME NEW r, RunnerShaped(r), Supplied(r), NEW x \in Node,
           NEW w \in Seq(Items(r.dag)), NEW s, s = SendAll(r, x, w)
    PROVE  Hauled(s, r) /\ ((\A i \in Range(w) : i \in r.held[x]) => \A i \in Range(w) : ReachingAll(s, i, x))
  <1>1. PICK f : /\ f[0] = r
                 /\ \A k \in 1..Len(w) : f[k] = SendToConsumers(f[k - 1], w[k], x)
                 /\ SendAll(r, x, w) = f[Len(w)]
    <2>1. w \in Seq(Items(r.dag))
      OBVIOUS
    <2> QED BY ONLY <2>1, SendAllFolds
  <1> DEFINE P(e, k) == Hauled(e, r) /\ ((\A i \in Range(w) : i \in r.held[x]) => \A j \in 1..k : ReachingAll(e, w[j], x))
             F == {k \in 0..Len(w) : P(f[k], k)}
  <1>2. Len(w) \in Nat /\ 0 \in F
    <2>1. P(r, 0)
      BY HauledSelf
    <2>2. Len(w) \in Nat /\ 0 \in 0..Len(w)
      OBVIOUS
    <2> HIDE DEF P
    <2> QED BY <1>1, <2>1, <2>2
  <1>3. ASSUME NEW k \in 1..Len(w), k - 1 \in F PROVE k \in F
    <2>1. PICK e : e = f[k - 1] /\ P(e, k - 1)
      BY <1>3
    <2>2. PICK d : d = SendToConsumers(e, w[k], x)
      OBVIOUS
    <2>3. /\ RunnerShaped(e) /\ Supplied(e) /\ e.dag = r.dag /\ e.location = r.location
          /\ DOMAIN e = RunnerFields /\ DOMAIN r = RunnerFields
      BY <2>1, HauledShaped DEF RunnerShaped
    <2>4. Hauled(d, e) /\ (w[k] \in e.held[x] => ReachingAll(d, w[k], x))
      <3>1. w[k] \in Items(e.dag)
        BY <2>3
      <3> QED BY <2>2, <2>3, <3>1, ConsumersHauls
    <2>5. Hauled(d, r)
      BY <2>1, <2>3, <2>4, HauledTwice
    <2>6. ASSUME (\A i \in Range(w) : i \in r.held[x]), NEW j \in 1..k PROVE ReachingAll(d, w[j], x)
      <3>1. CASE j = k
        <4>1. w[k] \in e.held[x]
          <5>1. w[k] \in Range(w)
            BY DEF Range
          <5> QED BY <2>1, <2>6, <5>1 DEF Hauled, Onward
        <4> QED BY <2>3, <2>4, <2>6, <3>1, <4>1
      <3>2. CASE j # k
        <4>1. j \in 1..(k - 1)
          BY <3>2
        <4>2. ReachingAll(e, w[j], x)
          BY <2>1, <2>6, <4>1
        <4> QED BY <2>3, <2>4, <4>2, HauledReachingAll
      <3> QED BY <3>1, <3>2
    <2>7. P(d, k)
      BY <2>5, <2>6
    <2>8. f[k] = d /\ k \in 0..Len(w)
      BY <1>1, <2>1, <2>2
    <2> HIDE DEF P
    <2> QED BY <2>7, <2>8
  <1> HIDE DEF F
  <1>4. Len(w) \in F
    <2>1. \A k \in 0..Len(w) : k \in F
      BY <1>2, <1>3, PrefixInduction
    <2> QED BY <1>2, <2>1
  <1> QED BY <1>1, <1>4 DEF F, Range

LEMMA UploadAllHauls ==
    ASSUME NEW r, RunnerShaped(r), Supplied(r), NEW x \in Node,
           NEW w \in Seq(Items(r.dag)), (\A i \in Range(w) : Made(r.dag, i)), NEW s, s = UploadAll(r, x, w)
    PROVE  Hauled(s, r) /\ (r.mode = "ViaMasterNode" => \A i \in Range(w) : MovingTo(s, i, Runner))
  <1>1. PICK f : /\ f[0] = r
                 /\ \A k \in 1..Len(w) : f[k] = Upload(f[k - 1], w[k], x)
                 /\ UploadAll(r, x, w) = f[Len(w)]
    <2>1. w \in Seq(Items(r.dag))
      OBVIOUS
    <2> QED BY ONLY <2>1, UploadAllFolds
  <1> DEFINE P(e, k) == Hauled(e, r) /\ (r.mode = "ViaMasterNode" => \A j \in 1..k : MovingTo(e, w[j], Runner))
             F == {k \in 0..Len(w) : P(f[k], k)}
  <1>2. Len(w) \in Nat /\ 0 \in F
    <2>1. P(r, 0)
      BY HauledSelf
    <2>2. Len(w) \in Nat /\ 0 \in 0..Len(w)
      OBVIOUS
    <2> HIDE DEF P
    <2> QED BY <1>1, <2>1, <2>2
  <1>3. ASSUME NEW k \in 1..Len(w), k - 1 \in F PROVE k \in F
    <2>1. PICK e : e = f[k - 1] /\ P(e, k - 1)
      BY <1>3
    <2>2. PICK d : d = Upload(e, w[k], x)
      OBVIOUS
    <2>3. /\ RunnerShaped(e) /\ Supplied(e) /\ e.dag = r.dag /\ e.location = r.location
          /\ DOMAIN e = RunnerFields /\ DOMAIN r = RunnerFields
      BY <2>1, HauledShaped DEF RunnerShaped
    <2>4. Hauled(d, e) /\ (e.mode = "ViaMasterNode" => MovingTo(d, w[k], Runner))
      <3>1. Made(e.dag, w[k])
        BY <2>3 DEF Range
      <3> QED BY <2>2, <2>3, <3>1, UploadHauls
    <2>5. Hauled(d, r)
      BY <2>1, <2>3, <2>4, HauledTwice
    <2>6. ASSUME r.mode = "ViaMasterNode", NEW j \in 1..k PROVE MovingTo(d, w[j], Runner)
      <3>1. CASE j = k
        <4>1. e.mode = "ViaMasterNode"
          BY <2>1, <2>3, <2>6, MovedIs DEF Hauled
        <4> QED BY <2>3, <2>4, <2>6, <3>1, <4>1
      <3>2. CASE j # k
        <4>1. j \in 1..(k - 1)
          BY <3>2
        <4>2. MovingTo(e, w[j], Runner)
          BY <2>1, <2>6, <4>1
        <4> QED BY <2>3, <2>4, <4>2, HauledMoving
      <3> QED BY <3>1, <3>2
    <2>7. P(d, k)
      BY <2>5, <2>6
    <2>8. f[k] = d /\ k \in 0..Len(w)
      BY <1>1, <2>1, <2>2
    <2> HIDE DEF P
    <2> QED BY <2>7, <2>8
  <1> HIDE DEF F
  <1>4. Len(w) \in F
    <2>1. \A k \in 0..Len(w) : k \in F
      BY <1>2, <1>3, PrefixInduction
    <2> QED BY <1>2, <2>1
  <1> QED BY <1>1, <1>4 DEF F, Range

LEMMA ArriveAllHauls ==
    ASSUME NEW r, RunnerShaped(r), Supplied(r), NEW x \in Node,
           NEW w \in Seq(Items(r.dag)), (\A i \in Range(w) : Made(r.dag, i)), NEW s, s = ArriveAll(r, x, w)
    PROVE  Hauled(s, r) /\ \A i \in Range(w) : i \in s.held[x]
  <1>1. PICK f : /\ f[0] = r
                 /\ \A k \in 1..Len(w) : f[k] = Arrive(f[k - 1], w[k], x)
                 /\ ArriveAll(r, x, w) = f[Len(w)]
    <2>1. w \in Seq(Items(r.dag))
      OBVIOUS
    <2> QED BY ONLY <2>1, ArriveAllFolds
  <1> DEFINE P(e, k) == Hauled(e, r) /\ \A j \in 1..k : w[j] \in e.held[x]
             F == {k \in 0..Len(w) : P(f[k], k)}
  <1>2. Len(w) \in Nat /\ 0 \in F
    <2>1. P(r, 0)
      BY HauledSelf
    <2>2. Len(w) \in Nat /\ 0 \in 0..Len(w)
      OBVIOUS
    <2> HIDE DEF P
    <2> QED BY <1>1, <2>1, <2>2
  <1>3. ASSUME NEW k \in 1..Len(w), k - 1 \in F PROVE k \in F
    <2>1. PICK e : e = f[k - 1] /\ P(e, k - 1)
      BY <1>3
    <2>2. PICK d : d = Arrive(e, w[k], x)
      OBVIOUS
    <2>3. /\ RunnerShaped(e) /\ Supplied(e) /\ e.dag = r.dag /\ e.location = r.location
          /\ DOMAIN e = RunnerFields /\ DOMAIN r = RunnerFields
      BY <2>1, HauledShaped DEF RunnerShaped
    <2>4. Hauled(d, e) /\ w[k] \in d.held[x]
      <3>1. Made(e.dag, w[k]) /\ DOMAIN e = RunnerFields
        BY <2>3 DEF Range, RunnerShaped
      <3> QED BY <2>2, <2>3, <3>1, ArriveHauls
    <2>5. Hauled(d, r)
      BY <2>1, <2>3, <2>4, HauledTwice
    <2>6. ASSUME NEW j \in 1..k PROVE w[j] \in d.held[x]
      <3>1. CASE j = k
        BY <2>4, <3>1
      <3>2. CASE j # k
        <4>1. j \in 1..(k - 1)
          BY <3>2
        <4>2. w[j] \in e.held[x]
          BY <2>1, <4>1
        <4> QED BY <2>3, <2>4, <4>2 DEF Hauled, Onward
      <3> QED BY <3>1, <3>2
    <2>7. P(d, k)
      BY <2>5, <2>6
    <2>8. f[k] = d /\ k \in 0..Len(w)
      BY <1>1, <2>1, <2>2
    <2> HIDE DEF P
    <2> QED BY <2>7, <2>8
  <1> HIDE DEF F
  <1>4. Len(w) \in F
    <2>1. \A k \in 0..Len(w) : k \in F
      BY <1>2, <1>3, PrefixInduction
    <2> QED BY <1>2, <2>1
  <1> QED BY <1>1, <1>4 DEF F, Range

-----------------------------------------------------------------------------
(* A task is scheduled.                                                    *)

Located(s, r, t, x, state) ==
    /\ DOMAIN s = RunnerFields /\ s.dag = UpdateTaskState(r.dag, t, state)
    /\ s.location = [r.location EXCEPT ![t] = x]
    /\ s.mode = r.mode /\ s.started = r.started /\ s.actions = r.actions
    /\ s.nextAction = r.nextAction /\ s.held = r.held /\ s.wanted = r.wanted /\ s.at = r.at
    /\ s.moving = r.moving /\ s.finished = r.finished /\ s.queue = r.queue /\ s.free = r.free
    /\ s.cores = r.cores /\ s.memory = r.memory /\ s.taskCores = r.taskCores
    /\ s.requests = r.requests /\ s.computing = r.computing

\* Nothing waits for a task that is Ready or Pending, or belongs to it.
LEMMA Idle ==
    ASSUME NEW r, NEW c, NEW A, NEW n, RunnerRight(r, c, A, n), NEW t \in Tasks(r.dag),
           State(r.dag, t) \in {"Ready", "Pending"}
    PROVE  /\ \A x \in Resource : \A e \in Entries(r, x) : e.task # t
           /\ \A x \in Resource : t \notin RunningAt(r, x)
           /\ t \notin A /\ (\A q \in ToSet(r.requests) : q.task # t)
           /\ \A x \in Resource : \A q \in c[x].running : q.task # t
  <1>1. QueuesRight(r, n) /\ PlacesRight(r, c, A)
    BY DEF RunnerRight
  <1>2. \A x \in Resource : \A e \in Entries(r, x) : e.task # t
    BY <1>1 DEF QueuesRight, Queued
  <1>3. \A x \in Resource : t \notin RunningAt(r, x)
    BY DEF RunningAt
  <1>4. State(r.dag, t) # "Running"
    OBVIOUS
  <1> QED BY <1>1, <1>2, <1>3, <1>4, PlacesRun

Unscheduled(g, t) == State(g, t) \in {"Ready", "Pending"}

LEMMA LocatedRight ==
    ASSUME NEW r, NEW c, NEW A, NEW n, RunnerRight(r, c, A, n), NEW t \in Tasks(r.dag),
           Unscheduled(r.dag, t), NEW x \in Resource, NEW state, Waits(state),
           NEW s, Located(s, r, t, x, state)
    PROVE  /\ RunnerRight(s, c, A, n) /\ Restated(s.dag, r.dag)
           /\ Queued(State(s.dag, t)) /\ s.location[t] = x
           /\ \A y \in Resource : \A e \in Entries(s, y) : e.task # t
  <1>1. /\ RunnerShaped(r) /\ Supplied(r) /\ QueuesRight(r, n)
        /\ CoresRight(r) /\ MemoryRight(r) /\ PlacesRight(r, c, A) /\ CompsRight(r, c, A)
    BY DEF RunnerRight
  <1>2. /\ \A y \in Resource : \A e \in Entries(r, y) : e.task # t
        /\ \A y \in Resource : t \notin RunningAt(r, y)
        /\ t \notin A /\ (\A q \in ToSet(r.requests) : q.task # t)
        /\ \A y \in Resource : \A q \in c[y].running : q.task # t
    BY Idle DEF Unscheduled
  <1>3. /\ Restated(s.dag, r.dag) /\ State(s.dag, t) = state
        /\ \A u \in Tasks(r.dag) : u # t => State(s.dag, u) = State(r.dag, u)
        /\ \A i \in Items(r.dag) : ItemState(s.dag, i) = ItemState(r.dag, i)
    <2>1. state # "Done" /\ state # "Ready" /\ s.dag = UpdateTaskState(r.dag, t, state)
      BY DEF Located, Waits
    <2> QED BY <1>1, <2>1, StateIs DEF RunnerShaped
  <1>4. GraphTyped(s.dag) /\ GraphLive(s.dag)
    <2>1. GraphTyped(r.dag) /\ GraphLive(r.dag) /\ ~ Engaged(State(r.dag, t))
          /\ State(s.dag, t) # "Done" /\ ~ Engaged(State(s.dag, t))
      BY <1>1, <1>3 DEF RunnerShaped, Engaged, Unscheduled, Waits
    <2>2. GraphLive(s.dag)
      BY <1>3, <2>1, LiveRestated
    <2> QED BY <1>3, <2>1, <2>2, RestatedTyped
  <1>5. /\ Tasks(s.dag) = Tasks(r.dag) /\ Items(s.dag) = Items(r.dag)
        /\ \A u \in Tasks(r.dag) : s.dag.tasks[u].memory = r.dag.tasks[u].memory
    BY <1>3 DEF Restated
  <1>6. s.location = [r.location EXCEPT ![t] = x] /\ s.location \in [Tasks(r.dag) -> Resource \cup {Nowhere}]
        /\ s.location[t] = x /\ \A u \in Tasks(r.dag) : u # t => s.location[u] = r.location[u]
    BY <1>1 DEF Located, RunnerShaped
  <1>7. /\ DOMAIN s = RunnerFields /\ s.queue = r.queue /\ s.free = r.free
        /\ s.cores = r.cores /\ s.memory = r.memory /\ s.taskCores = r.taskCores
        /\ s.requests = r.requests /\ s.held = r.held /\ s.wanted = r.wanted
        /\ s.moving = r.moving /\ s.at = r.at
    BY DEF Located
  <1>8. RunnerShaped(s)
    BY <1>1, <1>4, <1>5, <1>6, <1>7 DEF RunnerShaped
  <1>9. Supplied(s)
    <2>1. \A m \in Node : r.held[m] \subseteq Items(r.dag)
      BY <1>1 DEF Supplied
    <2> QED BY <1>1, <1>3, <1>5, <1>7, <2>1 DEF Supplied
  <1>10. \A y \in Resource : \A e \in Entries(s, y) : e \in Entries(r, y) /\ e.task \in Tasks(r.dag) /\ e.task # t
    <2> TAKE y \in Resource
    <2> TAKE e \in Entries(s, y)
    <2>1. e \in Entries(r, y)
      BY <1>7 DEF Entries
    <2>2. e \in EntryType(r.dag)
      <3>1. PICK k \in 1..Cores[y] : e \in Range(r.queue[y][k])
        BY <2>1 DEF Entries
      <3>2. r.queue[y][k] \in Seq(EntryType(r.dag))
        BY <1>1 DEF QueuesRight
      <3> QED BY <3>1, <3>2 DEF Range
    <2> QED BY <1>2, <2>1, <2>2 DEF EntryType
  <1>11. QueuesRight(s, n)
    <2>1. EntryType(s.dag) = EntryType(r.dag)
      BY <1>5 DEF EntryType
    <2>2. \A y \in Resource : \A e \in Entries(s, y) :
            s.location[e.task] = y /\ Queued(State(s.dag, e.task)) /\ e.id < n
      BY <1>1, <1>3, <1>6, <1>10 DEF QueuesRight
    <2> QED BY <1>1, <1>7, <1>10, <2>1, <2>2 DEF QueuesRight
  <1>12. \A y \in Resource : RunningAt(s, y) = RunningAt(r, y)
    <2>1. State(s.dag, t) # "Running" /\ State(r.dag, t) # "Running"
      BY <1>3 DEF Waits, Unscheduled
    <2> QED BY <1>3, <1>5, <1>6, <2>1 DEF RunningAt
  <1>13. \A y \in Resource : AskedAt(s, y) = AskedAt(r, y) /\ AnsweredAt(s, A, y) = AnsweredAt(r, A, y)
    BY <1>1, <1>2, <1>6, <1>7 DEF AskedAt, AnsweredAt, PlacesRight
  <1>14. CoresRight(s)
    BY <1>1, <1>7, <1>12 DEF CoresRight
  <1>15. MemoryOf(s.dag) = MemoryOf(r.dag) /\ CoresOf(s) = CoresOf(r)
         /\ CoresIn(s.dag) = CoresIn(r.dag) /\ MemoryIn(s.dag) = MemoryIn(r.dag)
         /\ RequestType(s.dag) = RequestType(r.dag)
    BY <1>5, <1>7 DEF MemoryOf, CoresOf, CoresIn, MemoryIn, RequestType
  <1>16. MemoryRight(s)
    BY <1>1, <1>7, <1>12, <1>15 DEF MemoryRight
  <1>17. CompsRight(s, c, A)
    BY <1>1, <1>7, <1>13, <1>15 DEF CompsRight
  <1>18. PlacesRight(s, c, A)
    <2>1. ASSUME NEW q, RequestRight(r, q), q.task # t PROVE RequestRight(s, q)
      <3>1. q.task \in Tasks(r.dag)
        BY <2>1 DEF RequestRight, RequestType
      <3> QED BY <1>3, <1>5, <1>6, <1>7, <1>15, <2>1, <3>1 DEF RequestRight
    <2>2. \A q \in ToSet(s.requests) : RequestRight(s, q)
      BY <1>1, <1>2, <1>7, <2>1 DEF PlacesRight
    <2>3. \A y \in Resource : \A q \in c[y].running : RequestRight(s, q) /\ q.resource = y
      BY <1>1, <1>2, <2>1 DEF PlacesRight
    <2>4. A \subseteq Tasks(s.dag) /\ \A u \in A : State(s.dag, u) = "Running" /\ s.location[u] \in Resource
      BY <1>1, <1>2, <1>3, <1>5, <1>6 DEF PlacesRight
    <2> QED BY <1>1, <1>7, <1>15, <2>2, <2>3, <2>4 DEF PlacesRight
  <1>19. Queued(State(s.dag, t))
    BY <1>3 DEF Queued, Waits
  <1> QED BY <1>3, <1>6, <1>8, <1>9, <1>10, <1>11, <1>14, <1>16, <1>17, <1>18, <1>19 DEF RunnerRight

Enqueued(r, x, entry, allowed) ==
    [r EXCEPT !.queue[x] = [k \in DOMAIN @ |->
        IF k \in allowed THEN Append(@[k], entry) ELSE @[k]]]

\* An entry of a task that waits for x and has none.
LEMMA EntryAdded ==
    ASSUME NEW r, NEW c, NEW A, NEW n \in Nat, RunnerRight(r, c, A, n), NEW x \in Resource,
           NEW entry \in EntryType(r.dag), entry.id = n, r.location[entry.task] = x,
           Queued(State(r.dag, entry.task)),
           \A y \in Resource : \A e \in Entries(r, y) : e.task # entry.task,
           NEW allowed, NEW s, s = Enqueued(r, x, entry, allowed)
    PROVE  /\ RunnerRight(s, c, A, n + 1) /\ s.dag = r.dag /\ s.actions = r.actions
           /\ s.nextAction = r.nextAction
  <1> DEFINE E == EntryType(r.dag)
  <1>1. /\ RunnerShaped(r) /\ Supplied(r) /\ QueuesRight(r, n)
        /\ CoresRight(r) /\ MemoryRight(r) /\ PlacesRight(r, c, A) /\ CompsRight(r, c, A)
    BY DEF RunnerRight
  <1>2. /\ DOMAIN r = RunnerFields /\ DOMAIN r.queue = Resource
        /\ \A y \in Resource : r.queue[y] \in [1..Cores[y] -> Seq(E)]
    BY <1>1 DEF RunnerShaped, QueuesRight
  <1>3. PICK w : w = [k \in 1..Cores[x] |-> IF k \in allowed THEN Append(r.queue[x][k], entry)
                                            ELSE r.queue[x][k]]
    OBVIOUS
  <1>4. PICK v : v = [r.queue EXCEPT ![x] = w]
    OBVIOUS
  <1>5. s = [r EXCEPT !.queue = v]
    <2>1. DOMAIN r.queue[x] = 1..Cores[x]
      BY <1>2
    <2>2. w = [k \in DOMAIN r.queue[x] |-> IF k \in allowed THEN Append(r.queue[x][k], entry)
                                           ELSE r.queue[x][k]]
      BY <1>3, <2>1
    <2> QED BY <1>4, <2>2 DEF Enqueued
  <1>6. /\ DOMAIN s = RunnerFields /\ s.queue = v /\ s.dag = r.dag /\ s.free = r.free
        /\ s.cores = r.cores /\ s.memory = r.memory /\ s.location = r.location
        /\ s.taskCores = r.taskCores /\ s.requests = r.requests /\ s.held = r.held
        /\ s.wanted = r.wanted /\ s.moving = r.moving /\ s.at = r.at
        /\ s.actions = r.actions /\ s.nextAction = r.nextAction
    BY <1>2, <1>5 DEF RunnerFields
  <1>7. /\ DOMAIN s.queue = Resource /\ s.queue[x] = w
        /\ \A y \in Resource : y # x => s.queue[y] = r.queue[y]
    BY <1>2, <1>4, <1>6
  <1>8. ASSUME NEW k \in 1..Cores[x]
        PROVE  w[k] \in Seq(E) /\ \A e \in Range(w[k]) : e \in Range(r.queue[x][k]) \/ e = entry
    <2>1. PICK u \in Seq(E) : u = r.queue[x][k]
      BY <1>2
    <2>2. Append(u, entry) \in Seq(E) /\ Range(Append(u, entry)) = Range(u) \cup {entry}
      <3>1. entry \in E
        OBVIOUS
      <3> HIDE DEF E
      <3> QED BY <3>1, AppendRange
    <2>3. w[k] = u \/ w[k] = Append(u, entry)
      BY <1>3, <2>1
    <2> QED BY <2>1, <2>2, <2>3
  <1>9. \A y \in Resource : s.queue[y] \in [1..Cores[y] -> Seq(E)]
    <2>1. w \in [1..Cores[x] -> Seq(E)]
      BY <1>3, <1>8
    <2> QED BY <1>2, <1>7, <2>1
  <1>10. \A y \in Resource : \A e \in Entries(s, y) : e \in Entries(r, y) \/ (y = x /\ e = entry)
    <2> TAKE y \in Resource
    <2> TAKE e \in Entries(s, y)
    <2>1. PICK k \in 1..Cores[y] : e \in Range(s.queue[y][k])
      BY DEF Entries
    <2>2. CASE y = x
      <3>1. e \in Range(r.queue[x][k]) \/ e = entry
        BY <1>7, <1>8, <2>1, <2>2
      <3> QED BY <2>1, <2>2, <3>1 DEF Entries
    <2>3. CASE y # x
      <3>1. e \in Range(r.queue[y][k])
        BY <1>7, <2>1, <2>3
      <3> QED BY <2>1, <3>1 DEF Entries
    <2> QED BY <2>2, <2>3
  <1>11. ASSUME NEW y \in Resource, NEW e \in Entries(s, y)
         PROVE  s.location[e.task] = y /\ Queued(State(s.dag, e.task)) /\ e.id < n + 1
    <2>1. CASE e \in Entries(r, y)
      <3>1. r.location[e.task] = y /\ Queued(State(r.dag, e.task)) /\ e.id < n
        BY <1>1, <2>1 DEF QueuesRight
      <3>2. e.id \in Nat
        <4>1. PICK k \in 1..Cores[y] : e \in Range(r.queue[y][k])
          BY <2>1 DEF Entries
        <4>2. r.queue[y][k] \in Seq(E)
          BY <1>2
        <4>3. e \in E
          BY <4>1, <4>2 DEF Range
        <4> QED BY <4>3 DEF EntryType
      <3> QED BY <1>6, <3>1, <3>2
    <2>2. CASE y = x /\ e = entry
      BY <1>6, <2>2
    <2> QED BY <1>10, <2>1, <2>2
  <1>12. \A y \in Resource : \A e, f \in Entries(s, y) : e.task = f.task \/ e.id = f.id => e = f
    <2>1. \A y \in Resource : \A e \in Entries(r, y) : e.id < n /\ e.task # entry.task
      BY <1>1 DEF QueuesRight
    <2>2. \A y \in Resource : \A e, f \in Entries(r, y) : e.task = f.task \/ e.id = f.id => e = f
      BY <1>1 DEF QueuesRight
    <2> QED BY <1>10, <2>1, <2>2
  <1>13. QueuesRight(s, n + 1)
    BY <1>6, <1>7, <1>9, <1>11, <1>12 DEF QueuesRight
  <1>14. RunnerShaped(s)
    BY <1>1, <1>6 DEF RunnerShaped
  <1>15. Supplied(s)
    BY <1>1, <1>6 DEF Supplied
  <1>16. \A y \in Resource :
                /\ RunningAt(s, y) = RunningAt(r, y)
                /\ AskedAt(s, y) = AskedAt(r, y) /\ AnsweredAt(s, A, y) = AnsweredAt(r, A, y)
    BY <1>6 DEF RunningAt, AskedAt, AnsweredAt
  <1>17. CoresRight(s)
    <2>1. CoresRight(r) /\ s.free = r.free /\ s.taskCores = r.taskCores /\ s.cores = r.cores
      BY <1>1, <1>6
    <2>2. \A y \in Resource : RunningAt(s, y) = RunningAt(r, y)
      BY <1>16
    <2> QED BY ONLY <2>1, <2>2 DEF CoresRight
  <1>18. MemoryRight(s)
    BY <1>1, <1>6, <1>16 DEF MemoryRight
  <1>19. PlacesRight(s, c, A)
    BY <1>1, <1>6 DEF PlacesRight, RequestRight
  <1>20. CoresOf(s) = CoresOf(r)
    BY <1>6 DEF CoresOf
  <1>21. CompsRight(s, c, A)
    <2>1. CompsRight(r, c, A) /\ s.dag = r.dag /\ s.cores = r.cores /\ s.memory = r.memory
      BY <1>1, <1>6
    <2>2. \A y \in Resource : AskedAt(s, y) = AskedAt(r, y) /\ AnsweredAt(s, A, y) = AnsweredAt(r, A, y)
      BY <1>16
    <2> QED BY ONLY <1>20, <2>1, <2>2 DEF CompsRight
  <1> QED BY <1>6, <1>13, <1>14, <1>15, <1>17, <1>18, <1>19, <1>21 DEF RunnerRight

LEMMA IdsGrow ==
    ASSUME NEW r, NEW c, NEW A, NEW n \in Nat, RunnerRight(r, c, A, n)
    PROVE  RunnerRight(r, c, A, n + 1)
  <1>1. QueuesRight(r, n)
    BY DEF RunnerRight
  <1>2. ASSUME NEW x \in Resource, NEW e \in Entries(r, x) PROVE e.id < n + 1
    <2>1. PICK k \in 1..Cores[x] : e \in Range(r.queue[x][k])
      BY DEF Entries
    <2>2. r.queue[x][k] \in Seq(EntryType(r.dag))
      BY <1>1 DEF QueuesRight
    <2>3. e \in EntryType(r.dag)
      BY <2>1, <2>2 DEF Range
    <2>4. e.id < n /\ e.id \in Nat
      BY <1>1, <2>3 DEF QueuesRight, EntryType
    <2> QED BY <2>4
  <1>3. QueuesRight(r, n + 1)
    BY <1>1, <1>2 DEF QueuesRight
  <1> QED BY <1>3 DEF RunnerRight

\* What a task needs that now waits at x has been sent for.
LEMMA LocatedFlow ==
    ASSUME NEW r, RunnerShaped(r), FlowRight(r), NEW t \in Tasks(r.dag), Unscheduled(r.dag, t),
           NEW x \in Resource, NEW state,
           state = IF State(r.dag, t) = "Ready" THEN "Runnable" ELSE "Scheduled",
           NEW l, Located(l, r, t, x, state), RunnerShaped(l), Supplied(l),
           NEW w \in Seq(Items(r.dag)), w = r.dag.tasks[t].inputs,
           NEW s, s = FetchAll(l, x, w)
    PROVE  FlowRight(s)
  <1>1. PICK g : g = r.dag /\ GraphTyped(g) /\ GraphFlow(g)
    BY DEF RunnerShaped, FlowRight
  <1>2. state # "Done" /\ state # "Ready"
    OBVIOUS
  <1>3. l.dag = UpdateTaskState(g, t, state) /\ l.location = [r.location EXCEPT ![t] = x]
    BY <1>1 DEF Located
  <1>4. /\ Restated(l.dag, g) /\ State(l.dag, t) = state
        /\ \A u \in Tasks(g) : u # t => State(l.dag, u) = State(g, u)
        /\ \A i \in Items(g) : ItemState(l.dag, i) = ItemState(g, i)
    <2>1. t \in Tasks(g) /\ GraphTyped(g)
      BY <1>1
    <2> QED BY <1>2, <1>3, <2>1, StateIs
  <1>5. GraphFlow(l.dag)
    <2>1. (Has(State(g, t)) <=> Has(state)) /\ (Lacks(State(g, t)) <=> Lacks(state))
      BY <1>1 DEF Unscheduled, Has, Lacks
    <2>2. t \in Tasks(g) /\ GraphTyped(g) /\ GraphFlow(g)
      BY <1>1
    <2> QED BY <1>2, <1>3, <2>1, <2>2, StateFlow
  <1>6. Unmoved(l, r) /\ l.mode = r.mode
    BY <1>1, <1>4 DEF Located, Unmoved
  <1>7. /\ Tasks(l.dag) = Tasks(g) /\ Items(l.dag) = Items(g)
        /\ \A u \in Tasks(g) : l.dag.tasks[u].inputs = g.tasks[u].inputs
    BY <1>4 DEF Restated
  <1>8. l.location[t] = x /\ \A u \in Tasks(g) : u # t => l.location[u] = r.location[u]
    BY <1>1, <1>3 DEF RunnerShaped
  <1>9. \A u \in Tasks(l.dag) : Waits(State(l.dag, u)) => l.location[u] \in Resource
    BY <1>1, <1>4, <1>7, <1>8 DEF FlowRight
  <1>10. Hauled(s, l) /\ (Fetchable(l) => \A i \in Range(w) : Coming(s, i, x))
    <2>1. x \in Node /\ w \in Seq(Items(l.dag))
      BY <1>1, <1>7 DEF Node
    <2> QED BY <2>1, FetchAllHauls
  <1>11. DOMAIN l = RunnerFields /\ s.dag = l.dag /\ s.location = l.location /\ s.mode = l.mode
    BY <1>10, MovedIs DEF Hauled, RunnerShaped
  <1>12. ASSUME s.mode \in {"ViaMasterNode", "Direct"}
         PROVE  Stored(s) /\ \A u \in Tasks(s.dag) : Waits(State(s.dag, u)) => Fed(s, u)
    <2>1. Stored(r) /\ \A u \in Tasks(g) : Waits(State(g, u)) => Fed(r, u)
      BY <1>1, <1>6, <1>11, <1>12 DEF FlowRight
    <2>2. Stored(l) /\ Fetchable(l)
      BY <1>6, <1>11, <1>12, <2>1, UnmovedFlow DEF Fetchable
    <2>3. Stored(s)
      BY <1>10, <1>11, <2>2, HauledStored
    <2>4. ASSUME NEW u \in Tasks(g), Waits(State(l.dag, u)) PROVE Fed(s, u)
      <3>1. CASE u = t
        <4>1. s.dag.tasks[t].inputs = w /\ s.location[t] = x
          BY <1>1, <1>7, <1>8, <1>11
        <4> QED BY <1>10, <2>2, <3>1, <4>1 DEF Fed
      <3>2. CASE u # t
        <4>1. Fed(r, u) /\ l.location[u] = r.location[u]
          BY <1>4, <1>8, <2>1, <2>4, <3>2
        <4>2. Fed(l, u)
          BY <1>1, <1>6, <4>1, UnmovedFlow
        <4>3. l.location[u] \in Resource /\ u \in Tasks(l.dag)
          BY <1>7, <1>9, <2>4
        <4> QED BY <1>10, <4>2, <4>3, HauledFed
      <3> QED BY <3>1, <3>2
    <2> QED BY <1>7, <1>11, <2>3, <2>4
  <1> QED BY <1>5, <1>9, <1>11, <1>12 DEF FlowRight

\* s is r after some actions; the graph is the same in other states.
Acted(s, r) ==
    /\ Restated(s.dag, r.dag) /\ s.actions = r.actions
    /\ FlowRight(r) => FlowRight(s)

LEMMA ScheduleRight ==
    ASSUME NEW r, NEW c, NEW A, NEW n \in Nat, RunnerRight(r, c, A, n), r.nextAction = n,
           NEW t \in Tasks(r.dag), NEW x \in Resource, NEW need \in Nat, NEW allowed,
           NEW s, s = ProcessScheduleAction(r, t, x, need, allowed)
    PROVE  RunnerRight(s, c, A, n + 1) /\ Acted(s, r) /\ s.nextAction = n
  <1>1. RunnerShaped(r)
    BY DEF RunnerRight
  <1>2. CASE WrongAction(r, t, x, need)
    <2>1. s = r
      BY <1>2 DEF ProcessScheduleAction
    <2> QED BY <1>1, <2>1, IdsGrow, RestatedSelf DEF Acted, RunnerShaped
  <1>3. CASE ~ WrongAction(r, t, x, need)
    <2>1. Unscheduled(r.dag, t)
      BY <1>3 DEF WrongAction, State, Unscheduled
    <2>2. PICK state \in {"Runnable", "Scheduled"} :
            state = IF r.dag.tasks[t].state = "Ready" THEN "Runnable" ELSE "Scheduled"
      OBVIOUS
    <2>3. PICK d : d = UpdateTaskState(r.dag, t, state)
      OBVIOUS
    <2>4. PICK l : l = [r.location EXCEPT ![t] = x]
      OBVIOUS
    <2>5. PICK located : located = [r EXCEPT !.dag = d, !.location = l]
      OBVIOUS
    <2>6. Located(located, r, t, x, state)
      BY <1>1, <2>3, <2>4, <2>5 DEF Located, RunnerShaped, RunnerFields
    <2>7. /\ RunnerRight(located, c, A, n) /\ Restated(located.dag, r.dag)
          /\ Queued(State(located.dag, t)) /\ located.location[t] = x
          /\ \A y \in Resource : \A e \in Entries(located, y) : e.task # t
      <3>1. Waits(state) /\ RunnerRight(r, c, A, n)
            /\ t \in Tasks(r.dag) /\ x \in Resource
        BY DEF Waits
      <3>2. /\ RunnerRight(located, c, A, n) /\ Restated(located.dag, r.dag)
            /\ Queued(State(located.dag, t)) /\ located.location[t] = x
            /\ \A y \in Resource : \A e \in Entries(located, y) : e.task # t
        BY ONLY <2>1, <2>6, <3>1, LocatedRight
      <3> QED BY <3>2
    <2>8. RunnerShaped(located) /\ Supplied(located) /\ t \in Tasks(located.dag) /\ Items(located.dag) = Items(r.dag)
      BY <2>7 DEF RunnerRight, Restated
    <2>9. PICK w \in Seq(Items(r.dag)) : w = r.dag.tasks[t].inputs
      BY <1>1 DEF RunnerShaped, GraphTyped, TaskTyped
    <2>10. PICK fetched : fetched = FetchAll(located, x, w)
      OBVIOUS
    <2>11. Hauled(fetched, located)
      <3>1. x \in Node /\ w \in Seq(Items(located.dag))
        BY <2>8 DEF Node
      <3> QED BY <2>8, <2>10, <3>1, FetchAllHauls
    <2>12. RunnerRight(fetched, c, A, n)
      BY <2>7, <2>11, MovedRight DEF Hauled
    <2>13. /\ fetched.dag = located.dag /\ fetched.location = located.location
           /\ fetched.queue = located.queue
           /\ fetched.actions = r.actions /\ fetched.nextAction = n
      <3>1. DOMAIN located = RunnerFields /\ Moved(fetched, located)
        BY <2>8, <2>11 DEF RunnerShaped, Hauled
      <3>2. /\ fetched.dag = located.dag /\ fetched.location = located.location
            /\ fetched.queue = located.queue
            /\ fetched.actions = located.actions /\ fetched.nextAction = located.nextAction
        BY <3>1, MovedIs
      <3> QED BY <2>6, <3>2 DEF Located
    <2>14. PICK entry : entry = [task |-> t, cores |-> need, id |-> n]
      OBVIOUS
    <2>15. PICK queued : queued = Enqueued(fetched, x, entry, allowed)
      OBVIOUS
    <2>16. /\ entry \in EntryType(fetched.dag) /\ entry.id = n /\ entry.task = t
           /\ fetched.location[t] = x /\ Queued(State(fetched.dag, t))
           /\ \A y \in Resource : \A e \in Entries(fetched, y) : e.task # t
      BY <2>7, <2>8, <2>13, <2>14 DEF EntryType, Entries
    <2>17. RunnerRight(queued, c, A, n + 1) /\ queued.dag = fetched.dag
           /\ queued.actions = fetched.actions /\ queued.nextAction = fetched.nextAction
      <3>1. /\ entry \in EntryType(fetched.dag) /\ entry.id = n
            /\ fetched.location[entry.task] = x /\ Queued(State(fetched.dag, entry.task))
            /\ \A y \in Resource : \A e \in Entries(fetched, y) : e.task # entry.task
        BY <2>16
      <3>2. n \in Nat /\ x \in Resource
        OBVIOUS
      <3> QED BY ONLY <2>12, <2>15, <3>1, <3>2, EntryAdded
    <2>18. s = ProcessResourceQueue(queued, x)
      <3> DEFINE st == IF r.dag.tasks[t].state = "Ready" THEN "Runnable" ELSE "Scheduled"
                 loc == [r EXCEPT !.dag = UpdateTaskState(@, t, st), !.location[t] = x]
                 fe == Fold(LAMBDA h, i : FetchInput(h, i, x), loc, r.dag.tasks[t].inputs)
                 en == [task |-> t, cores |-> need, id |-> r.nextAction]
                 qu == Enqueued(fe, x, en, allowed)
      <3>1. s = ProcessResourceQueue(qu, x)
        BY <1>3 DEF ProcessScheduleAction, Enqueued
      <3>2. en = entry
        BY <2>14
      <3>3. loc = located
        BY <2>2, <2>3, <2>4, <2>5
      <3>4. fe = FetchAll(loc, x, r.dag.tasks[t].inputs)
        BY DEF FetchAll
      <3> HIDE DEF st, loc, fe, en
      <3>5. fe = fetched
        BY <2>9, <2>10, <3>3, <3>4
      <3>6. qu = queued
        BY <2>15, <3>2, <3>5
      <3> QED BY <3>1, <3>6
    <2>19. RunnerRight(s, c, A, n + 1) /\ Follows(s, queued)
      BY <2>17, <2>18, QueueProcessed
    <2>20. Restated(s.dag, r.dag)
      <3>1. Restated(s.dag, located.dag)
        BY <2>13, <2>17, <2>19 DEF Follows
      <3> QED BY <2>7, <3>1, RestatedTwice
    <2>21. FlowRight(r) => FlowRight(fetched)
      <3>1. state = IF State(r.dag, t) = "Ready" THEN "Runnable" ELSE "Scheduled"
        BY <2>2 DEF State
      <3> QED BY <1>1, <2>1, <2>6, <2>8, <2>9, <2>10, <3>1, LocatedFlow
    <2>22. FlowRight(fetched) => FlowRight(queued)
      <3>1. DOMAIN fetched = RunnerFields
        BY <2>12 DEF RunnerRight, RunnerShaped
      <3>2. /\ queued.dag = fetched.dag /\ queued.mode = fetched.mode
            /\ queued.location = fetched.location /\ queued.held = fetched.held
            /\ queued.wanted = fetched.wanted /\ queued.at = fetched.at
            /\ queued.moving = fetched.moving
        BY <2>15, <3>1 DEF Enqueued, RunnerFields
      <3> QED BY <3>2, FlowSame
    <2> QED BY <2>13, <2>17, <2>19, <2>20, <2>21, <2>22 DEF Follows, Acted
  <1> QED BY <1>2, <1>3

LEMMA ActionRightIs ==
    ASSUME NEW r, NEW c, NEW A, NEW n \in Nat, RunnerRight(r, c, A, n), r.nextAction = n,
           NEW a \in ActionType(r.dag), NEW s, s = ProcessAction(r, a)
    PROVE  RunnerRight(s, c, A, n + 1) /\ Acted(s, r) /\ s.nextAction = n + 1
  <1> DEFINE d == CASE a.type = "ScheduleTask" ->
                         ProcessScheduleAction(r, a.task, a.resource, a.cores, 1..Cores[a.resource])
                    [] a.type = "ScheduleTaskOnCores" ->
                         ProcessScheduleAction(r, a.task, a.resource, Len(a.on), ToSet(a.on))
                    [] a.type = "TransferData" ->
                         AddDataTransferTask(r, a.item, a.from, a.to)
  <1>1. s = [d EXCEPT !.nextAction = @ + 1]
    BY DEF ProcessAction
  <1>2. RunnerRight(d, c, A, n + 1) /\ Acted(d, r) /\ d.nextAction = n
    <2>1. CASE a \in [type : {"ScheduleTask"}, task : Tasks(r.dag), resource : Resource, cores : Nat]
      <3>1. /\ a.type = "ScheduleTask" /\ a.task \in Tasks(r.dag) /\ a.resource \in Resource
            /\ a.cores \in Nat
        BY <2>1
      <3>2. PICK t : t = a.task /\ t \in Tasks(r.dag)
        BY <3>1
      <3>3. PICK x : x = a.resource /\ x \in Resource
        BY <3>1
      <3>4. PICK need : need = a.cores /\ need \in Nat
        BY <3>1
      <3>5. PICK allowed : allowed = 1..Cores[a.resource]
        OBVIOUS
      <3>6. d = ProcessScheduleAction(r, t, x, need, allowed)
        BY <3>1, <3>2, <3>3, <3>4, <3>5
      <3> HIDE DEF d
      <3>7. RunnerRight(r, c, A, n) /\ r.nextAction = n
        OBVIOUS
      <3>8. RunnerRight(d, c, A, n + 1) /\ Acted(d, r) /\ d.nextAction = n
        BY ONLY n \in Nat, <3>2, <3>3, <3>4, <3>6, <3>7, ScheduleRight
      <3> QED BY <3>8
    <2>2. CASE a \in [type : {"ScheduleTaskOnCores"}, task : Tasks(r.dag), resource : Resource,
                      on : Seq(Nat)]
      <3>1. /\ a.type = "ScheduleTaskOnCores" /\ a.task \in Tasks(r.dag) /\ a.resource \in Resource
            /\ Len(a.on) \in Nat
        BY <2>2
      <3>2. PICK t : t = a.task /\ t \in Tasks(r.dag)
        BY <3>1
      <3>3. PICK x : x = a.resource /\ x \in Resource
        BY <3>1
      <3>4. PICK need : need = Len(a.on) /\ need \in Nat
        BY <3>1
      <3>5. PICK allowed : allowed = ToSet(a.on)
        OBVIOUS
      <3>6. d = ProcessScheduleAction(r, t, x, need, allowed)
        BY <3>1, <3>2, <3>3, <3>4, <3>5
      <3> HIDE DEF d
      <3>7. RunnerRight(r, c, A, n) /\ r.nextAction = n
        OBVIOUS
      <3>8. RunnerRight(d, c, A, n + 1) /\ Acted(d, r) /\ d.nextAction = n
        BY ONLY n \in Nat, <3>2, <3>3, <3>4, <3>6, <3>7, ScheduleRight
      <3> QED BY <3>8
    <2>3. CASE a \in [type : {"TransferData"}, item : Items(r.dag), from : Node, to : Node]
      <3>1. a.type = "TransferData" /\ a.item \in Items(r.dag) /\ a.from \in Node /\ a.to \in Node
        BY <2>3
      <3>2. d = AddDataTransferTask(r, a.item, a.from, a.to)
        BY <3>1
      <3> HIDE DEF d
      <3>3. RunnerShaped(r) /\ Supplied(r) /\ DOMAIN r = RunnerFields /\ GraphTyped(r.dag)
        BY DEF RunnerRight, RunnerShaped
      <3>4. Hauled(d, r)
        BY <3>1, <3>2, <3>3, AddHauls
      <3>5. RunnerRight(d, c, A, n)
        BY <3>4, MovedRight DEF Hauled
      <3>6. d.dag = r.dag /\ d.actions = r.actions /\ d.nextAction = r.nextAction
        BY <3>3, <3>4, MovedIs DEF Hauled
      <3>7. FlowRight(r) => FlowRight(d)
        BY <3>3, <3>4, HauledFlow
      <3> QED BY <3>3, <3>5, <3>6, <3>7, IdsGrow, RestatedSelf DEF Acted
    <2> QED BY <2>1, <2>2, <2>3 DEF ActionType
  <1> HIDE DEF d
  <1>3. DOMAIN d = RunnerFields /\ Supplied(d) /\ d.at \in [Items(d.dag) -> Node \cup {Nowhere}]
    BY <1>2 DEF RunnerRight, RunnerShaped
  <1>4. Alike(s, d) /\ s.nextAction = n + 1 /\ s.actions = d.actions /\ s.held = d.held
        /\ s.wanted = d.wanted /\ s.moving = d.moving /\ s.at = d.at /\ s.dag = d.dag
    BY <1>1, <1>2, <1>3 DEF Alike, RunnerFields
  <1>5. Supplied(s)
    BY <1>3, <1>4 DEF Supplied
  <1>6. RunnerRight(s, c, A, n + 1)
    BY <1>2, <1>3, <1>4, <1>5, AlikeRight
  <1>7. s.mode = d.mode /\ s.location = d.location
    BY <1>1, <1>3 DEF RunnerFields
  <1>8. FlowRight(d) => FlowRight(s)
    BY <1>4, <1>7, FlowSame
  <1> QED BY <1>2, <1>4, <1>6, <1>8 DEF Acted

\* Between actions.
RunnerSound(r, c, A) == r.nextAction \in Nat /\ RunnerRight(r, c, A, r.nextAction)

LEMMA ActAllRight ==
    ASSUME NEW r, NEW c, NEW A, RunnerSound(r, c, A), NEW w \in Seq(ActionType(r.dag)),
           NEW s, s = ActAll(r, w)
    PROVE  RunnerSound(s, c, A) /\ Acted(s, r)
  <1>1. PICK f : /\ f[0] = r
                 /\ \A k \in 1..Len(w) : f[k] = ProcessAction(f[k - 1], w[k])
                 /\ ActAll(r, w) = f[Len(w)]
    <2>1. PICK T : T = ActionType(r.dag)
      OBVIOUS
    <2>2. w \in Seq(T)
      BY <2>1
    <2> QED BY ONLY <2>2, ActAllFolds
  <1> DEFINE P(e) == RunnerSound(e, c, A) /\ Acted(e, r)
             F == {k \in 0..Len(w) : P(f[k])}
  <1>2. Len(w) \in Nat /\ 0 \in F
    <2>1. Acted(r, r)
      BY RestatedSelf DEF Acted, RunnerSound, RunnerRight, RunnerShaped
    <2>2. Len(w) \in Nat /\ 0 \in 0..Len(w)
      OBVIOUS
    <2> QED BY <1>1, <2>1, <2>2
  <1>3. ASSUME NEW k \in 1..Len(w), k - 1 \in F PROVE k \in F
    <2>1. PICK e : e = f[k - 1] /\ P(e)
      BY <1>3
    <2>2. PICK d : d = ProcessAction(e, w[k])
      OBVIOUS
    <2>3. w[k] \in ActionType(e.dag)
      <3>1. Tasks(e.dag) = Tasks(r.dag) /\ Items(e.dag) = Items(r.dag)
        BY <2>1 DEF Acted, Restated
      <3>2. w[k] \in ActionType(r.dag)
        OBVIOUS
      <3> QED BY <3>1, <3>2 DEF ActionType
    <2>4. PICK n \in Nat : n = e.nextAction /\ RunnerRight(e, c, A, n)
      BY <2>1 DEF RunnerSound
    <2>5. RunnerRight(d, c, A, n + 1) /\ Acted(d, e) /\ d.nextAction = n + 1
      BY <2>2, <2>3, <2>4, ActionRightIs
    <2>6. RunnerSound(d, c, A)
      BY <2>5 DEF RunnerSound
    <2>7. Acted(d, r)
      BY <2>1, <2>5, RestatedTwice DEF Acted
    <2>8. f[k] = d /\ k \in 0..Len(w)
      BY <1>1, <2>1, <2>2
    <2> QED BY <2>6, <2>7, <2>8
  <1> HIDE DEF F
  <1>4. Len(w) \in F
    <2>1. \A k \in 0..Len(w) : k \in F
      BY <1>2, <1>3, PrefixInduction
    <2> QED BY <1>2, <2>1
  <1> QED BY <1>1, <1>4 DEF F

LEMMA QueuesAllRight ==
    ASSUME NEW r, NEW c, NEW A, RunnerSound(r, c, A), NEW w \in Seq(Resource),
           NEW s, s = QueuesAll(r, w)
    PROVE  RunnerSound(s, c, A) /\ Acted(s, r)
  <1>1. PICK f : /\ f[0] = r
                 /\ \A k \in 1..Len(w) : f[k] = ProcessResourceQueue(f[k - 1], w[k])
                 /\ QueuesAll(r, w) = f[Len(w)]
    <2>1. w \in Seq(Resource)
      OBVIOUS
    <2> QED BY ONLY <2>1, QueuesAllFolds
  <1> DEFINE P(e) == RunnerSound(e, c, A) /\ Acted(e, r)
             F == {k \in 0..Len(w) : P(f[k])}
  <1>2. Len(w) \in Nat /\ 0 \in F
    <2>1. Acted(r, r)
      BY RestatedSelf DEF Acted, RunnerSound, RunnerRight, RunnerShaped
    <2>2. Len(w) \in Nat /\ 0 \in 0..Len(w)
      OBVIOUS
    <2> QED BY <1>1, <2>1, <2>2
  <1>3. ASSUME NEW k \in 1..Len(w), k - 1 \in F PROVE k \in F
    <2>1. PICK e : e = f[k - 1] /\ P(e)
      BY <1>3
    <2>2. PICK d : d = ProcessResourceQueue(e, w[k])
      OBVIOUS
    <2>3. w[k] \in Resource
      OBVIOUS
    <2>4. PICK n \in Nat : n = e.nextAction /\ RunnerRight(e, c, A, n)
      BY <2>1 DEF RunnerSound
    <2>5. RunnerRight(d, c, A, n) /\ Follows(d, e)
      BY <2>2, <2>3, <2>4, QueueProcessed
    <2>6. RunnerSound(d, c, A)
      BY <2>4, <2>5 DEF RunnerSound, Follows
    <2>7. Acted(d, r)
      BY <2>1, <2>5, RestatedTwice DEF Acted, Follows
    <2>8. f[k] = d /\ k \in 0..Len(w)
      BY <1>1, <2>1, <2>2
    <2> QED BY <2>6, <2>7, <2>8
  <1> HIDE DEF F
  <1>4. Len(w) \in F
    <2>1. \A k \in 0..Len(w) : k \in F
      BY <1>2, <1>3, PrefixInduction
    <2> QED BY <1>2, <2>1
  <1> QED BY <1>1, <1>4 DEF F

\* With the actions that are left for later, and those a scheduler may answer.
Sound(r, c, A) ==
    /\ RunnerSound(r, c, A)
    /\ r.actions \in Seq(ActionType(r.dag))
    /\ policy.name = "User" => UserDecisions \subseteq Seq(ActionType(r.dag))

LEMMA SameActions ==
    ASSUME NEW g, NEW h, Restated(h, g)
    PROVE  ActionType(h) = ActionType(g)
  BY DEF Restated, ActionType

WithActions(r, w) == [r EXCEPT !.actions = w]

LEMMA ActionsChange ==
    ASSUME NEW r, NEW c, NEW A, RunnerSound(r, c, A), NEW w, NEW s, s = WithActions(r, w)
    PROVE  RunnerSound(s, c, A) /\ s.dag = r.dag /\ s.actions = w /\ (FlowRight(r) => FlowRight(s))
  <1>1. PICK n \in Nat : n = r.nextAction /\ RunnerRight(r, c, A, n)
    BY DEF RunnerSound
  <1>2. DOMAIN r = RunnerFields /\ Supplied(r) /\ r.at \in [Items(r.dag) -> Node \cup {Nowhere}]
    BY <1>1 DEF RunnerRight, RunnerShaped
  <1>3. Alike(s, r) /\ s.held = r.held /\ s.wanted = r.wanted /\ s.moving = r.moving
        /\ s.at = r.at /\ s.dag = r.dag /\ s.nextAction = n /\ s.actions = w
    BY <1>1, <1>2 DEF Alike, RunnerFields, WithActions
  <1>4. Supplied(s)
    BY <1>2, <1>3 DEF Supplied
  <1>5. RunnerRight(s, c, A, n)
    BY <1>1, <1>2, <1>3, <1>4, AlikeRight
  <1>6. s.mode = r.mode /\ s.location = r.location
    BY <1>2 DEF RunnerFields, WithActions
  <1>7. FlowRight(r) => FlowRight(s)
    BY <1>3, <1>6, FlowSame
  <1> QED BY <1>3, <1>5, <1>7 DEF RunnerSound

LEMMA ProcessedRight ==
    ASSUME NEW r, NEW c, NEW A, Sound(r, c, A), NEW s, s = ProcessActions(r)
    PROVE  Sound(s, c, A) /\ (FlowRight(r) => FlowRight(s))
  <1> DEFINE each == [x \in Resource |-> x]
             wrong == {k \in DOMAIN r.actions : RepeatsCore(r.actions[k])}
             n == IF wrong = {} THEN Len(r.actions)
                  ELSE CHOOSE k \in wrong : \A j \in wrong : k <= j
             now == IF wrong = {} THEN r.actions ELSE SubSeq(r.actions, 1, n - 1)
             ready == Fold(ProcessResourceQueue, r, each)
             left == [ready EXCEPT !.actions = SubSeq(@, n + 1, Len(@))]
  <1>1. s = Fold(ProcessAction, left, now)
    BY DEF ProcessActions
  <1>2. ready = QueuesAll(r, each)
    BY DEF QueuesAll
  <1>3. each \in Seq(Resource)
    <2>1. Len(Cores) \in Nat
      BY ResourceAssumption
    <2>2. each \in [1..Len(Cores) -> Resource]
      BY DEF Resource
    <2> QED BY <2>1, <2>2
  <1>4. PICK T : T = ActionType(r.dag)
    OBVIOUS
  <1>5. PICK acts \in Seq(T) : acts = r.actions
    BY <1>4 DEF Sound
  <1>6. n \in Nat /\ now \in Seq(T)
    <2>1. CASE wrong = {}
      BY <1>5, <2>1
    <2>2. CASE wrong # {}
      <3>1. wrong \in SUBSET Nat /\ wrong \subseteq 1..Len(acts) /\ DOMAIN acts = 1..Len(acts)
        BY <1>5
      <3>2. \E k \in wrong : \A j \in wrong : k <= j
        <4> HIDE DEF wrong
        <4> QED BY <2>2, <3>1, LeastNatural
      <3>3. n \in wrong
        BY <2>2, <3>2
      <3> HIDE DEF wrong
      <3>4. n \in 1..Len(acts)
        BY <3>1, <3>3
      <3> HIDE DEF n
      <3>5. SubSeq(acts, 1, n - 1) \in Seq(T)
        BY <3>4
      <3> QED BY <1>5, <2>2, <3>4, <3>5
    <2> QED BY <2>1, <2>2
  <1> HIDE DEF wrong, n, now, each, ready
  <1>7. RunnerSound(ready, c, A) /\ Acted(ready, r)
    <2>1. PICK w \in Seq(Resource) : w = each
      BY <1>3
    <2> QED BY <1>2, <2>1, QueuesAllRight DEF Sound
  <1>8. ready.actions = acts
    BY <1>5, <1>7 DEF Acted
  <1>9. PICK rest \in Seq(T) : rest = SubSeq(acts, n + 1, Len(acts))
    <2>1. SubSeq(acts, n + 1, Len(acts)) \in Seq(T)
      BY <1>6
    <2> QED BY <2>1
  <1>10. left = WithActions(ready, rest)
    BY <1>8, <1>9 DEF WithActions
  <1> HIDE DEF left
  <1>11. RunnerSound(left, c, A) /\ left.dag = ready.dag /\ left.actions = rest
         /\ (FlowRight(ready) => FlowRight(left))
    BY ONLY <1>7, <1>10, ActionsChange
  <1>12. ActionType(left.dag) = T
    BY <1>4, <1>7, <1>11, SameActions DEF Acted
  <1>13. s = ActAll(left, now)
    BY <1>1 DEF ActAll
  <1>14. RunnerSound(s, c, A) /\ Acted(s, left)
    BY <1>6, <1>11, <1>12, <1>13, ActAllRight
  <1>15. s.actions = rest /\ ActionType(s.dag) = T
    BY <1>11, <1>12, <1>14, SameActions DEF Acted
  <1>16. FlowRight(r) => FlowRight(s)
    BY <1>7, <1>11, <1>14 DEF Acted
  <1> QED BY <1>4, <1>9, <1>14, <1>15, <1>16 DEF Sound

LEMMA CarriedOut ==
    ASSUME NEW r, NEW c, NEW A, Sound(r, c, A), NEW w \in Seq(ActionType(r.dag)),
           NEW s, s = CarryOut(r, w)
    PROVE  Sound(s, c, A) /\ (FlowRight(r) => FlowRight(s))
  <1>0. PICK T : T = ActionType(r.dag)
    OBVIOUS
  <1>a. r.actions \in Seq(T) /\ w \in Seq(T) /\ RunnerSound(r, c, A)
    BY <1>0 DEF Sound
  <1>b. r.actions \o w \in Seq(T)
    BY <1>a
  <1>1. PICK v \in Seq(ActionType(r.dag)) : v = r.actions \o w
    BY <1>0, <1>b
  <1>2. PICK e : e = WithActions(r, v)
    OBVIOUS
  <1>3. RunnerSound(e, c, A) /\ e.dag = r.dag /\ e.actions = v /\ (FlowRight(r) => FlowRight(e))
    BY ONLY <1>a, <1>2, ActionsChange
  <1>4. Sound(e, c, A)
    BY <1>3 DEF Sound
  <1>5. s = ProcessActions(e)
    BY <1>1, <1>2 DEF CarryOut, Bind, WithActions
  <1> QED BY <1>3, <1>4, <1>5, ProcessedRight

LEMMA CheckedRight ==
    ASSUME NEW r, NEW c, NEW A, Sound(r, c, A), NEW s, s = CheckCompleted(r)
    PROVE  Sound(s, c, A) /\ (FlowRight(r) => FlowRight(s))
  <1>1. CASE s = r
    BY <1>1
  <1>2. CASE s = [r EXCEPT !.finished = @ + 1]
    <2>1. PICK n \in Nat : n = r.nextAction /\ RunnerRight(r, c, A, n)
      BY DEF Sound, RunnerSound
    <2>2. DOMAIN r = RunnerFields /\ Supplied(r) /\ r.at \in [Items(r.dag) -> Node \cup {Nowhere}]
      BY <2>1 DEF RunnerRight, RunnerShaped
    <2>3. Alike(s, r) /\ s.held = r.held /\ s.wanted = r.wanted /\ s.moving = r.moving
          /\ s.at = r.at /\ s.dag = r.dag /\ s.nextAction = n /\ s.actions = r.actions
      BY <1>2, <2>1, <2>2 DEF Alike, RunnerFields
    <2>4. Supplied(s)
      BY <2>2, <2>3 DEF Supplied
    <2>5. RunnerRight(s, c, A, n)
      BY <2>1, <2>2, <2>3, <2>4, AlikeRight
    <2>6. s.mode = r.mode /\ s.location = r.location
      BY <1>2, <2>2 DEF RunnerFields
    <2>7. FlowRight(r) => FlowRight(s)
      BY <2>3, <2>6, FlowSame
    <2> QED BY <2>3, <2>5, <2>7 DEF Sound, RunnerSound
  <1> QED BY <1>1, <1>2 DEF CheckCompleted

-----------------------------------------------------------------------------
LEMMA AlikeSound ==
    ASSUME NEW r, NEW c, NEW A, Sound(r, c, A), NEW s, Alike(s, r), Supplied(s),
           s.at \in [Items(s.dag) -> Node \cup {Nowhere}],
           s.nextAction = r.nextAction, s.actions = r.actions
    PROVE  Sound(s, c, A)
  <1>1. PICK n \in Nat : n = r.nextAction /\ RunnerRight(r, c, A, n)
    BY DEF Sound, RunnerSound
  <1>2. RunnerRight(s, c, A, n)
    BY <1>1, AlikeRight
  <1>3. s.dag = r.dag
    BY DEF Alike
  <1> QED BY <1>1, <1>2, <1>3 DEF Sound, RunnerSound

LEMMA SoundShaped ==
    ASSUME NEW r, NEW c, NEW A, Sound(r, c, A)
    PROVE  /\ RunnerShaped(r) /\ Supplied(r) /\ DOMAIN r = RunnerFields /\ GraphTyped(r.dag)
           /\ r.at \in [Items(r.dag) -> Node \cup {Nowhere}]
           /\ r.nextAction \in Nat /\ RunnerRight(r, c, A, r.nextAction)
  BY DEF Sound, RunnerSound, RunnerRight, RunnerShaped

LEMMA HauledSound ==
    ASSUME NEW r, NEW c, NEW A, Sound(r, c, A), NEW s, Hauled(s, r)
    PROVE  Sound(s, c, A) /\ s.dag = r.dag
  <1>1. DOMAIN r = RunnerFields /\ r.at \in [Items(r.dag) -> Node \cup {Nowhere}]
    BY SoundShaped
  <1>2. Moved(s, r) /\ Supplied(s)
    BY DEF Hauled
  <1>3. Alike(s, r) /\ s.at = r.at /\ s.dag = r.dag /\ s.nextAction = r.nextAction
        /\ s.actions = r.actions
    BY <1>1, <1>2, MovedIs DEF Alike
  <1> QED BY <1>1, <1>2, <1>3, AlikeSound

\* The items are at nodes.
LEMMA PlacedSound ==
    ASSUME NEW r, NEW c, NEW A, Sound(r, c, A),
           NEW v \in [Items(r.dag) -> Node \cup {Nowhere}], NEW s, s = [r EXCEPT !.at = v]
    PROVE  Sound(s, c, A) /\ s.dag = r.dag
  <1>1. DOMAIN r = RunnerFields /\ Supplied(r)
    BY SoundShaped
  <1>2. Alike(s, r) /\ s.at = v /\ s.dag = r.dag /\ s.nextAction = r.nextAction
        /\ s.actions = r.actions /\ s.held = r.held /\ s.wanted = r.wanted /\ s.moving = r.moving
    BY <1>1 DEF Alike, RunnerFields
  <1>3. Supplied(s)
    BY <1>1, <1>2 DEF Supplied
  <1> QED BY <1>2, <1>3, AlikeSound

LEMMA BeginRight ==
    ASSUME NEW r, NEW c, NEW A, Sound(r, c, A), NEW s, s = BeginRun(r)
    PROVE  Sound(s, c, A) /\ s.dag = r.dag /\ (FlowRight(r) => FlowRight(s))
  <1>1. PICK given : given = {i \in Items(r.dag) : r.dag.items[i].state = "Ready"}
    OBVIOUS
  <1>2. PICK h : h = [r.held EXCEPT ![Runner] = @ \cup given]
    OBVIOUS
  <1>3. PICK v : v = [i \in DOMAIN r.at |-> IF i \in given THEN Runner ELSE r.at[i]]
    OBVIOUS
  <1>4. PICK b : b = TRUE
    OBVIOUS
  <1>5. s = [r EXCEPT !.started = b, !.held = h, !.at = v]
    BY <1>1, <1>2, <1>3, <1>4 DEF BeginRun
  <1>6. DOMAIN r = RunnerFields /\ Supplied(r) /\ r.at \in [Items(r.dag) -> Node \cup {Nowhere}]
    BY SoundShaped
  <1>7. Alike(s, r) /\ s.at = v /\ s.dag = r.dag /\ s.nextAction = r.nextAction
        /\ s.actions = r.actions /\ s.held = h /\ s.wanted = r.wanted /\ s.moving = r.moving
    BY <1>5, <1>6 DEF Alike, RunnerFields
  <1>8. v \in [Items(r.dag) -> Node \cup {Nowhere}]
    BY <1>3, <1>6 DEF Node
  <1>9. h \in [Node -> SUBSET Items(r.dag)]
        /\ \A n \in Node : \A i \in h[n] : i \in r.held[n] \/ i \in given
    BY <1>1, <1>2, <1>6 DEF Supplied
  <1>10. \A n \in Node : \A i \in h[n] : ItemState(r.dag, i) = "Ready"
    BY <1>1, <1>6, <1>9 DEF Supplied, ItemState
  <1>11. Supplied(s)
    BY <1>6, <1>7, <1>9, <1>10 DEF Supplied
  <1>12. s.mode = r.mode /\ s.location = r.location
    BY <1>5, <1>6 DEF RunnerFields
  <1>13. Stored(s)
    <2>1. \A i : Made(r.dag, i) <=> i \in given
      BY <1>1 DEF Made, ItemState
    <2>2. \A i \in given : i \in h[Runner] /\ v[i] = Runner /\ Runner \in Node
      BY <1>1, <1>2, <1>3, <1>6 DEF Supplied, Node
    <2> QED BY <1>7, <2>1, <2>2 DEF Stored
  <1>14. \A i, n : MovingTo(s, i, n) <=> MovingTo(r, i, n)
    BY <1>7 DEF MovingTo
  <1>15. \A n \in Node : \A i : Coming(r, i, n) => Coming(s, i, n)
    <2>1. \A n \in Node : r.held[n] \subseteq s.held[n]
      BY <1>2, <1>6, <1>7 DEF Supplied
    <2> QED BY <1>7, <1>12, <1>14, <2>1 DEF Coming
  <1>16. \A t : r.location[t] \in Resource /\ Fed(r, t) => Fed(s, t)
    BY <1>7, <1>12, <1>15 DEF Fed, Node
  <1>17. FlowRight(r) => FlowRight(s)
    BY <1>7, <1>12, <1>13, <1>16 DEF FlowRight
  <1>18. Sound(s, c, A)
    BY <1>7, <1>8, <1>11, AlikeSound
  <1> QED BY <1>7, <1>17, <1>18

-----------------------------------------------------------------------------
(* A task is done.                                                         *)

\* s is r after the task t has freed its cores and memory of x.
Freed(s, r, t, x) ==
    /\ DOMAIN s = RunnerFields
    /\ s.dag = UpdateTaskState(r.dag, t, "Done")
    /\ s.mode = r.mode /\ s.started = r.started /\ s.actions = r.actions
    /\ s.nextAction = r.nextAction /\ s.location = r.location /\ s.held = r.held
    /\ s.wanted = r.wanted /\ s.at = r.at /\ s.moving = r.moving /\ s.finished = r.finished
    /\ s.queue = r.queue /\ s.taskCores = r.taskCores /\ s.requests = r.requests
    /\ s.free = [r.free EXCEPT ![x] = @ \cup r.taskCores[t]]
    /\ s.cores = [r.cores EXCEPT ![x] = @ + Cardinality(r.taskCores[t])]
    /\ s.memory = [r.memory EXCEPT ![x] = @ + r.dag.tasks[t].memory]

LEMMA FreeIs ==
    ASSUME NEW r, NEW t, DOMAIN r = RunnerFields, NEW x, x = r.location[t],
           NEW s, s = FreeTask(r, t)
    PROVE  Freed(s, r, t, x)
  <1>1. PICK d : d = UpdateTaskState(r.dag, t, "Done")
    OBVIOUS
  <1>2. PICK fr : fr = [r.free EXCEPT ![x] = @ \cup r.taskCores[t]]
    OBVIOUS
  <1>3. PICK co : co = [r.cores EXCEPT ![x] = @ + Cardinality(r.taskCores[t])]
    OBVIOUS
  <1>4. PICK me : me = [r.memory EXCEPT ![x] = @ + r.dag.tasks[t].memory]
    OBVIOUS
  <1>5. PICK cm : cm = r.computing \ {t}
    OBVIOUS
  <1>6. s = [r EXCEPT !.computing = cm, !.cores = co, !.free = fr, !.memory = me, !.dag = d]
    BY <1>1, <1>2, <1>3, <1>4, <1>5 DEF FreeTask
  <1>7. /\ DOMAIN s = RunnerFields /\ s.dag = d /\ s.queue = r.queue /\ s.free = fr /\ s.cores = co
        /\ s.memory = me /\ s.taskCores = r.taskCores /\ s.requests = r.requests
        /\ s.mode = r.mode /\ s.started = r.started /\ s.actions = r.actions
        /\ s.nextAction = r.nextAction /\ s.location = r.location /\ s.held = r.held
        /\ s.wanted = r.wanted /\ s.at = r.at /\ s.moving = r.moving /\ s.finished = r.finished
    BY <1>6 DEF RunnerFields
  <1> QED BY <1>1, <1>2, <1>3, <1>4, <1>7 DEF Freed

\* A task that has run is done, the others go on.
Ended(h, g, t) ==
    /\ Restated(h, g) /\ State(h, t) = "Done" /\ Grown(h, g)
    /\ \A u \in Tasks(g) : u # t => Calm(h, g, u)
    /\ GraphTyped(h) /\ GraphLive(h)
    /\ Tasks(h) = Tasks(g) /\ Items(h) = Items(g)
    /\ \A u \in Tasks(g) : h.tasks[u].memory = g.tasks[u].memory
    /\ \A i \in Range(g.tasks[t].outputs) : ItemState(h, i) = "Ready"

\* t is answered from x.
Back(r, A, t, x) ==
    /\ t \in A /\ t \in Tasks(r.dag) /\ State(r.dag, t) = "Running"
    /\ r.location[t] = x /\ x \in Resource

LEMMA FreedEnds ==
    ASSUME NEW r, NEW A, NEW t, NEW x, NEW s, RunnerShaped(r), Back(r, A, t, x), Freed(s, r, t, x)
    PROVE  Ended(s.dag, r.dag, t)
  <1>1. t \in Tasks(r.dag) /\ State(r.dag, t) = "Running" /\ GraphTyped(r.dag) /\ GraphLive(r.dag)
    BY DEF Back, RunnerShaped
  <1>2. s.dag = UpdateTaskState(r.dag, t, "Done")
    BY DEF Freed
  <1>3. /\ Restated(s.dag, r.dag) /\ GraphLive(s.dag) /\ Grown(s.dag, r.dag) /\ State(s.dag, t) = "Done"
        /\ \A u \in Tasks(r.dag) : u # t => Calm(s.dag, r.dag, u)
        /\ \A i \in Range(r.dag.tasks[t].outputs) : ItemState(s.dag, i) = "Ready"
    BY <1>1, <1>2, DoneIs
  <1>4. GraphTyped(s.dag)
    BY <1>1, <1>3, RestatedTyped
  <1> QED BY <1>3, <1>4 DEF Ended, Restated

LEMMA FreedRuns ==
    ASSUME NEW r, NEW A, NEW t, NEW x, NEW s, RunnerShaped(r), Back(r, A, t, x), Freed(s, r, t, x)
    PROVE  /\ t \in RunningAt(r, x) /\ RunningAt(s, x) = RunningAt(r, x) \ {t}
           /\ \A y \in Resource : y # x => RunningAt(s, y) = RunningAt(r, y)
  <1>1. Ended(s.dag, r.dag, t)
    BY FreedEnds
  <1>2. \A u \in Tasks(r.dag) : State(s.dag, u) = "Running" <=> State(r.dag, u) = "Running" /\ u # t
    BY <1>1 DEF Ended, Calm, Engaged
  <1>3. Tasks(s.dag) = Tasks(r.dag) /\ s.location = r.location
    BY <1>1 DEF Ended, Freed
  <1>4. t \in RunningAt(r, x)
    BY DEF Back, RunningAt
  <1>5. RunningAt(s, x) = RunningAt(r, x) \ {t}
    BY <1>2, <1>3 DEF RunningAt
  <1>6. \A y \in Resource : y # x => RunningAt(s, y) = RunningAt(r, y)
    BY <1>2, <1>3 DEF RunningAt, Back
  <1> QED BY <1>4, <1>5, <1>6

LEMMA FreedShaped ==
    ASSUME NEW r, NEW A, NEW t, NEW x, NEW s, RunnerShaped(r), Supplied(r), CoresRight(r),
           Back(r, A, t, x), Freed(s, r, t, x)
    PROVE  /\ RunnerShaped(s) /\ Supplied(s) /\ IsFiniteSet(r.taskCores[t])
           /\ Cardinality(r.taskCores[t]) \in Nat
  <1>1. Ended(s.dag, r.dag, t)
    BY FreedEnds
  <1>2. t \in Tasks(r.dag) /\ x \in Resource /\ t \in RunningAt(r, x)
    BY FreedRuns DEF Back
  <1>3. Tasks(s.dag) = Tasks(r.dag) /\ Items(s.dag) = Items(r.dag)
    BY <1>1 DEF Ended
  <1>4. IsFiniteSet(r.taskCores[t]) /\ Cardinality(r.taskCores[t]) \in Nat
    <2>1. Cores[x] \in Nat
      BY <1>2, ResourceAssumption DEF Resource
    <2>2. IsFiniteSet(1..Cores[x])
      BY <2>1, FS_Interval
    <2>3. r.taskCores[t] \subseteq 1..Cores[x]
      BY <1>2 DEF CoresRight
    <2> QED BY <2>2, <2>3, FS_Subset, FS_CardinalityType
  <1>5. r.dag.tasks[t].memory \in Nat
    BY <1>2 DEF RunnerShaped, GraphTyped, TaskTyped
  <1>6. s.free \in [Resource -> SUBSET Nat]
    BY <1>2 DEF RunnerShaped, Freed
  <1>7. s.cores \in [Resource -> Nat] /\ s.memory \in [Resource -> Nat]
    BY <1>2, <1>4, <1>5 DEF RunnerShaped, Freed
  <1>8. RunnerShaped(s)
    BY <1>1, <1>3, <1>6, <1>7 DEF RunnerShaped, Freed, Ended
  <1>9. Supplied(s)
    <2>1. s.held = r.held /\ s.wanted = r.wanted /\ s.moving = r.moving
      BY DEF Freed
    <2>2. \A i \in Items(r.dag) : ItemState(r.dag, i) = "Ready" => ItemState(s.dag, i) = "Ready"
      BY <1>1 DEF Ended, Grown
    <2>3. \A n \in Node : r.held[n] \subseteq Items(r.dag)
      BY DEF Supplied
    <2> QED BY <1>3, <2>1, <2>2, <2>3 DEF Supplied
  <1> QED BY <1>4, <1>8, <1>9

LEMMA FreedQueues ==
    ASSUME NEW r, NEW A, NEW t, NEW x, NEW s, NEW n, RunnerShaped(r), QueuesRight(r, n),
           Back(r, A, t, x), Freed(s, r, t, x)
    PROVE  QueuesRight(s, n)
  <1>1. Ended(s.dag, r.dag, t)
    BY FreedEnds
  <1>2. s.queue = r.queue /\ s.location = r.location /\ EntryType(s.dag) = EntryType(r.dag)
    BY <1>1 DEF Ended, Freed, EntryType
  <1>3. \A y \in Resource : \A e \in Entries(r, y) : e.task \in Tasks(r.dag) /\ e.task # t
    <2> TAKE y \in Resource
    <2> TAKE e \in Entries(r, y)
    <2>1. e \in EntryType(r.dag)
      <3>1. PICK k \in 1..Cores[y] : e \in Range(r.queue[y][k])
        BY DEF Entries
      <3>2. r.queue[y][k] \in Seq(EntryType(r.dag))
        BY DEF QueuesRight
      <3> QED BY <3>1, <3>2 DEF Range
    <2>2. Queued(State(r.dag, e.task))
      BY DEF QueuesRight
    <2> QED BY <2>1, <2>2 DEF EntryType, Queued, Back
  <1>4. \A y : Entries(s, y) = Entries(r, y)
    BY <1>2 DEF Entries
  <1>5. \A y \in Resource : \A e \in Entries(s, y) : Queued(State(s.dag, e.task))
    BY <1>1, <1>3, <1>4 DEF QueuesRight, Ended, Calm
  <1> QED BY <1>2, <1>4, <1>5 DEF QueuesRight

-----------------------------------------------------------------------------
(* Data that has just been made.                                           *)

\* Others get i from where it is, or will be.
AtHand(r, i) ==
    /\ r.mode = "ViaMasterNode" => i \in r.held[Runner] \/ MovingTo(r, i, Runner)
    /\ r.mode = "Direct" => r.at[i] \in Node /\ i \in r.held[r.at[i]]

\* The runner has been asked for i, unless x has it.
Awaited(r, i, x) == i \in r.held[x] \/ MovingTo(r, i, x) \/ x \in Range(r.wanted[Runner][i])

\* t gets its inputs but those in W, which have just been made.
FedBut(r, t, W) ==
    \A i \in Range(r.dag.tasks[t].inputs) :
      /\ i \notin W => Coming(r, i, r.location[t])
      /\ i \in W /\ r.mode = "ViaMasterNode" => Awaited(r, i, r.location[t])

FlowBut(r, W) ==
    /\ GraphFlow(r.dag)
    /\ \A t \in Tasks(r.dag) : Waits(State(r.dag, t)) => r.location[t] \in Resource
    /\ r.mode \in {"ViaMasterNode", "Direct"} =>
         /\ \A i \in Items(r.dag) \ W : Made(r.dag, i) => AtHand(r, i)
         /\ \A t \in Tasks(r.dag) : Waits(State(r.dag, t)) => FedBut(r, t, W)

LEMMA StoredIs ==
    ASSUME NEW r
    PROVE  Stored(r) <=> \A i \in Items(r.dag) : Made(r.dag, i) => AtHand(r, i)
  BY DEF Stored, AtHand

LEMMA FreedFlow ==
    ASSUME NEW r, NEW A, NEW t, NEW x, NEW s, RunnerShaped(r), Back(r, A, t, x), Freed(s, r, t, x),
           FlowRight(r), NEW W, W = Range(r.dag.tasks[t].outputs)
    PROVE  FlowBut(s, W)
  <1>1. PICK g : g = r.dag /\ GraphTyped(g) /\ GraphLive(g) /\ GraphFlow(g)
    BY DEF RunnerShaped, FlowRight
  <1>2. PICK h : h = s.dag /\ h = UpdateTaskState(g, t, "Done")
    BY <1>1 DEF Freed
  <1>3. t \in Tasks(g) /\ State(g, t) = "Running"
    BY <1>1 DEF Back
  <1>4. GraphFlow(h) /\ Wakes(h, g) /\ OnlyBy(h, g, t)
    BY <1>1, <1>2, <1>3, DoneFlow
  <1>5. Restated(h, g) /\ Grown(h, g) /\ Tasks(h) = Tasks(g) /\ Items(h) = Items(g)
    <2>1. Ended(s.dag, r.dag, t)
      BY FreedEnds
    <2> QED BY <1>1, <1>2, <2>1 DEF Ended
  <1>6. \A u \in Tasks(g) : h.tasks[u].inputs = g.tasks[u].inputs
    BY <1>5 DEF Restated
  <1>7. /\ s.mode = r.mode /\ s.location = r.location /\ s.held = r.held
        /\ s.wanted = r.wanted /\ s.at = r.at /\ s.moving = r.moving
    BY DEF Freed
  <1>8. \A i : i \notin W => (Made(h, i) <=> Made(g, i))
    BY <1>1, <1>4, <1>5 DEF Made, OnlyBy, Grown
  <1>9. \A u \in Tasks(g) : Waits(State(h, u)) => Waits(State(g, u))
    BY <1>4 DEF Wakes
  <1>10. \A u \in Tasks(g) : Waits(State(h, u)) => s.location[u] \in Resource
    BY <1>1, <1>7, <1>9 DEF FlowRight
  <1>11. \A i, n : MovingTo(s, i, n) <=> MovingTo(r, i, n)
    BY <1>7 DEF MovingTo
  <1>12. ASSUME s.mode \in {"ViaMasterNode", "Direct"}
         PROVE  /\ \A i \in Items(g) \ W : Made(h, i) => AtHand(s, i)
                /\ \A u \in Tasks(g) : Waits(State(h, u)) => FedBut(s, u, W)
    <2>1. Stored(r) /\ \A u \in Tasks(g) : Waits(State(g, u)) => Fed(r, u)
      BY <1>1, <1>7, <1>12 DEF FlowRight
    <2>2. \A i \in Items(g) \ W : Made(h, i) => AtHand(s, i)
      <3>1. \A i \in Items(g) \ W : Made(h, i) => AtHand(r, i)
        BY <1>1, <1>8, <2>1, StoredIs
      <3>2. \A i : AtHand(r, i) => AtHand(s, i)
        BY <1>7, <1>11 DEF AtHand
      <3> QED BY <3>1, <3>2
    <2>3. \A i, n : i \notin W /\ Coming(r, i, n) => Coming(s, i, n)
      BY <1>1, <1>2, <1>7, <1>8, <1>11 DEF Coming
    <2>4. \A i, n : Coming(r, i, n) /\ s.mode = "ViaMasterNode" => Awaited(s, i, n)
      BY <1>7, <1>11 DEF Coming, Awaited
    <2>5. \A u \in Tasks(g) : Waits(State(h, u)) => FedBut(s, u, W)
      BY <1>1, <1>2, <1>6, <1>7, <1>9, <2>1, <2>3, <2>4 DEF Fed, FedBut
    <2> QED BY <2>2, <2>5
  <1> QED BY <1>2, <1>4, <1>5, <1>10, <1>12 DEF FlowBut

LEMMA HauledAtHand ==
    ASSUME NEW r, DOMAIN r = RunnerFields, NEW s, Hauled(s, r), NEW i, AtHand(r, i)
    PROVE  AtHand(s, i)
  <1>1. s.mode = r.mode /\ s.at = r.at
    BY MovedIs DEF Hauled
  <1>2. Runner \in Node /\ \A n \in Node : r.held[n] \subseteq s.held[n]
    BY DEF Hauled, Onward, Node
  <1>3. MovingTo(r, i, Runner) => MovingTo(s, i, Runner)
    BY HauledMoving
  <1> QED BY <1>1, <1>2, <1>3 DEF AtHand

\* s is f with the items W at hand and on their way.
LEMMA FlowAgain ==
    ASSUME NEW f, RunnerShaped(f), NEW W, W \subseteq Items(f.dag), FlowBut(f, W),
           NEW s, s.dag = f.dag, s.mode = f.mode, s.location = f.location,
           \A i \in Items(f.dag) : i \in W \/ AtHand(f, i) => AtHand(s, i),
           \A i \in Items(f.dag), n \in Node : Coming(f, i, n) => Coming(s, i, n),
           \A t \in Tasks(f.dag) : \A i \in Range(f.dag.tasks[t].inputs) :
             /\ i \in W /\ f.location[t] \in Resource
             /\ f.mode = "ViaMasterNode" => Awaited(f, i, f.location[t])
             => Coming(s, i, f.location[t])
    PROVE  FlowRight(s)
  <1>1. ASSUME s.mode \in {"ViaMasterNode", "Direct"}
        PROVE  Stored(s) /\ \A t \in Tasks(s.dag) : Waits(State(s.dag, t)) => Fed(s, t)
    <2>1. /\ \A i \in Items(f.dag) \ W : Made(f.dag, i) => AtHand(f, i)
          /\ \A t \in Tasks(f.dag) : Waits(State(f.dag, t)) => FedBut(f, t, W)
      BY <1>1 DEF FlowBut
    <2>2. Stored(s)
      BY <2>1, StoredIs
    <2>3. ASSUME NEW t \in Tasks(f.dag), Waits(State(f.dag, t)),
                 NEW i \in Range(f.dag.tasks[t].inputs)
          PROVE  Coming(s, i, f.location[t])
      <3>1. f.location[t] \in Resource /\ f.location[t] \in Node /\ FedBut(f, t, W)
        BY <2>1, <2>3 DEF FlowBut, Node
      <3>2. i \in Items(f.dag)
        <4>1. f.dag.tasks[t].inputs \in Seq(Items(f.dag))
          BY DEF RunnerShaped, GraphTyped, TaskTyped
        <4> QED BY <4>1 DEF Range
      <3>3. CASE i \in W
        <4>1. f.mode = "ViaMasterNode" => Awaited(f, i, f.location[t])
          BY <3>1, <3>3 DEF FedBut
        <4> QED BY <3>1, <3>3, <4>1
      <3>4. CASE i \notin W
        <4>1. Coming(f, i, f.location[t])
          BY <3>1, <3>4 DEF FedBut
        <4> QED BY <3>1, <3>2, <4>1
      <3> QED BY <3>3, <3>4
    <2>4. \A t \in Tasks(s.dag) : Waits(State(s.dag, t)) => Fed(s, t)
      BY <2>3 DEF Fed
    <2> QED BY <2>2, <2>4
  <1> QED BY <1>1 DEF FlowBut, FlowRight

\* Through the runner.
LEMMA ViaFlow ==
    ASSUME NEW f, RunnerShaped(f), f.mode = "ViaMasterNode", NEW W, W \subseteq Items(f.dag),
           FlowBut(f, W), NEW s, Hauled(s, f), \A i \in W : MovingTo(s, i, Runner)
    PROVE  FlowRight(s)
  <1>1. DOMAIN f = RunnerFields /\ Runner \in Node
    BY DEF RunnerShaped, Node
  <1>2. s.dag = f.dag /\ s.mode = f.mode /\ s.location = f.location
    BY <1>1, MovedIs DEF Hauled
  <1>3. \A i \in Items(f.dag) : i \in W \/ AtHand(f, i) => AtHand(s, i)
    <2>1. \A i \in W : AtHand(s, i)
      BY <1>2 DEF AtHand
    <2> QED BY <1>1, <2>1, HauledAtHand
  <1>4. \A i \in Items(f.dag), n \in Node : Coming(f, i, n) => Coming(s, i, n)
    BY <1>1, HauledComing
  <1>5. ASSUME NEW i \in W, NEW n \in Node, Awaited(f, i, n)
        PROVE  Coming(s, i, n)
    <2>1. f.held[n] \subseteq s.held[n]
      BY DEF Hauled, Onward
    <2>2. MovingTo(f, i, n) => MovingTo(s, i, n)
      BY HauledMoving
    <2>3. n \in Range(f.wanted[Runner][i]) => n \in Range(s.wanted[Runner][i]) \/ MovingTo(s, i, n)
      BY <1>1 DEF Hauled, Onward
    <2> QED BY <1>2, <1>5, <2>1, <2>2, <2>3 DEF Awaited, Coming
  <1>6. \A t \in Tasks(f.dag) : \A i \in Range(f.dag.tasks[t].inputs) :
          /\ i \in W /\ f.location[t] \in Resource
          /\ f.mode = "ViaMasterNode" => Awaited(f, i, f.location[t])
          => Coming(s, i, f.location[t])
    BY <1>5 DEF Node
  <1> QED BY ONLY RunnerShaped(f), W \subseteq Items(f.dag), FlowBut(f, W),
             <1>2, <1>3, <1>4, <1>6, FlowAgain

\* From where it was made.
LEMMA DirectFlow ==
    ASSUME NEW f, RunnerShaped(f), f.mode = "Direct", NEW x \in Node, NEW W, W \subseteq Items(f.dag),
           FlowBut(f, W), NEW e, Hauled(e, f), \A i \in W : i \in e.held[x],
           NEW v, v = [i \in DOMAIN e.at |-> IF i \in W THEN x ELSE e.at[i]],
           NEW l, l = [e EXCEPT !.at = v],
           NEW d, Hauled(d, l), \A i \in W : ReachingAll(d, i, x),
           NEW s, Hauled(s, d)
    PROVE  FlowRight(s)
  <1>1. DOMAIN f = RunnerFields /\ GraphTyped(f.dag) /\ Wired(f.dag)
        /\ f.at \in [Items(f.dag) -> Node \cup {Nowhere}]
    BY DEF RunnerShaped, FlowBut, GraphFlow
  <1>2. /\ DOMAIN e = RunnerFields /\ e.dag = f.dag /\ e.mode = f.mode /\ e.location = f.location
        /\ e.at = f.at
    BY <1>1, MovedIs DEF Hauled
  <1>3. /\ DOMAIN l = RunnerFields /\ l.dag = f.dag /\ l.mode = f.mode /\ l.location = f.location
        /\ l.at = v /\ l.held = e.held /\ l.wanted = e.wanted /\ l.moving = e.moving
    BY <1>2 DEF RunnerFields
  <1>4. DOMAIN d = RunnerFields /\ d.dag = f.dag /\ d.mode = f.mode /\ d.location = f.location
    BY ONLY <1>3, Hauled(d, l), MovedIs DEF Hauled
  <1>5. s.dag = f.dag /\ s.mode = f.mode /\ s.location = f.location
    BY <1>4, MovedIs DEF Hauled
  <1>6. \A n \in Node : e.held[n] \subseteq l.held[n] /\ l.held[n] \subseteq d.held[n]
                        /\ d.held[n] \subseteq s.held[n]
    BY <1>3 DEF Hauled, Onward
  <1>7. ASSUME NEW i \in Items(f.dag), i \in W \/ AtHand(f, i) PROVE AtHand(s, i)
    <2>1. AtHand(l, i)
      <3>1. CASE i \in W
        BY <1>1, <1>2, <1>3, <1>6, <3>1 DEF AtHand
      <3>2. CASE i \notin W
        <4>1. AtHand(e, i)
          BY <1>1, <1>7, <3>2, HauledAtHand
        <4>2. l.at[i] = e.at[i]
          BY <1>1, <1>2, <1>3, <3>2
        <4> QED BY <1>2, <1>3, <4>1, <4>2 DEF AtHand
      <3> QED BY <3>1, <3>2
    <2>2. AtHand(d, i)
      BY <1>3, <2>1, HauledAtHand
    <2> QED BY <1>4, <2>2, HauledAtHand
  <1>8. ASSUME NEW i \in Items(f.dag), NEW n \in Node, Coming(f, i, n) PROVE Coming(s, i, n)
    <2>1. Coming(e, i, n)
      BY <1>1, <1>8, HauledComing
    <2>2. Coming(l, i, n)
      <3>1. \A m : MovingTo(e, i, m) => MovingTo(l, i, m)
        BY <1>3 DEF MovingTo
      <3> QED BY <1>2, <1>3, <2>1, <3>1 DEF Coming
    <2>3. Coming(d, i, n)
      BY <1>3, <2>2, HauledComing
    <2> QED BY <1>4, <2>3, HauledComing
  <1>9. ASSUME NEW t \in Tasks(f.dag), NEW i \in Range(f.dag.tasks[t].inputs), i \in W,
               f.location[t] \in Resource
        PROVE  Coming(s, i, f.location[t])
    <2>1. t \in Range(f.dag.items[i].consumers)
      BY <1>1 DEF Wired
    <2>2. Reaching(d, i, x, t)
      BY <1>4, <1>9, <2>1 DEF ReachingAll
    <2>3. CASE f.location[t] = x
      BY <1>6, <1>9, <2>3 DEF Coming
    <2>4. CASE f.location[t] # x
      <3>1. MovingTo(d, i, f.location[t])
        BY <1>4, <1>9, <2>2, <2>4 DEF Reaching
      <3>2. MovingTo(s, i, f.location[t])
        BY <3>1, HauledMoving
      <3> QED BY <3>2 DEF Coming
    <2> QED BY <2>3, <2>4
  <1>10. /\ \A i \in Items(f.dag) : i \in W \/ AtHand(f, i) => AtHand(s, i)
         /\ \A i \in Items(f.dag), n \in Node : Coming(f, i, n) => Coming(s, i, n)
         /\ \A t \in Tasks(f.dag) : \A i \in Range(f.dag.tasks[t].inputs) :
              /\ i \in W /\ f.location[t] \in Resource
              /\ f.mode = "ViaMasterNode" => Awaited(f, i, f.location[t])
              => Coming(s, i, f.location[t])
    BY <1>7, <1>8, <1>9
  <1> QED BY ONLY RunnerShaped(f), W \subseteq Items(f.dag), FlowBut(f, W),
             <1>5, <1>10, FlowAgain

LEMMA FreedCores ==
    ASSUME NEW r, NEW A, NEW t, NEW x, NEW s, RunnerShaped(r), CoresRight(r),
           Back(r, A, t, x), Freed(s, r, t, x), IsFiniteSet(r.taskCores[t])
    PROVE  CoresRight(s)
  <1>1. PICK R : R = RunningAt(r, x)
    OBVIOUS
  <1>2. PICK K : K = r.taskCores[t]
    OBVIOUS
  <1>3. /\ t \in R /\ RunningAt(s, x) = R \ {t}
        /\ \A y \in Resource : y # x => RunningAt(s, y) = RunningAt(r, y)
    BY <1>1, FreedRuns
  <1>4. x \in Resource
    BY DEF Back
  <1>5. /\ r.free[x] = 1..Cores[x] \ UNION {r.taskCores[u] : u \in R}
        /\ \A u \in R : r.taskCores[u] \subseteq 1..Cores[x]
        /\ \A u, v \in R : u # v => r.taskCores[u] \cap r.taskCores[v] = {}
        /\ r.cores[x] = Cardinality(r.free[x])
    BY <1>1, <1>4 DEF CoresRight
  <1>6. s.taskCores = r.taskCores
    BY DEF Freed
  <1>7. s.free[x] = r.free[x] \cup K /\ \A y \in Resource : y # x => s.free[y] = r.free[y]
    BY <1>2, <1>4 DEF Freed, RunnerShaped
  <1>8. s.cores[x] = r.cores[x] + Cardinality(K) /\ \A y \in Resource : y # x => s.cores[y] = r.cores[y]
    BY <1>2, <1>4 DEF Freed, RunnerShaped
  <1>9. s.free[x] = 1..Cores[x] \ UNION {r.taskCores[u] : u \in R \ {t}}
    <2>1. ASSUME NEW k \in 1..Cores[x]
          PROVE  k \in s.free[x] <=> ~ \E u \in R \ {t} : k \in r.taskCores[u]
      <3>1. k \in r.free[x] <=> ~ \E u \in R : k \in r.taskCores[u]
        BY <1>5
      <3>2. k \in K => ~ \E u \in R \ {t} : k \in r.taskCores[u]
        BY <1>2, <1>3, <1>5
      <3>3. (\E u \in R : k \in r.taskCores[u]) <=> (k \in K \/ \E u \in R \ {t} : k \in r.taskCores[u])
        BY <1>2, <1>3
      <3> QED BY <1>7, <3>1, <3>2, <3>3
    <2>2. s.free[x] \subseteq 1..Cores[x]
      BY <1>2, <1>3, <1>5, <1>7
    <2> QED BY <2>1, <2>2
  <1>10. s.cores[x] = Cardinality(s.free[x])
    <2>1. IsFiniteSet(r.free[x]) /\ IsFiniteSet(K)
      BY <1>2, <1>4, CoresFinite
    <2>2. r.free[x] \cap K = {}
      BY <1>2, <1>3, <1>5
    <2>3. Cardinality(r.free[x] \cup K) = Cardinality(r.free[x]) + Cardinality(K) - Cardinality(r.free[x] \cap K)
      BY <2>1, FS_Union
    <2>4. Cardinality(r.free[x] \cap K) = 0
      BY <2>2, FS_EmptySet
    <2>5. Cardinality(r.free[x]) \in Nat /\ Cardinality(K) \in Nat
      BY <2>1, FS_CardinalityType
    <2> QED BY <1>5, <1>7, <1>8, <2>3, <2>4, <2>5
  <1>11. ASSUME NEW y \in Resource, y # x
         PROVE  /\ s.free[y] = 1..Cores[y] \ UNION {s.taskCores[u] : u \in RunningAt(s, y)}
                /\ \A u \in RunningAt(s, y) : s.taskCores[u] \subseteq 1..Cores[y]
                /\ \A u, v \in RunningAt(s, y) : u # v => s.taskCores[u] \cap s.taskCores[v] = {}
                /\ s.cores[y] = Cardinality(s.free[y])
    <2>1. RunningAt(s, y) = RunningAt(r, y)
      BY <1>3, <1>11
    <2> QED BY <1>6, <1>7, <1>8, <1>11, <2>1 DEF CoresRight
  <1>12. /\ \A u \in RunningAt(s, x) : s.taskCores[u] \subseteq 1..Cores[x]
         /\ \A u, v \in RunningAt(s, x) : u # v => s.taskCores[u] \cap s.taskCores[v] = {}
    BY <1>3, <1>5, <1>6
  <1>13. s.free[x] = 1..Cores[x] \ UNION {s.taskCores[u] : u \in RunningAt(s, x)}
    BY <1>3, <1>6, <1>9
  <1> QED BY <1>10, <1>11, <1>12, <1>13 DEF CoresRight

LEMMA FreedMemory ==
    ASSUME NEW r, NEW A, NEW t, NEW x, NEW s, RunnerShaped(r), MemoryRight(r),
           Back(r, A, t, x), Freed(s, r, t, x)
    PROVE  MemoryRight(s)
  <1>1. /\ t \in RunningAt(r, x) /\ RunningAt(s, x) = RunningAt(r, x) \ {t}
        /\ \A y \in Resource : y # x => RunningAt(s, y) = RunningAt(r, y)
    BY FreedRuns
  <1>2. t \in Tasks(r.dag) /\ x \in Resource
    BY DEF Back
  <1>3. MemoryOf(s.dag) = MemoryOf(r.dag)
    <2>1. Ended(s.dag, r.dag, t)
      BY FreedEnds
    <2> QED BY <2>1 DEF Ended, MemoryOf
  <1>4. /\ s.memory[x] = r.memory[x] + r.dag.tasks[t].memory
        /\ \A y \in Resource : y # x => s.memory[y] = r.memory[y]
    BY <1>2 DEF Freed, RunnerShaped
  <1>5. PICK f : f = MemoryOf(r.dag)
    OBVIOUS
  <1>6. /\ \A u \in Tasks(r.dag) : f[u] \in Nat
        /\ f[t] = r.dag.tasks[t].memory /\ f[t] \in Nat
    BY <1>2, <1>5, MemoryTyped DEF RunnerShaped
  <1>7. PICK R : R = RunningAt(r, x)
    OBVIOUS
  <1>8. IsFiniteSet(R) /\ (\A u \in R : f[u] \in Nat) /\ t \in R
    BY <1>1, <1>6, <1>7, RunningFinite
  <1>9. Total(f, R) = Total(f, R \ {t}) + f[t] /\ IsFiniteSet(R \ {t}) /\ Total(f, R \ {t}) \in Nat
    BY ONLY <1>8, TotalShrinks
  <1>10. r.memory[x] + Total(f, R) = Memory[x] /\ r.memory[x] \in Nat
    BY <1>2, <1>5, <1>7 DEF MemoryRight, RunnerShaped
  <1>11. s.memory[x] + Total(f, R \ {t}) = Memory[x]
    BY <1>4, <1>6, <1>9, <1>10
  <1>12. s.memory[x] + Total(MemoryOf(s.dag), RunningAt(s, x)) = Memory[x]
    BY <1>1, <1>3, <1>5, <1>7, <1>11
  <1>13. \A y \in Resource : y # x => s.memory[y] + Total(MemoryOf(s.dag), RunningAt(s, y)) = Memory[y]
    BY <1>1, <1>3, <1>4 DEF MemoryRight
  <1> QED BY <1>12, <1>13 DEF MemoryRight

LEMMA FreedPlaces ==
    ASSUME NEW r, NEW c, NEW A, NEW t, NEW x, NEW s, RunnerShaped(r), PlacesRight(r, c, A),
           DOMAIN c = Resource, Back(r, A, t, x), Freed(s, r, t, x)
    PROVE  PlacesRight(s, c, A \ {t})
  <1>1. Ended(s.dag, r.dag, t)
    BY FreedEnds
  <1>2. /\ s.requests = r.requests /\ s.location = r.location /\ s.taskCores = r.taskCores
        /\ RequestType(s.dag) = RequestType(r.dag) /\ Tasks(s.dag) = Tasks(r.dag)
    BY <1>1 DEF Freed, Ended, RequestType
  <1>3. t \in A
    BY DEF Back
  <1>4. ASSUME NEW q, RequestRight(r, q), q.task # t PROVE RequestRight(s, q)
    <2>1. q.task \in Tasks(r.dag)
      BY <1>4 DEF RequestRight, RequestType
    <2>2. State(s.dag, q.task) = "Running"
      BY <1>1, <1>4, <2>1 DEF RequestRight, Ended, Calm, Engaged
    <2> QED BY <1>1, <1>2, <1>4, <2>1, <2>2 DEF RequestRight, Ended
  <1>5. \A q \in ToSet(s.requests) : RequestRight(s, q)
    BY <1>2, <1>3, <1>4 DEF PlacesRight
  <1>6. \A y \in Resource : \A q \in c[y].running : RequestRight(s, q) /\ q.resource = y
    BY <1>3, <1>4 DEF PlacesRight
  <1>7. A \ {t} \subseteq Tasks(s.dag)
        /\ \A u \in A \ {t} : State(s.dag, u) = "Running" /\ s.location[u] \in Resource
    BY <1>1, <1>2 DEF PlacesRight, Ended, Calm, Engaged
  <1> QED BY <1>2, <1>5, <1>6, <1>7 DEF PlacesRight

LEMMA FreedComps ==
    ASSUME NEW r, NEW c, NEW A, NEW t, NEW x, NEW s, RunnerShaped(r), PlacesRight(r, c, A),
           CompsRight(r, c, A), Back(r, A, t, x), Freed(s, r, t, x),
           IsFiniteSet(r.taskCores[t]), CoresRight(r)
    PROVE  CompsRight(s, c, A \ {t})
  <1>1. Ended(s.dag, r.dag, t)
    BY FreedEnds
  <1>2. t \in A /\ t \in Tasks(r.dag) /\ x \in Resource /\ r.location[t] = x
    BY DEF Back
  <1>3. /\ CoresIn(s.dag) = CoresIn(r.dag) /\ MemoryIn(s.dag) = MemoryIn(r.dag)
        /\ MemoryOf(s.dag) = MemoryOf(r.dag) /\ CoresOf(s) = CoresOf(r)
    BY <1>1 DEF Ended, Freed, CoresIn, MemoryIn, RequestType, MemoryOf, CoresOf
  <1>4. /\ \A y \in Resource : AskedAt(s, y) = AskedAt(r, y)
        /\ AnsweredAt(s, A \ {t}, x) = AnsweredAt(r, A, x) \ {t} /\ t \in AnsweredAt(r, A, x)
        /\ \A y \in Resource : y # x => AnsweredAt(s, A \ {t}, y) = AnsweredAt(r, A, y)
    BY <1>2 DEF Freed, AskedAt, AnsweredAt
  <1>5. PICK f : f = CoresOf(r)
    OBVIOUS
  <1>6. PICK m : m = MemoryOf(r.dag)
    OBVIOUS
  <1>7. PICK Q : Q = AnsweredAt(r, A, x)
    OBVIOUS
  <1>8. IsFiniteSet(Q) /\ Q \subseteq RunningAt(r, x) /\ RunningAt(r, x) \subseteq Tasks(r.dag) /\ t \in Q
    BY <1>2, <1>4, <1>7, RequestsFinite, RunningFinite
  <1>9. (\A u \in Q : m[u] \in Nat) /\ m[t] = r.dag.tasks[t].memory
    BY <1>2, <1>6, <1>8, MemoryTyped DEF RunnerShaped
  <1>10. (\A u \in Q : f[u] \in Nat) /\ f[t] = Cardinality(r.taskCores[t])
    <2>1. Cores[x] \in Nat
      BY <1>2, ResourceAssumption DEF Resource
    <2>2. IsFiniteSet(1..Cores[x])
      BY <2>1, FS_Interval
    <2>3. \A u \in Q : r.taskCores[u] \subseteq 1..Cores[x]
      BY <1>2, <1>8 DEF CoresRight
    <2>4. \A u \in Q : Cardinality(r.taskCores[u]) \in Nat
      BY <2>2, <2>3, FS_Subset, FS_CardinalityType
    <2> QED BY <1>2, <1>5, <1>8, <2>4 DEF CoresOf
  <1>11. Total(f, Q) = Total(f, Q \ {t}) + f[t] /\ IsFiniteSet(Q \ {t}) /\ Total(f, Q \ {t}) \in Nat
    <2>1. IsFiniteSet(Q) /\ (\A u \in Q : f[u] \in Nat) /\ t \in Q
      BY <1>8, <1>10
    <2> QED BY ONLY <2>1, TotalShrinks
  <1>12. Total(m, Q) = Total(m, Q \ {t}) + m[t] /\ IsFiniteSet(Q \ {t}) /\ Total(m, Q \ {t}) \in Nat
    <2>1. IsFiniteSet(Q) /\ (\A u \in Q : m[u] \in Nat) /\ t \in Q
      BY <1>8, <1>9
    <2> QED BY ONLY <2>1, TotalShrinks
  <1>13. PICK p : p = Total(CoresIn(r.dag), AskedAt(r, x))
    OBVIOUS
  <1>14. PICK w : w = Total(MemoryIn(r.dag), AskedAt(r, x))
    OBVIOUS
  <1>15. p \in Nat /\ w \in Nat
    <2>1. IsFiniteSet(AskedAt(r, x)) /\ \A q \in AskedAt(r, x) :
            CoresIn(r.dag)[q] \in Nat /\ MemoryIn(r.dag)[q] \in Nat
      BY RequestsFinite, RequestTyped
    <2> QED BY <1>13, <1>14, <2>1, TotalTyped
  <1>16. c[x].cores = r.cores[x] + p + Total(f, Q) /\ c[x].memory = r.memory[x] + w + Total(m, Q)
    BY <1>2, <1>5, <1>6, <1>7, <1>13, <1>14 DEF CompsRight
  <1>17. /\ s.cores[x] = r.cores[x] + f[t] /\ s.memory[x] = r.memory[x] + m[t]
         /\ \A y \in Resource : y # x => s.cores[y] = r.cores[y] /\ s.memory[y] = r.memory[y]
    BY <1>2, <1>9, <1>10 DEF Freed, RunnerShaped
  <1>18. r.cores[x] \in Nat /\ r.memory[x] \in Nat /\ f[t] \in Nat /\ m[t] \in Nat
    BY <1>2, <1>8, <1>9, <1>10 DEF RunnerShaped
  <1>19. c[x].cores = s.cores[x] + p + Total(f, Q \ {t}) /\ c[x].memory = s.memory[x] + w + Total(m, Q \ {t})
    BY <1>11, <1>12, <1>15, <1>16, <1>17, <1>18
  <1>20. /\ c[x].cores = s.cores[x] + Total(CoresIn(s.dag), AskedAt(s, x))
                           + Total(CoresOf(s), AnsweredAt(s, A \ {t}, x))
         /\ c[x].memory = s.memory[x] + Total(MemoryIn(s.dag), AskedAt(s, x))
                           + Total(MemoryOf(s.dag), AnsweredAt(s, A \ {t}, x))
    BY <1>2, <1>3, <1>4, <1>5, <1>6, <1>7, <1>13, <1>14, <1>19
  <1>21. \A y \in Resource : y # x =>
         /\ c[y].cores = s.cores[y] + Total(CoresIn(s.dag), AskedAt(s, y))
                           + Total(CoresOf(s), AnsweredAt(s, A \ {t}, y))
         /\ c[y].memory = s.memory[y] + Total(MemoryIn(s.dag), AskedAt(s, y))
                           + Total(MemoryOf(s.dag), AnsweredAt(s, A \ {t}, y))
    BY <1>3, <1>4, <1>17 DEF CompsRight
  <1> QED BY <1>20, <1>21 DEF CompsRight

LEMMA FreedSound ==
    ASSUME NEW r, NEW c, NEW A, NEW t, NEW x, Sound(r, c, A), Back(r, A, t, x),
           NEW s, Freed(s, r, t, x)
    PROVE  Sound(s, c, A \ {t}) /\ Ended(s.dag, r.dag, t)
  <1>1. PICK n \in Nat : n = r.nextAction /\ RunnerRight(r, c, A, n)
    BY DEF Sound, RunnerSound
  <1>2. /\ RunnerShaped(r) /\ Supplied(r) /\ QueuesRight(r, n) /\ CoresRight(r) /\ MemoryRight(r)
        /\ PlacesRight(r, c, A) /\ CompsRight(r, c, A) /\ DOMAIN c = Resource
    BY <1>1 DEF RunnerRight, CompsRight
  <1>3. RunnerShaped(s) /\ Supplied(s) /\ IsFiniteSet(r.taskCores[t])
    BY <1>2, FreedShaped
  <1>4. QueuesRight(s, n)
    BY <1>2, FreedQueues
  <1>5. CoresRight(s) /\ MemoryRight(s) /\ PlacesRight(s, c, A \ {t}) /\ CompsRight(s, c, A \ {t})
    BY <1>2, <1>3, FreedCores, FreedMemory, FreedPlaces, FreedComps
  <1>6. RunnerRight(s, c, A \ {t}, n)
    BY <1>3, <1>4, <1>5 DEF RunnerRight
  <1>7. Ended(s.dag, r.dag, t)
    BY <1>2, FreedEnds
  <1>8. s.nextAction = n /\ s.actions = r.actions
    BY <1>1 DEF Freed
  <1>9. ActionType(s.dag) = ActionType(r.dag)
    BY <1>7, SameActions DEF Ended
  <1> QED BY <1>6, <1>7, <1>8, <1>9 DEF Sound, RunnerSound

\* The steps of on_task_completed, one by one.
LEMMA CompletedIs ==
    ASSUME NEW r, NEW t
    PROVE  LET x == r.location[t]
               w == r.dag.tasks[t].outputs
               f == FreeTask(r, t)
               e == IF r.mode = "ViaMasterNode" THEN f ELSE ArriveAll(f, x, w)
               l == [e EXCEPT !.at = [i \in DOMAIN @ |-> IF i \in ToSet(w) THEN x ELSE @[i]]]
               d == IF r.mode # "Direct" THEN e ELSE SendAll(l, x, w)
           IN TaskCompleted(r, t) = IF r.mode = "Manual" THEN d ELSE UploadAll(d, x, w)
  BY DEF TaskCompleted, ArriveAll, SendAll, UploadAll

LEMMA CompletedRight ==
    ASSUME NEW r, NEW c, NEW A, Sound(r, c, A), NEW t \in A, NEW s, s = TaskCompleted(r, t)
    PROVE  Sound(s, c, A \ {t}) /\ Restated(s.dag, r.dag) /\ (FlowRight(r) => FlowRight(s))
  <1>1. PICK x : x = r.location[t]
    OBVIOUS
  <1>2. PICK w : w = r.dag.tasks[t].outputs
    OBVIOUS
  <1>3. PICK f : f = FreeTask(r, t)
    OBVIOUS
  <1>4. PICK e : e = IF r.mode = "ViaMasterNode" THEN f ELSE ArriveAll(f, x, w)
    OBVIOUS
  <1>5. PICK v : v = [i \in DOMAIN e.at |-> IF i \in ToSet(w) THEN x ELSE e.at[i]]
    OBVIOUS
  <1>6. PICK l : l = [e EXCEPT !.at = v]
    OBVIOUS
  <1>7. PICK d : d = IF r.mode # "Direct" THEN e ELSE SendAll(l, x, w)
    OBVIOUS
  <1>8. s = IF r.mode = "Manual" THEN d ELSE UploadAll(d, x, w)
    BY <1>1, <1>2, <1>3, <1>4, <1>5, <1>6, <1>7, CompletedIs
  <1>9. Back(r, A, t, x) /\ x \in Node
    BY <1>1, SoundShaped DEF Back, Node, RunnerRight, PlacesRight
  <1>10. Freed(f, r, t, x)
    BY <1>1, <1>3, SoundShaped, FreeIs
  <1> DEFINE B == A \ {t}
  <1>11. Sound(f, c, B) /\ Ended(f.dag, r.dag, t)
    BY <1>9, <1>10, FreedSound
  <1> HIDE DEF B
  <1>12. PICK g : g = f.dag
    OBVIOUS
  <1>13. Restated(g, r.dag) /\ w \in Seq(Items(g)) /\ \A i \in Range(w) : Made(g, i)
    <2>1. t \in Tasks(r.dag) /\ GraphTyped(r.dag)
      BY <1>9, SoundShaped DEF Back
    <2>2. w \in Seq(Items(r.dag))
      BY <1>2, <2>1 DEF GraphTyped, TaskTyped
    <2>3. Items(g) = Items(r.dag)
      BY <1>11, <1>12 DEF Ended
    <2>4. \A i \in Range(w) : i \in Items(g)
      BY <2>2, <2>3 DEF Range
    <2> QED BY <1>2, <1>11, <1>12, <2>2, <2>3, <2>4 DEF Ended, Made
  <1>14. Sound(e, c, B) /\ e.dag = g
    <2>1. CASE r.mode = "ViaMasterNode"
      BY <1>4, <1>11, <1>12, <2>1
    <2>2. CASE r.mode # "ViaMasterNode"
      <3>1. RunnerShaped(f) /\ Supplied(f)
        BY <1>11, SoundShaped
      <3>2. e = ArriveAll(f, x, w)
        BY <1>4, <2>2
      <3>3. Hauled(e, f)
        BY <1>9, <1>12, <1>13, <3>1, <3>2, ArriveAllHauls
      <3> QED BY <1>11, <1>12, <3>3, HauledSound
    <2> QED BY <2>1, <2>2
  <1>15. Sound(l, c, B) /\ l.dag = g
    <2>1. v \in [Items(e.dag) -> Node \cup {Nowhere}]
      BY <1>5, <1>9, <1>14, SoundShaped
    <2> QED BY <1>6, <1>14, <2>1, PlacedSound
  <1>16. Sound(d, c, B) /\ d.dag = g
    <2>1. CASE r.mode # "Direct"
      BY <1>7, <1>14, <2>1
    <2>2. CASE r.mode = "Direct"
      <3>1. RunnerShaped(l) /\ Supplied(l)
        BY <1>15, SoundShaped
      <3>2. d = SendAll(l, x, w)
        BY <1>7, <2>2
      <3>3. Hauled(d, l)
        BY <1>9, <1>13, <1>15, <3>1, <3>2, SendAllHauls
      <3> QED BY <1>15, <3>3, HauledSound
    <2> QED BY <2>1, <2>2
  <1>17. Sound(s, c, B) /\ s.dag = g
    <2>1. CASE r.mode = "Manual"
      BY <1>8, <1>16, <2>1
    <2>2. CASE r.mode # "Manual"
      <3>1. RunnerShaped(d) /\ Supplied(d)
        BY <1>16, SoundShaped
      <3>2. s = UploadAll(d, x, w)
        BY <1>8, <2>2
      <3>3. Hauled(s, d)
        BY <1>9, <1>13, <1>16, <3>1, <3>2, UploadAllHauls
      <3> QED BY <1>16, <3>3, HauledSound
    <2> QED BY <2>1, <2>2
  <1>18. ASSUME FlowRight(r) PROVE FlowRight(s)
    <2>1. PICK W : W = Range(w)
      OBVIOUS
    <2>2. FlowBut(f, W)
      <3>1. RunnerShaped(r) /\ Back(r, A, t, x) /\ Freed(f, r, t, x) /\ W = Range(r.dag.tasks[t].outputs)
        BY <1>2, <1>9, <1>10, <2>1, SoundShaped
      <3> QED BY ONLY <1>18, <3>1, FreedFlow
    <2>3. /\ f.mode = r.mode /\ RunnerShaped(f) /\ Supplied(f) /\ DOMAIN f = RunnerFields
          /\ RunnerShaped(e) /\ Supplied(e) /\ RunnerShaped(l) /\ Supplied(l) /\ RunnerShaped(d) /\ Supplied(d)
      BY <1>10, <1>11, <1>14, <1>15, <1>16, SoundShaped DEF Freed
    <2>4. W \subseteq Items(f.dag) /\ w \in Seq(Items(g)) /\ \A i \in Range(w) : Made(g, i)
      BY <1>12, <1>13, <2>1 DEF Range
    <2>5. r.mode # "ViaMasterNode" => Hauled(e, f) /\ \A i \in W : i \in e.held[x]
      <3> SUFFICES ASSUME r.mode # "ViaMasterNode" PROVE Hauled(e, f) /\ \A i \in W : i \in e.held[x]
        OBVIOUS
      <3>1. e = ArriveAll(f, x, w)
        BY <1>4
      <3> QED BY ONLY <1>9, <1>12, <2>1, <2>3, <2>4, <3>1, ArriveAllHauls
    <2>6. r.mode = "Direct" => Hauled(d, l) /\ \A i \in W : ReachingAll(d, i, x)
      <3> SUFFICES ASSUME r.mode = "Direct" PROVE Hauled(d, l) /\ \A i \in W : ReachingAll(d, i, x)
        OBVIOUS
      <3>1. d = SendAll(l, x, w)
        BY <1>7
      <3>2. DOMAIN e = RunnerFields
        BY <2>3 DEF RunnerShaped
      <3>3. l.held = e.held
        BY <1>6, <3>2 DEF RunnerFields
      <3>4. \A i \in Range(w) : i \in l.held[x]
        BY <2>1, <2>5, <3>3
      <3> QED BY ONLY <1>9, <1>15, <2>1, <2>3, <2>4, <3>1, <3>4, SendAllHauls
    <2>7. r.mode # "Manual" => Hauled(s, d) /\ (d.mode = "ViaMasterNode" => \A i \in W : MovingTo(s, i, Runner))
      <3> SUFFICES ASSUME r.mode # "Manual"
                   PROVE  Hauled(s, d) /\ (d.mode = "ViaMasterNode" => \A i \in W : MovingTo(s, i, Runner))
        OBVIOUS
      <3>1. s = UploadAll(d, x, w)
        BY <1>8
      <3> QED BY ONLY <1>9, <1>16, <2>1, <2>3, <2>4, <3>1, UploadAllHauls
    <2>8. CASE r.mode = "ViaMasterNode"
      <3>1. d = f
        BY <1>4, <1>7, <2>8
      <3> QED BY ONLY <2>2, <2>3, <2>4, <2>7, <2>8, <3>1, ViaFlow
    <2>9. CASE r.mode = "Direct"
      <3>1. v = [i \in DOMAIN e.at |-> IF i \in W THEN x ELSE e.at[i]]
        <4>1. ToSet(w) = W
          BY <2>1 DEF ToSet, Range
        <4> QED BY <1>5, <4>1
      <3>2. Hauled(e, f) /\ (\A i \in W : i \in e.held[x]) /\ Hauled(d, l)
            /\ (\A i \in W : ReachingAll(d, i, x)) /\ Hauled(s, d) /\ f.mode = "Direct"
        BY <2>3, <2>5, <2>6, <2>7, <2>9
      <3> QED BY ONLY <1>6, <1>9, <2>2, <2>3, <2>4, <3>1, <3>2, DirectFlow
    <2>10. CASE r.mode \notin {"ViaMasterNode", "Direct"}
      <3>1. d = e /\ Hauled(e, f)
        BY <1>7, <2>5, <2>10
      <3>2. e.dag = f.dag /\ e.mode = f.mode /\ e.location = f.location /\ DOMAIN e = RunnerFields
        BY <2>3, <3>1, MovedIs DEF Hauled
      <3>3. s = d \/ Hauled(s, d)
        BY <1>8, <2>7
      <3>4. s.dag = f.dag /\ s.mode = f.mode /\ s.location = f.location
        BY <3>1, <3>2, <3>3, MovedIs DEF Hauled
      <3> QED BY <2>2, <2>3, <2>10, <3>4 DEF FlowBut, FlowRight
    <2> QED BY <2>8, <2>9, <2>10
  <1> QED BY <1>13, <1>17, <1>18 DEF B

-----------------------------------------------------------------------------
(* A transfer ends.                                                        *)

LEMMA QueueSound ==
    ASSUME NEW r, NEW c, NEW A, Sound(r, c, A), NEW x \in Resource,
           NEW s, s = ProcessResourceQueue(r, x)
    PROVE  Sound(s, c, A) /\ (FlowRight(r) => FlowRight(s))
  <1>1. PICK n \in Nat : n = r.nextAction /\ RunnerRight(r, c, A, n)
    BY DEF Sound, RunnerSound
  <1>2. RunnerRight(s, c, A, n) /\ Follows(s, r)
    BY <1>1, QueueProcessed
  <1>3. ActionType(s.dag) = ActionType(r.dag)
    BY <1>2, SameActions DEF Follows
  <1> QED BY <1>1, <1>2, <1>3 DEF Sound, RunnerSound, Follows

LEMMA MovedSound ==
    ASSUME NEW r, NEW c, NEW A, Sound(r, c, A), NEW s, Moved(s, r), Supplied(s)
    PROVE  Sound(s, c, A) /\ s.dag = r.dag
  <1>1. DOMAIN r = RunnerFields /\ r.at \in [Items(r.dag) -> Node \cup {Nowhere}]
    BY SoundShaped
  <1>2. Alike(s, r) /\ s.at = r.at /\ s.dag = r.dag /\ s.nextAction = r.nextAction
        /\ s.actions = r.actions
    BY <1>1, MovedIs DEF Alike
  <1> QED BY <1>1, <1>2, AlikeSound

\* s is r after a transfer of i to n is no longer under way.
Landed(s, r, i, n) ==
    /\ Moved(s, r) /\ Supplied(s) /\ s.held = r.held /\ s.wanted = r.wanted
    /\ \A j \in Items(r.dag), k \in Node : MovingTo(r, j, k) => MovingTo(s, j, k) \/ (j = i /\ k = n)

LEMMA TransferLands ==
    ASSUME NEW r, DOMAIN r = RunnerFields, Supplied(r), NEW m,
           NEW s, s = [r EXCEPT !.moving = @ (-) SetToBag({m})]
    PROVE  Landed(s, r, m.item, m.to)
  <1>1. PICK b : b = r.moving (-) SetToBag({m})
    OBVIOUS
  <1>2. s = [r EXCEPT !.moving = b]
    BY <1>1
  <1>3. Moved(s, r) /\ s.moving = b /\ s.held = r.held /\ s.wanted = r.wanted /\ s.dag = r.dag
    BY <1>2 DEF Moved, RunnerFields, DataFields
  <1>4. /\ IsABag(b) /\ BagToSet(b) \subseteq BagToSet(r.moving)
        /\ \A k \in BagToSet(r.moving) : k = m \/ k \in BagToSet(b)
    <2>1. PICK a : a = r.moving /\ IsABag(a)
      BY DEF Supplied
    <2>2. PICK a1 : a1 = [e \in DOMAIN a |-> IF e = m THEN a[e] - 1 ELSE a[e]]
      OBVIOUS
    <2>3. b = [e \in {d \in DOMAIN a1 : a1[d] > 0} |-> a1[e]]
      BY <1>1, <2>1, <2>2 DEF SetToBag, (-)
    <2> QED BY ONLY <2>1, <2>2, <2>3 DEF IsABag, BagToSet
  <1>6. Supplied(s)
    BY <1>3, <1>4 DEF Supplied
  <1>7. \A j \in Items(r.dag), k \in Node : MovingTo(r, j, k) => MovingTo(s, j, k) \/ (j = m.item /\ k = m.to)
    BY <1>3, <1>4 DEF MovingTo
  <1> QED BY <1>3, <1>6, <1>7 DEF Landed

\* The transfer has landed, and what it brings goes on.
LEMMA LandedFlow ==
    ASSUME NEW r, RunnerShaped(r), FlowRight(r), NEW i, Made(r.dag, i), NEW n \in Node,
           NEW e, Landed(e, r, i, n), NEW s, Hauled(s, e), i \in s.held[n],
           \A y \in Range(e.wanted[n][i]) : MovingTo(s, i, y)
    PROVE  FlowRight(s)
  <1>1. DOMAIN r = RunnerFields /\ Runner \in Node
    BY DEF RunnerShaped, Node
  <1>2. /\ DOMAIN e = RunnerFields /\ e.dag = r.dag /\ e.mode = r.mode /\ e.location = r.location
        /\ e.at = r.at /\ e.held = r.held /\ e.wanted = r.wanted
    BY <1>1, MovedIs DEF Landed
  <1>3. s.dag = r.dag /\ s.mode = r.mode /\ s.location = r.location /\ s.at = r.at
    BY <1>2, MovedIs DEF Hauled
  <1>4. \A k \in Node : r.held[k] \subseteq s.held[k]
    BY <1>2 DEF Hauled, Onward
  <1>5. ASSUME NEW j \in Items(r.dag), NEW k \in Node, MovingTo(r, j, k)
        PROVE  MovingTo(s, j, k) \/ j \in s.held[k]
    <2>1. MovingTo(e, j, k) \/ (j = i /\ k = n)
      BY <1>5 DEF Landed
    <2> QED BY <2>1, HauledMoving
  <1>6. ASSUME NEW j \in Items(r.dag), AtHand(r, j) PROVE AtHand(s, j)
    BY <1>1, <1>3, <1>4, <1>5, <1>6 DEF AtHand
  <1>7. ASSUME NEW j \in Items(r.dag), NEW k \in Node, Coming(r, j, k) PROVE Coming(s, j, k)
    <2>1. CASE j \in r.held[k] \/ MovingTo(r, j, k)
      BY <1>4, <1>5, <2>1 DEF Coming
    <2>2. CASE /\ r.mode = "ViaMasterNode" /\ k \in Range(r.wanted[Runner][j])
               /\ Made(r.dag, j) => MovingTo(r, j, Runner)
      <3>1. k \in Range(s.wanted[Runner][j]) \/ MovingTo(s, j, k)
        BY <1>1, <1>2, <2>2 DEF Hauled, Onward
      <3>2. CASE j = i /\ n = Runner
        <4>1. MovingTo(s, j, k)
          BY <1>2, <2>2, <3>2
        <4> QED BY <4>1 DEF Coming
      <3>3. CASE ~ (j = i /\ n = Runner)
        <4>1. MovingTo(r, j, Runner) => MovingTo(e, j, Runner)
          BY <1>1, <3>3 DEF Landed
        <4>2. MovingTo(e, j, Runner) => MovingTo(s, j, Runner)
          BY HauledMoving
        <4> QED BY <1>3, <2>2, <3>1, <4>1, <4>2 DEF Coming
      <3> QED BY <3>2, <3>3
    <2>3. CASE r.mode = "Direct" /\ ~ Made(r.dag, j)
      BY <1>3, <2>3 DEF Coming
    <2> QED BY <1>7, <2>1, <2>2, <2>3 DEF Coming
  <1>8. Stored(r) => Stored(s)
    BY <1>3, <1>6, StoredIs
  <1>9. ASSUME NEW t \in Tasks(r.dag), r.location[t] \in Resource, Fed(r, t) PROVE Fed(s, t)
    <2>1. \A j \in Range(r.dag.tasks[t].inputs) : j \in Items(r.dag)
      <3>1. r.dag.tasks[t].inputs \in Seq(Items(r.dag))
        BY DEF RunnerShaped, GraphTyped, TaskTyped
      <3> QED BY <3>1 DEF Range
    <2>2. PICK k \in Node : k = r.location[t]
      BY <1>9 DEF Node
    <2>3. \A j \in Range(r.dag.tasks[t].inputs) : Coming(s, j, k)
      BY <1>7, <1>9, <2>1, <2>2 DEF Fed
    <2> QED BY <1>3, <2>2, <2>3 DEF Fed
  <1> QED BY <1>3, <1>8, <1>9 DEF FlowRight

LEMMA TransferredRight ==
    ASSUME NEW r, NEW c, NEW A, Sound(r, c, A), NEW m \in BagToSet(r.moving),
           NEW s, s = TransferCompleted(r, m)
    PROVE  Sound(s, c, A) /\ (FlowRight(r) => FlowRight(s))
  <1>1. PICK e : e = [r EXCEPT !.moving = @ (-) SetToBag({m})]
    OBVIOUS
  <1>2. PICK i : i = m.item
    OBVIOUS
  <1>3. PICK n : n = m.to
    OBVIOUS
  <1>4. PICK here : here = Arrive(e, i, n)
    OBVIOUS
  <1>5. Made(r.dag, i) /\ n \in Node
    BY <1>2, <1>3, SoundShaped DEF Supplied, Made
  <1>6. Sound(e, c, A) /\ e.dag = r.dag /\ Landed(e, r, i, n)
    <2>1. DOMAIN r = RunnerFields /\ Supplied(r)
      BY SoundShaped
    <2>2. Landed(e, r, i, n)
      BY <1>1, <1>2, <1>3, <2>1, TransferLands
    <2> QED BY <2>2, MovedSound DEF Landed
  <1>7. Sound(here, c, A) /\ (FlowRight(r) => FlowRight(here))
    <2>1. DOMAIN e = RunnerFields /\ Supplied(e) /\ RunnerShaped(r)
      BY <1>6, SoundShaped
    <2>2. Hauled(here, e) /\ i \in here.held[n] /\ \A y \in Range(e.wanted[n][i]) : MovingTo(here, i, y)
      BY <1>4, <1>5, <1>6, <2>1, ArriveHauls
    <2>3. Sound(here, c, A)
      BY <1>6, <2>2, HauledSound
    <2>4. Made(r.dag, i) /\ n \in Node /\ Landed(e, r, i, n)
      BY <1>5, <1>6
    <2>5. FlowRight(r) => FlowRight(here)
      BY ONLY <2>1, <2>2, <2>4, LandedFlow
    <2> QED BY <2>3, <2>5
  <1>8. PICK q : q = IF n = Runner THEN here ELSE ProcessResourceQueue(here, n)
    OBVIOUS
  <1>9. Sound(q, c, A) /\ (FlowRight(here) => FlowRight(q))
    <2>1. CASE n = Runner
      BY <1>7, <1>8, <2>1
    <2>2. CASE n # Runner
      BY <1>5, <1>7, <1>8, <2>2, QueueSound DEF Node
    <2> QED BY <2>1, <2>2
  <1>10. s = CheckCompleted(q)
    BY <1>1, <1>2, <1>3, <1>4, <1>8 DEF TransferCompleted
  <1>11. Sound(s, c, A) /\ (FlowRight(q) => FlowRight(s))
    BY ONLY <1>9, <1>10, CheckedRight
  <1> QED BY <1>7, <1>9, <1>11

-----------------------------------------------------------------------------
(* The Compute of a resource.                                              *)

WithRequests(r, w) == [r EXCEPT !.requests = w]

\* Of the requests, only what is on its way changes.
LEMMA RequestsChange ==
    ASSUME NEW r, NEW n, DOMAIN r = RunnerFields, RunnerShaped(r), Supplied(r), QueuesRight(r, n),
           CoresRight(r), MemoryRight(r), NEW w, NEW s, s = WithRequests(r, w)
    PROVE  /\ RunnerShaped(s) /\ Supplied(s) /\ QueuesRight(s, n) /\ CoresRight(s) /\ MemoryRight(s)
           /\ s.dag = r.dag /\ s.requests = w /\ s.location = r.location
           /\ s.taskCores = r.taskCores /\ s.cores = r.cores /\ s.memory = r.memory
           /\ s.actions = r.actions /\ s.nextAction = r.nextAction
  <1>1. /\ DOMAIN s = RunnerFields /\ s.dag = r.dag /\ s.requests = w /\ s.location = r.location
        /\ s.taskCores = r.taskCores /\ s.cores = r.cores /\ s.memory = r.memory
        /\ s.actions = r.actions /\ s.nextAction = r.nextAction
        /\ s.queue = r.queue /\ s.free = r.free /\ s.held = r.held /\ s.wanted = r.wanted
        /\ s.moving = r.moving /\ s.at = r.at
    BY DEF WithRequests, RunnerFields
  <1>2. RunnerShaped(s)
    BY <1>1 DEF RunnerShaped
  <1>3. Supplied(s)
    BY <1>1 DEF Supplied
  <1>4. \A x : Entries(s, x) = Entries(r, x) /\ RunningAt(s, x) = RunningAt(r, x)
    BY <1>1 DEF Entries, RunningAt
  <1>5. QueuesRight(s, n)
    BY <1>1, <1>4 DEF QueuesRight
  <1>6. CoresRight(s) /\ MemoryRight(s)
    BY <1>1, <1>4 DEF CoresRight, MemoryRight
  <1> QED BY <1>1, <1>2, <1>3, <1>5, <1>6

\* The request at the head is gone.
LEMMA HeadRemoved ==
    ASSUME NEW S, NEW w \in Seq(S), w # <<>>,
           \A j, k \in 1..Len(w) : w[j].task = w[k].task => j = k
    PROVE  /\ Tail(w) \in Seq(S) /\ Head(w) \in S /\ Head(w) \in ToSet(w)
           /\ ToSet(Tail(w)) = ToSet(w) \ {Head(w)}
           /\ \A q \in ToSet(Tail(w)) : q.task # Head(w).task
           /\ \A j, k \in 1..Len(Tail(w)) : Tail(w)[j].task = Tail(w)[k].task => j = k
  <1>1. PICK v : v = Tail(w)
    OBVIOUS
  <1>2. /\ v \in Seq(S) /\ Len(w) \in Nat \ {0} /\ Len(v) = Len(w) - 1
        /\ \A k \in 1..Len(v) : v[k] = w[k + 1] /\ k + 1 \in 1..Len(w)
        /\ Head(w) = w[1] /\ 1 \in 1..Len(w) /\ w[1] \in S
    BY <1>1
  <1>3. DOMAIN v = 1..Len(v) /\ DOMAIN w = 1..Len(w)
    BY <1>2
  <1>4. \A q \in ToSet(v) : q \in ToSet(w) /\ q.task # w[1].task
    <2> TAKE q \in ToSet(v)
    <2>1. PICK k \in 1..Len(v) : q = v[k]
      BY <1>3 DEF ToSet
    <2>2. q = w[k + 1] /\ k + 1 \in 1..Len(w) /\ k + 1 # 1
      BY <1>2, <2>1
    <2> QED BY <1>2, <1>3, <2>2 DEF ToSet
  <1>5. \A q \in ToSet(w) : q = w[1] \/ q \in ToSet(v)
    <2> TAKE q \in ToSet(w)
    <2>1. PICK k \in 1..Len(w) : q = w[k]
      BY <1>3 DEF ToSet
    <2>2. CASE k = 1
      BY <2>1, <2>2
    <2>3. CASE k # 1
      <3>1. k - 1 \in 1..Len(v) /\ (k - 1) + 1 = k
        BY <1>2, <2>1, <2>3
      <3>2. v[k - 1] = q
        BY <1>2, <2>1, <3>1
      <3> QED BY <1>3, <3>1, <3>2 DEF ToSet
    <2> QED BY <2>2, <2>3
  <1>6. ToSet(v) = ToSet(w) \ {w[1]}
    BY <1>4, <1>5
  <1>7. \A j, k \in 1..Len(v) : v[j].task = v[k].task => j = k
    <2> TAKE j, k \in 1..Len(v)
    <2>1. v[j] = w[j + 1] /\ v[k] = w[k + 1] /\ j + 1 \in 1..Len(w) /\ k + 1 \in 1..Len(w)
      BY <1>2
    <2>2. w[j + 1].task = w[k + 1].task => j + 1 = k + 1
      BY <2>1
    <2> QED BY <1>2, <2>1, <2>2
  <1>8. w[1] \in ToSet(w)
    BY <1>2, <1>3 DEF ToSet
  <1> QED BY <1>1, <1>2, <1>4, <1>6, <1>7, <1>8

\* c with the cores, the memory and the computations of x changed.
WithComp(c, x, cores, memory, running) ==
    [c EXCEPT ![x] = [cores |-> cores, memory |-> memory, running |-> running]]

LEMMA WithCompIs ==
    ASSUME NEW c, DOMAIN c = Resource, NEW x \in Resource, NEW k, NEW m, NEW R,
           NEW d, d = WithComp(c, x, k, m, R)
    PROVE  /\ DOMAIN d = Resource /\ d[x].cores = k /\ d[x].memory = m /\ d[x].running = R
           /\ DOMAIN d[x] = {"cores", "memory", "running"}
           /\ \A y \in Resource : y # x => d[y] = c[y]
  BY DEF WithComp

\* What Compute has is what the runner counts on and what is on its way.
Served(r, c, A, q, x) ==
    LET f == CoresIn(r.dag)
        m == MemoryIn(r.dag)
        Q == AskedAt(r, x) \ {q}
        a == Total(CoresOf(r), AnsweredAt(r, A, x))
        b == Total(MemoryOf(r.dag), AnsweredAt(r, A, x))
    IN /\ x \in Resource /\ q.cores \in Nat /\ q.memory \in Nat
       /\ a \in Nat /\ b \in Nat /\ Total(f, Q) \in Nat /\ Total(m, Q) \in Nat
       /\ c[x].cores = r.cores[x] + Total(f, Q) + q.cores + a
       /\ c[x].memory = r.memory[x] + Total(m, Q) + q.memory + b
       /\ r.cores[x] \in Nat /\ r.memory[x] \in Nat

LEMMA RequestServed ==
    ASSUME NEW r, NEW c, NEW A, RunnerShaped(r), PlacesRight(r, c, A), CompsRight(r, c, A),
           CoresRight(r), NEW q \in ToSet(r.requests), NEW x, x = q.resource
    PROVE  Served(r, c, A, q, x)
  <1> DEFINE f == CoresIn(r.dag)
             m == MemoryIn(r.dag)
             P == AskedAt(r, x)
             B == AnsweredAt(r, A, x)
             a == Total(CoresOf(r), B)
             b == Total(MemoryOf(r.dag), B)
  <1>1. /\ q \in RequestType(r.dag) /\ x \in Resource /\ q.cores \in Nat /\ q.memory \in Nat
        /\ f[q] = q.cores /\ m[q] = q.memory
    BY RequestTyped DEF PlacesRight, RequestRight, RequestType
  <1>2. IsFiniteSet(P) /\ q \in P /\ (\A p \in P : f[p] \in Nat) /\ (\A p \in P : m[p] \in Nat)
    BY RequestsFinite, RequestTyped DEF AskedAt
  <1>3. a \in Nat /\ b \in Nat
    <2>1. IsFiniteSet(B) /\ B \subseteq RunningAt(r, x) /\ RunningAt(r, x) \subseteq Tasks(r.dag)
      BY RequestsFinite, RunningFinite
    <2>2. \A u \in B : MemoryOf(r.dag)[u] \in Nat
      BY <2>1, MemoryTyped DEF RunnerShaped
    <2>3. \A u \in B : CoresOf(r)[u] \in Nat
      <3>1. Cores[x] \in Nat
        BY <1>1, ResourceAssumption DEF Resource
      <3>2. IsFiniteSet(1..Cores[x])
        BY <3>1, FS_Interval
      <3>3. \A u \in B : r.taskCores[u] \subseteq 1..Cores[x]
        BY <1>1, <2>1 DEF CoresRight
      <3>4. \A u \in B : Cardinality(r.taskCores[u]) \in Nat
        BY <3>2, <3>3, FS_Subset, FS_CardinalityType
      <3> QED BY <2>1, <3>4 DEF CoresOf
    <2> HIDE DEF B
    <2> QED BY <2>1, <2>2, <2>3, TotalTyped
  <1>4. c[x].cores = r.cores[x] + Total(f, P) + a /\ c[x].memory = r.memory[x] + Total(m, P) + b
    BY <1>1 DEF CompsRight
  <1> HIDE DEF f, m, P, a, b
  <1>5. Total(f, P) = Total(f, P \ {q}) + f[q] /\ IsFiniteSet(P \ {q}) /\ Total(f, P \ {q}) \in Nat
    <2>1. IsFiniteSet(P) /\ (\A p \in P : f[p] \in Nat) /\ q \in P
      BY <1>2
    <2> QED BY ONLY <2>1, TotalShrinks
  <1>6. Total(m, P) = Total(m, P \ {q}) + m[q] /\ IsFiniteSet(P \ {q}) /\ Total(m, P \ {q}) \in Nat
    <2>1. IsFiniteSet(P) /\ (\A p \in P : m[p] \in Nat) /\ q \in P
      BY <1>2
    <2> QED BY ONLY <2>1, TotalShrinks
  <1>7. r.cores[x] \in Nat /\ r.memory[x] \in Nat
    BY <1>1 DEF RunnerShaped
  <1>8. /\ c[x].cores = r.cores[x] + Total(f, P \ {q}) + q.cores + a
        /\ c[x].memory = r.memory[x] + Total(m, P \ {q}) + q.memory + b
    BY <1>1, <1>3, <1>4, <1>5, <1>6, <1>7
  <1> QED BY <1>1, <1>3, <1>5, <1>6, <1>7, <1>8 DEF f, m, P, a, b, Served

\* The request q of r is gone in s.
Shorter(s, r, q) ==
    /\ s.dag = r.dag /\ s.location = r.location /\ s.taskCores = r.taskCores
    /\ s.cores = r.cores /\ s.memory = r.memory
    /\ s.requests \in Seq(RequestType(r.dag)) /\ q \in ToSet(r.requests)
    /\ ToSet(s.requests) = ToSet(r.requests) \ {q}
    /\ \A p \in ToSet(s.requests) : p.task # q.task
    /\ \A j, k \in 1..Len(s.requests) : s.requests[j].task = s.requests[k].task => j = k

\* It runs at its resource in d.
Granted(d, c, x, q) ==
    /\ DOMAIN d = Resource /\ DOMAIN d[x] = {"cores", "memory", "running"}
    /\ d[x].cores = c[x].cores - q.cores /\ d[x].memory = c[x].memory - q.memory
    /\ d[x].running = c[x].running \cup {q}
    /\ \A y \in Resource : y # x => d[y] = c[y]

LEMMA GrantedComps ==
    ASSUME NEW r, NEW c, NEW A, CompsRight(r, c, A), NEW q, NEW x, x = q.resource,
           Served(r, c, A, q, x), NEW s, Shorter(s, r, q), NEW d, Granted(d, c, x, q)
    PROVE  CompsRight(s, d, A) /\ c[x].memory >= q.memory /\ c[x].cores >= q.cores
  <1>1. PICK f : f = Total(CoresIn(r.dag), AskedAt(r, x) \ {q})
    OBVIOUS
  <1>2. PICK m : m = Total(MemoryIn(r.dag), AskedAt(r, x) \ {q})
    OBVIOUS
  <1>3. PICK a : a = Total(CoresOf(r), AnsweredAt(r, A, x))
    OBVIOUS
  <1>4. PICK b : b = Total(MemoryOf(r.dag), AnsweredAt(r, A, x))
    OBVIOUS
  <1>5. /\ x \in Resource /\ q.cores \in Nat /\ q.memory \in Nat
        /\ a \in Nat /\ b \in Nat /\ f \in Nat /\ m \in Nat
        /\ c[x].cores = r.cores[x] + f + q.cores + a
        /\ c[x].memory = r.memory[x] + m + q.memory + b
        /\ r.cores[x] \in Nat /\ r.memory[x] \in Nat
    BY <1>1, <1>2, <1>3, <1>4 DEF Served
  <1>6. /\ AskedAt(s, x) = AskedAt(r, x) \ {q}
        /\ \A y \in Resource : y # x => AskedAt(s, y) = AskedAt(r, y)
    BY DEF AskedAt, Shorter
  <1>7. \A y \in Resource : AnsweredAt(s, A, y) = AnsweredAt(r, A, y)
    BY DEF AnsweredAt, Shorter
  <1>8. CoresOf(s) = CoresOf(r) /\ s.dag = r.dag /\ s.cores = r.cores /\ s.memory = r.memory
    BY DEF CoresOf, Shorter
  <1>9. /\ DOMAIN d = Resource /\ DOMAIN d[x] = {"cores", "memory", "running"}
        /\ d[x].cores = c[x].cores - q.cores /\ d[x].memory = c[x].memory - q.memory
        /\ \A y \in Resource : y # x => d[y] = c[y]
    BY DEF Granted
  <1>10. d[x].cores = r.cores[x] + f + a /\ d[x].memory = r.memory[x] + m + b
    BY <1>5, <1>9
  <1>11. /\ d[x].cores = s.cores[x] + Total(CoresIn(s.dag), AskedAt(s, x))
                            + Total(CoresOf(s), AnsweredAt(s, A, x))
         /\ d[x].memory = s.memory[x] + Total(MemoryIn(s.dag), AskedAt(s, x))
                            + Total(MemoryOf(s.dag), AnsweredAt(s, A, x))
    BY <1>1, <1>2, <1>3, <1>4, <1>5, <1>6, <1>7, <1>8, <1>10
  <1>12. \A y \in Resource : y # x =>
            /\ DOMAIN d[y] = {"cores", "memory", "running"}
            /\ d[y].cores = s.cores[y] + Total(CoresIn(s.dag), AskedAt(s, y))
                              + Total(CoresOf(s), AnsweredAt(s, A, y))
            /\ d[y].memory = s.memory[y] + Total(MemoryIn(s.dag), AskedAt(s, y))
                              + Total(MemoryOf(s.dag), AnsweredAt(s, A, y))
    BY <1>6, <1>7, <1>8, <1>9 DEF CompsRight
  <1>13. CompsRight(s, d, A)
    BY <1>9, <1>11, <1>12 DEF CompsRight
  <1>14. c[x].memory >= q.memory /\ c[x].cores >= q.cores
    BY <1>5
  <1> QED BY <1>13, <1>14

LEMMA GrantedPlaces ==
    ASSUME NEW r, NEW c, NEW A, PlacesRight(r, c, A), NEW q, NEW x \in Resource, x = q.resource,
           NEW s, Shorter(s, r, q), NEW d, Granted(d, c, x, q)
    PROVE  PlacesRight(s, d, A)
  <1>1. \A p : RequestRight(s, p) <=> RequestRight(r, p)
    BY DEF RequestRight, Shorter
  <1>2. \A p \in ToSet(r.requests) : RequestRight(r, p) /\ p.task \notin A
          /\ \A y \in Resource : \A o \in c[y].running : o.task # p.task
    BY DEF PlacesRight
  <1>3. q \in ToSet(r.requests) /\ \A p \in ToSet(s.requests) : p \in ToSet(r.requests) /\ p.task # q.task
    BY DEF Shorter
  <1>4. \A y \in Resource : \A p \in d[y].running : p \in c[y].running \/ (p = q /\ y = x)
    BY DEF Granted
  <1>5. \A y \in Resource : \A p \in c[y].running :
          RequestRight(r, p) /\ p.resource = y /\ p.task \notin A
    BY DEF PlacesRight
  <1>6. \A y \in Resource : \A p \in d[y].running : RequestRight(s, p) /\ p.resource = y /\ p.task \notin A
    <2> TAKE y \in Resource
    <2> TAKE p \in d[y].running
    <2>1. CASE p \in c[y].running
      BY <1>1, <1>5, <2>1
    <2>2. CASE p = q /\ y = x
      BY <1>1, <1>2, <1>3, <2>2
    <2> QED BY <1>4, <2>1, <2>2
  <1>7. \A p \in ToSet(s.requests) : p.task \notin A /\ \A y \in Resource : \A o \in d[y].running : o.task # p.task
    BY <1>2, <1>3, <1>4
  <1>8. \A y \in Resource : \A p, o \in d[y].running : o.task = p.task => p = o
    <2> TAKE y \in Resource
    <2> TAKE p, o \in d[y].running
    <2>1. \A u \in c[y].running : u.task # q.task
      BY <1>2, <1>3
    <2>2. \A u, z \in c[y].running : z.task = u.task => u = z
      BY DEF PlacesRight
    <2> QED BY <1>4, <2>1, <2>2
  <1>9. A \subseteq Tasks(s.dag) /\ \A t \in A : State(s.dag, t) = "Running" /\ s.location[t] \in Resource
    BY DEF PlacesRight, Shorter
  <1>10. /\ s.requests \in Seq(RequestType(s.dag)) /\ \A p \in ToSet(s.requests) : RequestRight(s, p)
         /\ \A j, k \in 1..Len(s.requests) : s.requests[j].task = s.requests[k].task => j = k
    BY <1>1, <1>2, <1>3 DEF Shorter
  <1>11. \A y \in Resource : \A p \in d[y].running : RequestRight(s, p) /\ p.resource = y
    BY <1>6
  <1>12. \A y \in Resource : \A p \in d[y].running : p.task \notin A
    BY <1>6
  <1> QED BY ONLY <1>7, <1>8, <1>9, <1>10, <1>11, <1>12 DEF PlacesRight

LEMMA RequestGranted ==
    ASSUME NEW r, NEW c, NEW A, Sound(r, c, A), r.requests # <<>>,
           NEW q, q = Head(r.requests), NEW x, x = q.resource,
           NEW s, s = WithRequests(r, Tail(r.requests)),
           NEW d, d = WithComp(c, x, c[x].cores - q.cores, c[x].memory - q.memory,
                               c[x].running \cup {q})
    PROVE  Sound(s, d, A) /\ c[x].memory >= q.memory /\ c[x].cores >= q.cores
  <1>1. PICK n \in Nat : n = r.nextAction /\ RunnerRight(r, c, A, n)
    BY DEF Sound, RunnerSound
  <1>2. /\ RunnerShaped(r) /\ Supplied(r) /\ QueuesRight(r, n) /\ CoresRight(r) /\ MemoryRight(r)
        /\ PlacesRight(r, c, A) /\ CompsRight(r, c, A) /\ DOMAIN c = Resource /\ DOMAIN r = RunnerFields
    BY <1>1 DEF RunnerRight, CompsRight, RunnerShaped
  <1>3. PICK S : S = RequestType(r.dag)
    OBVIOUS
  <1>4. PICK w : w = r.requests /\ w \in Seq(S) /\ w # <<>>
                 /\ \A j, k \in 1..Len(w) : w[j].task = w[k].task => j = k
    BY <1>2, <1>3 DEF PlacesRight
  <1>5. /\ Tail(w) \in Seq(S) /\ Head(w) \in S /\ Head(w) \in ToSet(w)
        /\ ToSet(Tail(w)) = ToSet(w) \ {Head(w)}
        /\ \A p \in ToSet(Tail(w)) : p.task # Head(w).task
        /\ \A j, k \in 1..Len(Tail(w)) : Tail(w)[j].task = Tail(w)[k].task => j = k
    BY ONLY <1>4, HeadRemoved
  <1>6. PICK v : v = Tail(w)
    OBVIOUS
  <1>7. s = WithRequests(r, v)
    BY <1>4, <1>6
  <1>8. /\ RunnerShaped(s) /\ Supplied(s) /\ QueuesRight(s, n) /\ CoresRight(s) /\ MemoryRight(s)
        /\ s.dag = r.dag /\ s.requests = v /\ s.location = r.location
        /\ s.taskCores = r.taskCores /\ s.cores = r.cores /\ s.memory = r.memory
        /\ s.actions = r.actions /\ s.nextAction = r.nextAction
    BY ONLY <1>2, <1>7, RequestsChange
  <1>9. q = Head(w)
    BY <1>4
  <1>10. Shorter(s, r, q)
    BY ONLY <1>3, <1>4, <1>5, <1>6, <1>8, <1>9 DEF Shorter
  <1>11. PICK z : z = x /\ z = q.resource
    OBVIOUS
  <1>12. q \in ToSet(r.requests)
    BY ONLY <1>10 DEF Shorter
  <1>13. Served(r, c, A, q, z)
    BY ONLY <1>2, <1>11, <1>12, RequestServed
  <1>14. z \in Resource
    BY ONLY <1>13 DEF Served
  <1>15. PICK k : k = c[x].cores - q.cores
    OBVIOUS
  <1>16. PICK l : l = c[x].memory - q.memory
    OBVIOUS
  <1>17. PICK R : R = c[x].running \cup {q}
    OBVIOUS
  <1>18. d = WithComp(c, z, k, l, R)
    BY <1>11, <1>15, <1>16, <1>17
  <1>19. /\ DOMAIN d = Resource /\ d[z].cores = k /\ d[z].memory = l /\ d[z].running = R
         /\ DOMAIN d[z] = {"cores", "memory", "running"}
         /\ \A y \in Resource : y # z => d[y] = c[y]
    BY ONLY <1>2, <1>14, <1>18, WithCompIs
  <1>20. Granted(d, c, z, q)
    BY ONLY <1>11, <1>15, <1>16, <1>17, <1>19 DEF Granted
  <1>21. CompsRight(s, d, A) /\ c[z].memory >= q.memory /\ c[z].cores >= q.cores
    BY ONLY <1>2, <1>10, <1>11, <1>13, <1>20, GrantedComps
  <1>22. PlacesRight(s, d, A)
    BY ONLY <1>2, <1>10, <1>11, <1>14, <1>20, GrantedPlaces
  <1>23. RunnerRight(s, d, A, n)
    BY ONLY <1>8, <1>21, <1>22 DEF RunnerRight
  <1>24. Sound(s, d, A)
    BY <1>1, <1>8, <1>23 DEF Sound, RunnerSound
  <1> QED BY <1>11, <1>21, <1>24

LEMMA ComputationEnded ==
    ASSUME NEW r, NEW c, NEW A, Sound(r, c, A), NEW x \in Resource, NEW q \in c[x].running,
           NEW d, d = WithComp(c, x, c[x].cores + q.cores, c[x].memory + q.memory,
                               c[x].running \ {q})
    PROVE  Sound(r, d, A \cup {q.task})
  <1>1. PICK n \in Nat : n = r.nextAction /\ RunnerRight(r, c, A, n)
    BY DEF Sound, RunnerSound
  <1>2. /\ RunnerShaped(r) /\ Supplied(r) /\ QueuesRight(r, n) /\ CoresRight(r) /\ MemoryRight(r)
        /\ PlacesRight(r, c, A) /\ CompsRight(r, c, A) /\ DOMAIN c = Resource
    BY <1>1 DEF RunnerRight, CompsRight
  <1>3. PICK t : t = q.task
    OBVIOUS
  <1>4. /\ RequestRight(r, q) /\ q.resource = x /\ t \notin A /\ t \in Tasks(r.dag)
        /\ State(r.dag, t) = "Running" /\ r.location[t] = x
        /\ q.cores = Cardinality(r.taskCores[t]) /\ q.memory = r.dag.tasks[t].memory
        /\ q.cores \in Nat /\ q.memory \in Nat
    BY <1>2, <1>3 DEF PlacesRight, RequestRight, RequestType
  <1>5. PICK B : B = A \cup {t}
    OBVIOUS
  <1>6. PICK k : k = c[x].cores + q.cores
    OBVIOUS
  <1>7. PICK l : l = c[x].memory + q.memory
    OBVIOUS
  <1>8. PICK R : R = c[x].running \ {q}
    OBVIOUS
  <1>9. d = WithComp(c, x, k, l, R)
    BY <1>6, <1>7, <1>8
  <1>10. /\ DOMAIN d = Resource /\ d[x].cores = k /\ d[x].memory = l /\ d[x].running = R
         /\ DOMAIN d[x] = {"cores", "memory", "running"}
         /\ \A y \in Resource : y # x => d[y] = c[y]
    BY <1>2, <1>9, WithCompIs
  <1>11. PICK P : P = AnsweredAt(r, A, x)
    OBVIOUS
  <1>12. /\ AnsweredAt(r, B, x) = P \cup {t} /\ t \notin P
         /\ \A y \in Resource : y # x => AnsweredAt(r, B, y) = AnsweredAt(r, A, y)
    BY <1>4, <1>5, <1>11 DEF AnsweredAt
  <1>13. PICK f : f = CoresOf(r)
    OBVIOUS
  <1>14. PICK m : m = MemoryOf(r.dag)
    OBVIOUS
  <1>15. IsFiniteSet(P) /\ P \subseteq RunningAt(r, x) /\ RunningAt(r, x) \subseteq Tasks(r.dag)
    BY <1>2, <1>11, RequestsFinite, RunningFinite
  <1>16. (\A u \in P : m[u] \in Nat) /\ m[t] = q.memory /\ m[t] \in Nat
    BY <1>2, <1>4, <1>14, <1>15, MemoryTyped DEF RunnerShaped
  <1>17. (\A u \in P : f[u] \in Nat) /\ f[t] = q.cores /\ f[t] \in Nat
    <2>1. Cores[x] \in Nat
      BY ResourceAssumption DEF Resource
    <2>2. IsFiniteSet(1..Cores[x])
      BY <2>1, FS_Interval
    <2>3. \A u \in P : r.taskCores[u] \subseteq 1..Cores[x]
      BY <1>2, <1>15 DEF CoresRight
    <2>4. \A u \in P : Cardinality(r.taskCores[u]) \in Nat
      BY <2>2, <2>3, FS_Subset, FS_CardinalityType
    <2> QED BY <1>4, <1>13, <1>15, <2>4 DEF CoresOf
  <1>18. Total(f, P \cup {t}) = Total(f, P) + f[t] /\ Total(f, P) \in Nat
    <2>1. IsFiniteSet(P) /\ (\A u \in P : f[u] \in Nat) /\ t \notin P /\ f[t] \in Nat
      BY <1>12, <1>15, <1>17
    <2>2. Total(f, P \cup {t}) = Total(f, P) + f[t]
      BY ONLY <2>1, TotalGrows
    <2> QED BY <2>1, <2>2, TotalTyped
  <1>19. Total(m, P \cup {t}) = Total(m, P) + m[t] /\ Total(m, P) \in Nat
    <2>1. IsFiniteSet(P) /\ (\A u \in P : m[u] \in Nat) /\ t \notin P /\ m[t] \in Nat
      BY <1>12, <1>15, <1>16
    <2>2. Total(m, P \cup {t}) = Total(m, P) + m[t]
      BY ONLY <2>1, TotalGrows
    <2> QED BY <2>1, <2>2, TotalTyped
  <1>20. PICK a : a = Total(CoresIn(r.dag), AskedAt(r, x))
    OBVIOUS
  <1>21. PICK b : b = Total(MemoryIn(r.dag), AskedAt(r, x))
    OBVIOUS
  <1>22. a \in Nat /\ b \in Nat
    <2>1. IsFiniteSet(AskedAt(r, x)) /\ \A p \in AskedAt(r, x) :
            CoresIn(r.dag)[p] \in Nat /\ MemoryIn(r.dag)[p] \in Nat
      BY <1>2, RequestsFinite, RequestTyped
    <2> QED BY <1>20, <1>21, <2>1, TotalTyped
  <1>23. c[x].cores = r.cores[x] + a + Total(f, P) /\ c[x].memory = r.memory[x] + b + Total(m, P)
    BY <1>2, <1>11, <1>13, <1>14, <1>20, <1>21 DEF CompsRight
  <1>24. r.cores[x] \in Nat /\ r.memory[x] \in Nat
    BY <1>2 DEF RunnerShaped
  <1>25. k = r.cores[x] + a + Total(f, P \cup {t}) /\ l = r.memory[x] + b + Total(m, P \cup {t})
    BY <1>6, <1>7, <1>16, <1>17, <1>18, <1>19, <1>22, <1>23, <1>24
  <1>26. CompsRight(r, d, B)
    BY <1>2, <1>10, <1>11, <1>12, <1>13, <1>14, <1>20, <1>21, <1>25 DEF CompsRight
  <1>27. PlacesRight(r, d, B)
    <2>1. \A y \in Resource : \A p \in d[y].running : p \in c[y].running /\ p.task # t
      <3> TAKE y \in Resource
      <3> TAKE p \in d[y].running
      <3>1. CASE y = x
        BY <1>2, <1>3, <1>8, <1>10, <3>1 DEF PlacesRight
      <3>2. CASE y # x
        <4>1. p \in c[y].running
          BY <1>10, <3>2
        <4>2. r.location[p.task] = y
          BY <1>2, <4>1 DEF PlacesRight, RequestRight
        <4> QED BY <1>4, <3>2, <4>1, <4>2
      <3> QED BY <3>1, <3>2
    <2>2. \A p \in ToSet(r.requests) : p.task # t
      BY <1>2, <1>3 DEF PlacesRight
    <2>3. B \subseteq Tasks(r.dag) /\ \A u \in B : State(r.dag, u) = "Running" /\ r.location[u] \in Resource
      BY <1>2, <1>4, <1>5 DEF PlacesRight
    <2>4. \A p \in ToSet(r.requests) : p.task \notin B
      BY <1>2, <1>5, <2>2 DEF PlacesRight
    <2>5. \A y \in Resource : \A p \in d[y].running : p.task \notin B
      BY <1>2, <1>5, <2>1 DEF PlacesRight
    <2> QED BY ONLY <1>2, <2>1, <2>3, <2>4, <2>5 DEF PlacesRight
  <1>28. RunnerRight(r, d, B, n)
    BY <1>2, <1>26, <1>27 DEF RunnerRight
  <1> QED BY <1>1, <1>3, <1>5, <1>28 DEF Sound, RunnerSound

-----------------------------------------------------------------------------
(* The platform.                                                           *)

LEMMA NewTyped ==
    ASSUME NEW g, NewGraph(g)
    PROVE  /\ GraphTyped(g)
           /\ \A t \in Tasks(g) : ~ Engaged(State(g, t))
           /\ \A i \in Items(g) : ItemState(g, i) # "Ready"
  <1>1. /\ DOMAIN g = GraphFields /\ g.tasks \in Seq(ToSet(g.tasks))
        /\ \A t \in Tasks(g) : TaskTyped(g, t) /\ g.tasks[t].state \in {"Ready", "Pending"}
        /\ \A i \in Items(g) : ItemTyped(g, i) /\ g.items[i].state = "Pending"
    BY DEF NewGraph
  <1>2. GraphTyped(g)
    BY <1>1 DEF GraphTyped
  <1> QED BY <1>1, <1>2 DEF Engaged, State, ItemState

LEMMA NewFlow ==
    ASSUME NEW g, NewGraph(g)
    PROVE  /\ GraphFlow(g) /\ \A t \in Tasks(g) : ~ Waits(State(g, t))
           /\ \A i : ~ Made(g, i)
  <1>1. /\ Wired(g) /\ GraphTyped(g)
        /\ \A t \in Tasks(g) :
             /\ g.tasks[t].readyInputs = 0 /\ g.tasks[t].inputs \in Seq(Items(g))
             /\ g.tasks[t].state = IF g.tasks[t].inputs = <<>> THEN "Ready" ELSE "Pending"
        /\ \A i \in Items(g) : ItemState(g, i) = "Pending"
    BY NewTyped DEF NewGraph, TaskTyped, ItemState
  <1>2. PICK z : z = {} /\ Heard(g) = z
    <2>1. \A t : \A p \in Slots(g, t) : p[1] \in Items(g)
      BY SlotIs
    <2>2. \A p \in Heard(g) : p[1] \in Items(g) /\ ItemState(g, p[1]) = "Ready"
      BY <2>1 DEF Heard
    <2>3. Heard(g) = {}
      BY <1>1, <2>2
    <2> QED BY <2>3
  <1>3. ASSUME NEW t \in Tasks(g)
        PROVE  /\ g.tasks[t].readyInputs = Cardinality(Slots(g, t) \cap Heard(g))
               /\ Slots(g, t) \subseteq Heard(g) => Has(State(g, t))
               /\ ~ (Slots(g, t) \subseteq Heard(g)) => Lacks(State(g, t))
    <2>1. Slots(g, t) \cap Heard(g) = z /\ Cardinality(z) = 0
      BY <1>2, FS_EmptySet
    <2>2. IsFiniteSet(Slots(g, t)) /\ Cardinality(Slots(g, t)) = Len(g.tasks[t].inputs)
      BY <1>1 DEF Wired
    <2>3. Slots(g, t) \subseteq z <=> Cardinality(Slots(g, t)) = 0
      <3>1. Slots(g, t) = {} <=> Cardinality(Slots(g, t)) = 0
        BY <2>2, FS_EmptySet
      <3> QED BY <1>2, <3>1
    <2>4. Len(g.tasks[t].inputs) = 0 <=> g.tasks[t].inputs = <<>>
      <3>1. g.tasks[t].inputs \in Seq(Items(g))
        BY <1>1
      <3> QED BY <3>1
    <2>5. State(g, t) = IF g.tasks[t].inputs = <<>> THEN "Ready" ELSE "Pending"
      BY <1>1 DEF State
    <2>6. (Slots(g, t) \subseteq Heard(g)) <=> g.tasks[t].inputs = <<>>
      BY <1>2, <2>2, <2>3, <2>4
    <2>7. g.tasks[t].readyInputs = Cardinality(Slots(g, t) \cap Heard(g))
      BY <1>1, <2>1
    <2> QED BY <2>5, <2>6, <2>7 DEF Has, Lacks
  <1>4. Finished(g)
    BY <1>1 DEF Finished, State, Wired
  <1> QED BY <1>1, <1>3, <1>4 DEF GraphFlow, Counted, Waits, State, Made

LEMMA NewFlowRight ==
    ASSUME NEW g, NewGraph(g), NEW mode, NEW r, r = NewRunner(g, mode)
    PROVE  FlowRight(r)
  <1>1. r.dag = g
    BY DEF NewRunner
  <1> QED BY <1>1, NewFlow DEF FlowRight, Stored

LEMMA NewShaped ==
    ASSUME NEW g, NewGraph(g), NEW mode, NEW r, r = NewRunner(g, mode)
    PROVE  /\ DOMAIN r = RunnerFields /\ r.dag = g /\ r.nextAction = 0
           /\ RunnerShaped(r) /\ Supplied(r)
  <1>1. DOMAIN r = RunnerFields
    BY DEF NewRunner, RunnerFields
  <1>2. /\ r.dag = g /\ r.nextAction = 0
        /\ r.location = [t \in Tasks(g) |-> Nowhere] /\ r.taskCores = [t \in Tasks(g) |-> {}]
        /\ r.free = [x \in Resource |-> 1..Cores[x]] /\ r.cores = Cores /\ r.memory = Memory
        /\ r.at = [i \in Items(g) |-> Nowhere]
        /\ r.held = [n \in Node |-> {}] /\ r.wanted = [n \in Node |-> [i \in Items(g) |-> <<>>]]
        /\ r.moving = EmptyBag
    BY DEF NewRunner
  <1>3. GraphTyped(g) /\ GraphLive(g)
    BY NewTyped DEF GraphLive
  <1>4. Cores \in [Resource -> Nat] /\ Memory \in [Resource -> Nat]
    BY ResourceAssumption DEF Resource
  <1>5. r.free \in [Resource -> SUBSET Nat]
    <2>1. \A x \in Resource : 1..Cores[x] \in SUBSET Nat
      BY <1>4
    <2> QED BY <1>2, <2>1
  <1>6. RunnerShaped(r)
    BY <1>1, <1>2, <1>3, <1>4, <1>5 DEF RunnerShaped
  <1>7. BagToSet(r.moving) = {} /\ IsABag(r.moving)
    BY <1>2 DEF BagToSet, EmptyBag, SetToBag, IsABag
  <1>8. r.wanted \in [Node -> [Items(g) -> Seq(Node)]]
    <2>1. <<>> \in Seq(Node)
      OBVIOUS
    <2> QED BY <1>2, <2>1
  <1>9. Supplied(r)
    BY <1>2, <1>7, <1>8 DEF Supplied
  <1> QED BY <1>1, <1>2, <1>6, <1>9

LEMMA NewSound ==
    ASSUME NEW g, NewGraph(g), NEW mode, NEW r, r = NewRunner(g, mode),
           policy.name = "User" => UserDecisions \subseteq Seq(ActionType(g)),
           NEW c, c = [x \in Resource |-> NewComp(x)]
    PROVE  Sound(r, c, {})
  <1>1. /\ DOMAIN r = RunnerFields /\ r.dag = g /\ r.nextAction = 0
        /\ RunnerShaped(r) /\ Supplied(r)
    BY NewShaped
  <1>2. /\ r.queue = EmptyQueue /\ r.requests = <<>> /\ r.actions = <<>>
        /\ r.free = [x \in Resource |-> 1..Cores[x]] /\ r.cores = Cores /\ r.memory = Memory
    BY DEF NewRunner
  <1>3. \A x : RunningAt(r, x) = {}
    BY <1>1, NewTyped DEF RunningAt, Engaged
  <1>4. \A x : AskedAt(r, x) = {} /\ AnsweredAt(r, {}, x) = {}
    BY <1>2 DEF AskedAt, AnsweredAt, ToSet
  <1>5. \A x \in Resource : Entries(r, x) = {}
    BY <1>2 DEF Entries, EmptyQueue, Range
  <1>6. QueuesRight(r, 0)
    <2>1. <<>> \in Seq(EntryType(g))
      OBVIOUS
    <2>2. \A x \in Resource : r.queue[x] \in [1..Cores[x] -> Seq(EntryType(g))]
      BY <1>2, <2>1 DEF EmptyQueue
    <2>3. DOMAIN r.queue = Resource
      BY <1>2 DEF EmptyQueue
    <2> QED BY <1>1, <1>5, <2>2, <2>3 DEF QueuesRight
  <1>7. \A x \in Resource : Cores[x] \in Nat /\ Memory[x] \in Nat
    BY ResourceAssumption DEF Resource
  <1>8. CoresRight(r)
    <2> SUFFICES ASSUME NEW x \in Resource
                 PROVE  r.free[x] = 1..Cores[x] /\ r.cores[x] = Cardinality(1..Cores[x])
      BY <1>3 DEF CoresRight
    <2>1. Cardinality(1..Cores[x]) = Cores[x]
      BY <1>7, FS_Interval
    <2> QED BY <1>2, <2>1
  <1>0. PICK z : z = {} /\ \A f : Total(f, z) = 0
    BY TotalNone
  <1>a. \A x \in Resource : RunningAt(r, x) = z /\ AskedAt(r, x) = z /\ AnsweredAt(r, {}, x) = z
    BY <1>0, <1>3, <1>4
  <1>b. \A f : Total(f, z) = 0
    BY <1>0
  <1>9. MemoryRight(r)
    BY ONLY <1>2, <1>7, <1>a, <1>b DEF MemoryRight
  <1>10. \A x \in Resource : c[x].running = {} /\ c[x].cores = Cores[x] /\ c[x].memory = Memory[x]
                             /\ DOMAIN c[x] = {"cores", "memory", "running"}
    BY DEF NewComp
  <1>11. PlacesRight(r, c, {})
    <2>1. <<>> \in Seq(RequestType(g))
      OBVIOUS
    <2> QED BY <1>1, <1>2, <1>10, <2>1 DEF PlacesRight, ToSet
  <1>12. CompsRight(r, c, {})
    <2>1. DOMAIN c = Resource
      OBVIOUS
    <2> QED BY ONLY <1>2, <1>7, <1>10, <1>a, <1>b, <2>1 DEF CompsRight
  <1>13. RunnerRight(r, c, {}, 0)
    BY <1>1, <1>6, <1>8, <1>9, <1>11, <1>12 DEF RunnerRight
  <1>14. r.actions \in Seq(ActionType(g))
    <2>1. <<>> \in Seq(ActionType(g))
      OBVIOUS
    <2> QED BY <1>2, <2>1
  <1> QED BY <1>1, <1>13, <1>14 DEF Sound, RunnerSound

-----------------------------------------------------------------------------
BooksRight == Sound(runner, comps, answers) /\ FlowRight(runner) /\ failures = {}

\* What the scheduler is asked for is made of actions on the graph, however
\* unwise: at the start of the run, and after the tasks that have ended.
AnswersTyped ==
    /\ ~ runner.started /\ Static =>
         ActionsOf(Plan(runner.dag, runner.mode, policy))
           \in Seq(ActionType(BeginRun(runner).dag))
    /\ ~ runner.started /\ ~ Static =>
         \A b \in Decisions(BeginRun(runner)) : b.actions \in Seq(ActionType(BeginRun(runner).dag))
    /\ \A t \in answers : ~ Static =>
         \A b \in Decisions(TaskCompleted(runner, t)) :
           b.actions \in Seq(ActionType(TaskCompleted(runner, t).dag))

LEMMA UserDecides ==
    ASSUME policy.name = "User", NEW r
    PROVE  /\ ~ Static
           /\ \A b \in Decisions(r) : b.actions \in UserDecisions
  <1>1. ~ Static
    BY DEF Static
  <1>2. Decisions(r) = {[actions |-> s, memo |-> memo] : s \in UserDecisions}
    BY DEF Decisions
  <1> QED BY <1>1, <1>2

\* A scheduler of the user may answer anything.
LEMMA UserTyped ==
    ASSUME BooksRight, policy.name = "User"
    PROVE  AnswersTyped
  <1>1. Sound(runner, comps, answers) /\ ~ Static
    BY UserDecides DEF BooksRight
  <1>2. \A b \in Decisions(BeginRun(runner)) :
          b.actions \in Seq(ActionType(BeginRun(runner).dag))
    <2>1. PICK e : e = BeginRun(runner)
      OBVIOUS
    <2>2. Sound(e, comps, answers)
      BY <1>1, <2>1, BeginRight
    <2>3. UserDecisions \subseteq Seq(ActionType(e.dag))
      BY <2>2 DEF Sound
    <2> QED BY <2>1, <2>3, UserDecides
  <1>3. ASSUME NEW t \in answers
        PROVE  \A b \in Decisions(TaskCompleted(runner, t)) :
                 b.actions \in Seq(ActionType(TaskCompleted(runner, t).dag))
    <2>1. PICK e : e = TaskCompleted(runner, t)
      OBVIOUS
    <2>2. Sound(e, comps, answers \ {t})
      BY <1>1, <2>1, CompletedRight
    <2>3. UserDecisions \subseteq Seq(ActionType(e.dag))
      BY <2>2 DEF Sound
    <2> QED BY <2>1, <2>3, UserDecides
  <1> QED BY <1>1, <1>2, <1>3 DEF AnswersTyped

LEMMA RequestNumbers ==
    ASSUME NEW r, NEW c, NEW A, Sound(r, c, A), r.requests # <<>>,
           NEW q, q = Head(r.requests), NEW x, x = q.resource
    PROVE  /\ c[x].memory \in Nat /\ c[x].cores \in Nat
           /\ q.memory \in Nat /\ q.cores \in Nat
  <1>1. /\ RunnerShaped(r) /\ CoresRight(r) /\ PlacesRight(r, c, A) /\ CompsRight(r, c, A)
    BY DEF Sound, RunnerSound, RunnerRight
  <1>2. r.requests \in Seq(RequestType(r.dag))
    BY <1>1 DEF PlacesRight
  <1>3. q \in ToSet(r.requests)
    <2>1. PICK S : S = RequestType(r.dag)
      OBVIOUS
    <2>2. PICK w \in Seq(S) : w = r.requests /\ w # <<>>
      BY <1>2, <2>1
    <2>3. Head(w) = w[1] /\ 1 \in DOMAIN w
      BY <2>2
    <2> QED BY <2>2, <2>3 DEF ToSet
  <1>4. Served(r, c, A, q, x)
    BY ONLY <1>1, <1>3, x = q.resource, RequestServed
  <1>5. /\ q.cores \in Nat /\ q.memory \in Nat
        /\ \E k, m \in Nat : c[x].cores = k /\ c[x].memory = m
    BY ONLY <1>4 DEF Served
  <1> QED BY <1>5

LEMMA StartBooks ==
    ASSUME BooksRight, AnswersTyped, Start
    PROVE  BooksRight'
  <1>1. Sound(runner, comps, answers) /\ FlowRight(runner) /\ failures = {} /\ ~ runner.started
    BY DEF BooksRight, Start
  <1>2. PICK e : e = BeginRun(runner)
    OBVIOUS
  <1>3. PICK w \in Seq(ActionType(e.dag)) : runner' = CarryOut(e, w)
    <2>1. CASE StartStatic
      <3>1. Static /\ runner' = CarryOut(e, ActionsOf(Plan(runner.dag, runner.mode, policy)))
        BY <1>2, <2>1 DEF StartStatic
      <3> QED BY <1>1, <1>2, <3>1 DEF AnswersTyped
    <2>2. CASE StartDynamic
      <3>1. ~ Static /\ \E b \in Decisions(e) : runner' = CarryOut(e, b.actions)
        BY <1>2, <2>2 DEF StartDynamic
      <3> QED BY <1>1, <1>2, <3>1 DEF AnswersTyped
    <2> QED BY <2>1, <2>2 DEF Start
  <1>4. Sound(e, comps, answers) /\ FlowRight(e)
    BY <1>1, <1>2, BeginRight
  <1>5. Sound(runner', comps, answers) /\ FlowRight(runner')
    BY <1>3, <1>4, CarriedOut
  <1>6. comps' = comps /\ answers' = answers /\ failures' = failures /\ policy' = policy
    BY DEF Start
  <1> QED BY <1>1, <1>5, <1>6 DEF BooksRight, Sound

LEMMA RequestBooks ==
    ASSUME BooksRight, OnCompRequest
    PROVE  BooksRight'
  <1>1. Sound(runner, comps, answers) /\ FlowRight(runner) /\ failures = {}
    BY DEF BooksRight
  <1>2. PICK q : q = Head(runner.requests)
    OBVIOUS
  <1>3. PICK x : x = q.resource
    OBVIOUS
  <1>4. PICK d : d = WithComp(comps, x, comps[x].cores - q.cores, comps[x].memory - q.memory,
                              comps[x].running \cup {q})
    OBVIOUS
  <1>5. PICK s : s = WithRequests(runner, Tail(runner.requests))
    OBVIOUS
  <1>6. runner.requests # <<>>
    BY DEF OnCompRequest
  <1>7. Sound(s, d, answers) /\ comps[x].memory >= q.memory /\ comps[x].cores >= q.cores
    BY ONLY <1>1, <1>2, <1>3, <1>4, <1>5, <1>6, RequestGranted
  <1>8. runner' = s /\ answers' = answers /\ policy' = policy
    BY <1>5 DEF OnCompRequest, WithRequests
  <1>9. ~ (comps[x].memory < q.memory \/ comps[x].cores < q.cores)
    <2>1. /\ comps[x].memory \in Nat /\ comps[x].cores \in Nat /\ q.memory \in Nat /\ q.cores \in Nat
      BY <1>1, <1>2, <1>3, <1>6, RequestNumbers
    <2> QED BY <1>7, <2>1
  <1>10. comps' = d /\ failures' = failures
    BY <1>2, <1>3, <1>4, <1>9 DEF OnCompRequest, WithComp
  <1>11. FlowRight(s)
    <2>1. PICK w : w = Tail(runner.requests)
      OBVIOUS
    <2>2. DOMAIN runner = RunnerFields
      BY <1>1, SoundShaped
    <2>3. s = [runner EXCEPT !.requests = w]
      BY <1>5, <2>1 DEF WithRequests
    <2>4. /\ s.dag = runner.dag /\ s.mode = runner.mode /\ s.location = runner.location
          /\ s.held = runner.held /\ s.wanted = runner.wanted /\ s.at = runner.at
          /\ s.moving = runner.moving
      BY ONLY <2>2, <2>3 DEF RunnerFields
    <2>5. FlowRight(runner)
      BY <1>1
    <2> QED BY ONLY <2>4, <2>5, FlowSame
  <1> QED BY <1>1, <1>7, <1>8, <1>10, <1>11 DEF BooksRight, Sound

LEMMA FinishedBooks ==
    ASSUME BooksRight, NEW x \in Resource, OnCompFinished(x)
    PROVE  BooksRight'
  <1>1. Sound(runner, comps, answers) /\ FlowRight(runner) /\ failures = {}
    BY DEF BooksRight
  <1>2. PICK q \in comps[x].running :
          /\ comps' = WithComp(comps, x, comps[x].cores + q.cores, comps[x].memory + q.memory,
                               comps[x].running \ {q})
          /\ answers' = answers \cup {q.task}
    BY DEF OnCompFinished, WithComp
  <1>3. Sound(runner, comps', answers \cup {q.task})
    BY ONLY <1>1, <1>2, x \in Resource, ComputationEnded
  <1>4. runner' = runner /\ failures' = failures /\ policy' = policy
    BY DEF OnCompFinished
  <1> QED BY <1>1, <1>2, <1>3, <1>4 DEF BooksRight, Sound

LEMMA CompletedBooks ==
    ASSUME BooksRight, AnswersTyped, NEW t \in answers, OnTaskCompleted(t)
    PROVE  BooksRight'
  <1>1. Sound(runner, comps, answers) /\ FlowRight(runner) /\ failures = {}
    BY DEF BooksRight
  <1>2. PICK e : e = TaskCompleted(runner, t)
    OBVIOUS
  <1>3. PICK w \in Seq(ActionType(e.dag)) : runner' = CheckCompleted(CarryOut(e, w))
    <2>1. CASE Static
      <3>1. runner' = CheckCompleted(CarryOut(e, <<>>))
        BY <1>2, <2>1 DEF OnTaskCompleted
      <3>2. <<>> \in Seq(ActionType(e.dag))
        OBVIOUS
      <3> QED BY <3>1, <3>2
    <2>2. CASE ~ Static
      <3>1. \E b \in Decisions(e) : runner' = CheckCompleted(CarryOut(e, b.actions))
        BY <1>2, <2>2 DEF OnTaskCompleted
      <3> QED BY <1>2, <2>2, <3>1 DEF AnswersTyped
    <2> QED BY <2>1, <2>2
  <1>4. PICK B : B = answers \ {t}
    OBVIOUS
  <1>5. Sound(e, comps, B) /\ FlowRight(e)
    BY <1>1, <1>2, <1>4, CompletedRight
  <1>6. PICK g : g = CarryOut(e, w)
    OBVIOUS
  <1>7. Sound(g, comps, B) /\ FlowRight(g)
    BY <1>5, <1>6, CarriedOut
  <1>8. Sound(runner', comps, B) /\ FlowRight(runner')
    BY <1>3, <1>6, <1>7, CheckedRight
  <1>9. comps' = comps /\ answers' = B /\ failures' = failures /\ policy' = policy
    BY <1>4 DEF OnTaskCompleted
  <1> QED BY <1>1, <1>8, <1>9 DEF BooksRight, Sound

LEMMA TransferredBooks ==
    ASSUME BooksRight, NEW m \in BagToSet(runner.moving), OnDataTransferCompleted(m)
    PROVE  BooksRight'
  <1>1. Sound(runner, comps, answers) /\ FlowRight(runner) /\ failures = {}
    BY DEF BooksRight
  <1>2. /\ runner' = TransferCompleted(runner, m)
        /\ comps' = comps /\ answers' = answers /\ failures' = failures /\ policy' = policy
    BY DEF OnDataTransferCompleted
  <1>3. Sound(runner', comps, answers) /\ FlowRight(runner')
    BY <1>1, <1>2, TransferredRight
  <1> QED BY <1>1, <1>2, <1>3 DEF BooksRight, Sound

LEMMA StepBooks ==
    ASSUME BooksRight, AnswersTyped, [Next]_vars
    PROVE  BooksRight'
  <1>1. CASE Start
    BY <1>1, StartBooks
  <1>2. CASE ComputeStep
    BY <1>2, RequestBooks, FinishedBooks DEF ComputeStep
  <1>3. CASE RunnerStep
    BY <1>3, CompletedBooks, TransferredBooks DEF RunnerStep
  <1>4. CASE UNCHANGED vars
    BY <1>4 DEF vars, BooksRight, Sound
  <1> QED BY <1>1, <1>2, <1>3, <1>4 DEF Next

-----------------------------------------------------------------------------
\* The sums of the properties are those of the accounts.
MemoryTaken(g, S) == MapThenSumSet(LAMBDA t : g.tasks[t].memory, S)

LEMMA MemoryTakenIs ==
    ASSUME NEW g, NEW S, IsFiniteSet(S), S \subseteq Tasks(g),
           \A t \in S : g.tasks[t].memory \in Nat
    PROVE  MemoryTaken(g, S) = Total(MemoryOf(g), S)
  <1> DEFINE step(p) == [s \in SUBSET S |->
                IF s = {} THEN 0
                ELSE g.tasks[CHOOSE y \in s : TRUE].memory + p[s \ {CHOOSE y \in s : TRUE}]]
             iter == CHOOSE p : p = step(p)
  <1>1. MemoryTaken(g, S) = iter[S]
    BY DEF MemoryTaken, MapThenSumSet, MapThenFoldSet
  <1>2. PICK f : f = [t \in S |-> g.tasks[t].memory]
    OBVIOUS
  <1>3. f \in [S -> Nat] /\ f = [t \in S |-> MemoryOf(g)[t]]
    BY <1>2 DEF MemoryOf
  <1>4. \A p : step(p) = SumStep(f, S, p)
    BY <1>2 DEF SumStep
  <1>5. PICK count : count = [s \in SUBSET S |-> Cardinality(UnitsOf(f, s))]
    OBVIOUS
  <1>6. count = SumStep(f, S, count)
    BY <1>3, <1>5, SumStepCounts
  <1>7. iter = step(iter)
    <2>1. count = step(count)
      BY <1>4, <1>6
    <2> HIDE DEF step
    <2> QED BY <2>1
  <1> HIDE DEF iter, step
  <1>8. iter = SumStep(f, S, iter)
    BY <1>4, <1>7
  <1>9. iter[S] = SumFunction(f)
    BY <1>3, <1>8, SumStepUnique
  <1> QED BY <1>1, <1>3, <1>9 DEF Total

CoresTaken(r, S) == MapThenSumSet(LAMBDA t : Cardinality(r.taskCores[t]), S)

LEMMA CoresTakenIs ==
    ASSUME NEW r, NEW S, IsFiniteSet(S), S \subseteq Tasks(r.dag),
           \A t \in S : Cardinality(r.taskCores[t]) \in Nat
    PROVE  CoresTaken(r, S) = Total(CoresOf(r), S)
  <1> DEFINE step(p) == [s \in SUBSET S |->
                IF s = {} THEN 0
                ELSE Cardinality(r.taskCores[CHOOSE y \in s : TRUE]) + p[s \ {CHOOSE y \in s : TRUE}]]
             iter == CHOOSE p : p = step(p)
  <1>1. CoresTaken(r, S) = iter[S]
    BY DEF CoresTaken, MapThenSumSet, MapThenFoldSet
  <1>2. PICK f : f = [t \in S |-> Cardinality(r.taskCores[t])]
    OBVIOUS
  <1>3. f \in [S -> Nat] /\ f = [t \in S |-> CoresOf(r)[t]]
    BY <1>2 DEF CoresOf
  <1>4. \A p : step(p) = SumStep(f, S, p)
    BY <1>2 DEF SumStep
  <1>5. PICK count : count = [s \in SUBSET S |-> Cardinality(UnitsOf(f, s))]
    OBVIOUS
  <1>6. count = SumStep(f, S, count)
    BY <1>3, <1>5, SumStepCounts
  <1>7. iter = step(iter)
    <2>1. count = step(count)
      BY <1>4, <1>6
    <2> HIDE DEF step
    <2> QED BY <2>1
  <1> HIDE DEF iter, step
  <1>8. iter = SumStep(f, S, iter)
    BY <1>4, <1>7
  <1>9. iter[S] = SumFunction(f)
    BY <1>3, <1>8, SumStepUnique
  <1> QED BY <1>1, <1>3, <1>9 DEF Total

CoresAsked(S) == MapThenSumSet(LAMBDA q : q.cores, S)

LEMMA CoresAskedIs ==
    ASSUME NEW g, NEW S, IsFiniteSet(S), S \subseteq RequestType(g),
           \A q \in S : q.cores \in Nat
    PROVE  CoresAsked(S) = Total(CoresIn(g), S)
  <1> DEFINE step(p) == [s \in SUBSET S |->
                IF s = {} THEN 0
                ELSE (CHOOSE y \in s : TRUE).cores + p[s \ {CHOOSE y \in s : TRUE}]]
             iter == CHOOSE p : p = step(p)
  <1>1. CoresAsked(S) = iter[S]
    BY DEF CoresAsked, MapThenSumSet, MapThenFoldSet
  <1>2. PICK f : f = [q \in S |-> q.cores]
    OBVIOUS
  <1>3. f \in [S -> Nat] /\ f = [q \in S |-> CoresIn(g)[q]]
    BY <1>2 DEF CoresIn
  <1>4. \A p : step(p) = SumStep(f, S, p)
    BY <1>2 DEF SumStep
  <1>5. PICK count : count = [s \in SUBSET S |-> Cardinality(UnitsOf(f, s))]
    OBVIOUS
  <1>6. count = SumStep(f, S, count)
    BY <1>3, <1>5, SumStepCounts
  <1>7. iter = step(iter)
    <2>1. count = step(count)
      BY <1>4, <1>6
    <2> HIDE DEF step
    <2> QED BY <2>1
  <1> HIDE DEF iter, step
  <1>8. iter = SumStep(f, S, iter)
    BY <1>4, <1>7
  <1>9. iter[S] = SumFunction(f)
    BY <1>3, <1>8, SumStepUnique
  <1> QED BY <1>1, <1>3, <1>9 DEF Total

MemoryAsked(S) == MapThenSumSet(LAMBDA q : q.memory, S)

LEMMA MemoryAskedIs ==
    ASSUME NEW g, NEW S, IsFiniteSet(S), S \subseteq RequestType(g),
           \A q \in S : q.memory \in Nat
    PROVE  MemoryAsked(S) = Total(MemoryIn(g), S)
  <1> DEFINE step(p) == [s \in SUBSET S |->
                IF s = {} THEN 0
                ELSE (CHOOSE y \in s : TRUE).memory + p[s \ {CHOOSE y \in s : TRUE}]]
             iter == CHOOSE p : p = step(p)
  <1>1. MemoryAsked(S) = iter[S]
    BY DEF MemoryAsked, MapThenSumSet, MapThenFoldSet
  <1>2. PICK f : f = [q \in S |-> q.memory]
    OBVIOUS
  <1>3. f \in [S -> Nat] /\ f = [q \in S |-> MemoryIn(g)[q]]
    BY <1>2 DEF MemoryIn
  <1>4. \A p : step(p) = SumStep(f, S, p)
    BY <1>2 DEF SumStep
  <1>5. PICK count : count = [s \in SUBSET S |-> Cardinality(UnitsOf(f, s))]
    OBVIOUS
  <1>6. count = SumStep(f, S, count)
    BY <1>3, <1>5, SumStepCounts
  <1>7. iter = step(iter)
    <2>1. count = step(count)
      BY <1>4, <1>6
    <2> HIDE DEF step
    <2> QED BY <2>1
  <1> HIDE DEF iter, step
  <1>8. iter = SumStep(f, S, iter)
    BY <1>4, <1>7
  <1>9. iter[S] = SumFunction(f)
    BY <1>3, <1>8, SumStepUnique
  <1> QED BY <1>1, <1>3, <1>9 DEF Total

LEMMA BooksOf ==
    ASSUME BooksRight, NEW x \in Resource
    PROVE  LET running  == OnResource(x, {"Running"})
               asked    == {q \in ToSet(runner.requests) : q.resource = x}
               answered == {t \in answers : runner.location[t] = x}
           IN /\ runner.free[x] = 1..Cores[x] \ UNION {runner.taskCores[t] : t \in running}
              /\ \A t, u \in running : t # u => runner.taskCores[t] \cap runner.taskCores[u] = {}
              /\ runner.cores[x] = Cardinality(runner.free[x])
              /\ runner.memory[x] = Memory[x] - MemoryTaken(runner.dag, running)
              /\ comps[x].cores = runner.cores[x] + CoresAsked(asked) + CoresTaken(runner, answered)
              /\ comps[x].memory = runner.memory[x] + MemoryAsked(asked)
                                     + MemoryTaken(runner.dag, answered)
  <1>1. PICK r, c, A : r = runner /\ c = comps /\ A = answers
    OBVIOUS
  <1>2. /\ RunnerShaped(r) /\ CoresRight(r) /\ MemoryRight(r) /\ PlacesRight(r, c, A)
        /\ CompsRight(r, c, A)
    BY <1>1 DEF BooksRight, Sound, RunnerSound, RunnerRight
  <1>3. PICK R, Q, B : R = RunningAt(r, x) /\ Q = AskedAt(r, x) /\ B = AnsweredAt(r, A, x)
    OBVIOUS
  <1>4. /\ R = OnResource(x, {"Running"})
        /\ Q = {q \in ToSet(runner.requests) : q.resource = x}
        /\ B = {t \in answers : runner.location[t] = x}
    BY <1>1, <1>3 DEF RunningAt, AskedAt, AnsweredAt, OnResource, Task, State
  <1>5. /\ IsFiniteSet(R) /\ IsFiniteSet(Q) /\ IsFiniteSet(B)
        /\ R \subseteq Tasks(r.dag) /\ Q \subseteq RequestType(r.dag) /\ B \subseteq R
    BY <1>2, <1>3, RunningFinite, RequestsFinite
  <1>6. \A t \in Tasks(r.dag) : r.dag.tasks[t].memory \in Nat
    BY <1>2 DEF RunnerShaped, GraphTyped, TaskTyped
  <1>7. \A t \in R : Cardinality(r.taskCores[t]) \in Nat
    <2>1. Cores[x] \in Nat
      BY ResourceAssumption DEF Resource
    <2>2. IsFiniteSet(1..Cores[x])
      BY <2>1, FS_Interval
    <2>3. \A t \in R : r.taskCores[t] \subseteq 1..Cores[x]
      BY <1>2, <1>3 DEF CoresRight
    <2> QED BY <2>2, <2>3, FS_Subset, FS_CardinalityType
  <1>8. \A q \in Q : q.cores \in Nat /\ q.memory \in Nat
    BY <1>5 DEF RequestType
  <1>9. MemoryTaken(r.dag, R) = Total(MemoryOf(r.dag), R)
    BY <1>5, <1>6, MemoryTakenIs
  <1>10. MemoryTaken(r.dag, B) = Total(MemoryOf(r.dag), B)
    BY <1>5, <1>6, MemoryTakenIs
  <1>11. CoresTaken(r, B) = Total(CoresOf(r), B)
    BY <1>5, <1>7, CoresTakenIs
  <1>12. CoresAsked(Q) = Total(CoresIn(r.dag), Q) /\ MemoryAsked(Q) = Total(MemoryIn(r.dag), Q)
    <2>1. \A q \in Q : q.cores \in Nat
      BY <1>8
    <2>2. \A q \in Q : q.memory \in Nat
      BY <1>8
    <2>3. CoresAsked(Q) = Total(CoresIn(r.dag), Q)
      BY <1>5, <2>1, CoresAskedIs
    <2>4. MemoryAsked(Q) = Total(MemoryIn(r.dag), Q)
      BY <1>5, <2>2, MemoryAskedIs
    <2> QED BY <2>3, <2>4
  <1>13. /\ r.free[x] = 1..Cores[x] \ UNION {r.taskCores[t] : t \in R}
         /\ \A t, u \in R : t # u => r.taskCores[t] \cap r.taskCores[u] = {}
         /\ r.cores[x] = Cardinality(r.free[x])
    BY <1>2, <1>3 DEF CoresRight
  <1>14. r.memory[x] = Memory[x] - MemoryTaken(r.dag, R)
    <2>1. r.memory[x] + Total(MemoryOf(r.dag), R) = Memory[x] /\ r.memory[x] \in Nat
      BY <1>2, <1>3 DEF MemoryRight, RunnerShaped
    <2>2. Total(MemoryOf(r.dag), R) \in Nat
      <3>1. \A t \in R : MemoryOf(r.dag)[t] \in Nat
        BY <1>5, <1>6 DEF MemoryOf
      <3> QED BY <1>5, <3>1, TotalTyped
    <2> QED BY <1>9, <2>1, <2>2
  <1>15. /\ c[x].cores = r.cores[x] + CoresAsked(Q) + CoresTaken(r, B)
         /\ c[x].memory = r.memory[x] + MemoryAsked(Q) + MemoryTaken(r.dag, B)
    BY <1>2, <1>3, <1>10, <1>11, <1>12 DEF CompsRight
  <1> QED BY ONLY <1>1, <1>4, <1>13, <1>14, <1>15

LEMMA RightBooksAgree == BooksRight => BooksAgree
  BY BooksOf DEF BooksRight, BooksAgree, SumOver, Task, MemoryTaken, CoresTaken, CoresAsked,
                 MemoryAsked

LEMMA InitBooks == Init => BooksRight
  <1> SUFFICES ASSUME Init PROVE BooksRight
    OBVIOUS
  <1>1. PICK s \in Scenarios : /\ runner = NewRunner(AddInputOutputTasks(s[1]), s[2].mode)
                               /\ policy = s[2]
    BY DEF Init
  <1>2. PICK g : g = AddInputOutputTasks(s[1])
    OBVIOUS
  <1>3. NewGraph(g) /\ (policy.name = "User" => UserDecisions \subseteq Seq(ActionType(g)))
    BY <1>1, <1>2, ScenariosAssumption
  <1>4. comps = [x \in Resource |-> NewComp(x)] /\ answers = {} /\ failures = {}
    BY DEF Init
  <1>5. Sound(runner, comps, {}) /\ FlowRight(runner)
    BY <1>1, <1>2, <1>3, <1>4, NewSound, NewFlowRight
  <1> QED BY <1>4, <1>5 DEF BooksRight

\* The state of a task tells whether its inputs are made.
LEMMA StatesTell ==
    ASSUME NEW g, GraphTyped(g), GraphLive(g), GraphFlow(g), NEW t \in Tasks(g)
    PROVE  Has(State(g, t)) <=> \A u \in Producers(g, t) : State(g, u) = "Done"
  <1>1. Has(State(g, t)) <=> Slots(g, t) \subseteq Heard(g)
    BY DEF GraphFlow, Counted, Has, Lacks
  <1>2. Slots(g, t) \subseteq Heard(g)
          <=> \A i \in Range(g.tasks[t].inputs) : ItemState(g, i) = "Ready"
    BY InputsHeard DEF GraphFlow
  <1>3. \A i \in Range(g.tasks[t].inputs) :
          /\ g.items[i].producer \in Tasks(g)
          /\ ItemState(g, i) = "Ready" <=> State(g, g.items[i].producer) = "Done"
    <2>1. \A i \in Range(g.tasks[t].inputs) : i \in Items(g)
      <3>1. g.tasks[t].inputs \in Seq(Items(g))
        BY DEF GraphTyped, TaskTyped
      <3> QED BY <3>1 DEF Range
    <2> QED BY <2>1 DEF GraphFlow, Wired, Finished, GraphLive
  <1>4. Producers(g, t) = {g.items[i].producer : i \in Range(g.tasks[t].inputs)}
    <2>1. NoProducer \notin Tasks(g)
      <3>1. PICK S : g.tasks \in Seq(S)
        BY DEF GraphTyped
      <3> QED BY <3>1 DEF Tasks, NoProducer
    <2>2. ToSet(g.tasks[t].inputs) = Range(g.tasks[t].inputs)
      BY DEF ToSet, Range
    <2> QED BY <1>3, <2>1, <2>2 DEF Producers
  <1> QED BY <1>1, <1>2, <1>3, <1>4

\* What comes to x in one of the ways the runner knows.
LEMMA ComingIs ==
    ASSUME NEW r, RunnerShaped(r), FlowRight(r), r.mode \in {"ViaMasterNode", "Direct"},
           NEW i \in Items(r.dag), NEW x \in Node, Coming(r, i, x),
           NEW made, made <=> State(r.dag, r.dag.items[i].producer) = "Done"
    PROVE  \/ i \in r.held[x]
           \/ MovingTo(r, i, x)
           \/ /\ r.mode # "Direct"
              /\ \E n \in Node : x \in Range(r.wanted[n][i]) /\ (made => MovingTo(r, i, n))
           \/ r.mode = "Direct" /\ ~ made
  <1>1. made => Made(r.dag, i)
    BY DEF FlowRight, GraphFlow, Finished, Made
  <1>2. Runner \in Node
    BY DEF Node
  <1> QED BY <1>1, <1>2 DEF Coming

LEMMA RightFlows ==
    ASSUME BooksRight, runner.mode \in {"ViaMasterNode", "Direct"}
    PROVE  InputsOnTheirWay
  <1>1. PICK r, g : r = runner /\ g = r.dag
    OBVIOUS
  <1>2. /\ RunnerShaped(r) /\ Supplied(r) /\ FlowRight(r) /\ GraphTyped(g) /\ GraphLive(g)
        /\ GraphFlow(g) /\ r.mode \in {"ViaMasterNode", "Direct"}
    BY <1>1, SoundShaped DEF BooksRight, RunnerShaped, FlowRight
  <1>3. \A t : Task(t).state = State(g, t)
    BY <1>1 DEF Task, State
  <1>4. ASSUME NEW t \in Tasks(g)
        PROVE  Task(t).state \in {"Ready", "Runnable", "Running", "Done"} <=> Available(t)
    <2>1. Has(State(g, t)) <=> \A u \in Producers(g, t) : State(g, u) = "Done"
      BY <1>2, StatesTell
    <2> QED BY <1>1, <1>3, <2>1 DEF Has, Available
  <1>5. ASSUME NEW t \in Tasks(g), Task(t).state \in {"Scheduled", "Runnable"},
               NEW i \in ToSet(Task(t).inputs)
        PROVE  LET x == runner.location[t]
                   made == Task(runner.dag.items[i].producer).state = "Done"
               IN \/ i \in runner.held[x]
                  \/ Moving(i, x)
                  \/ /\ runner.mode # "Direct"
                     /\ \E n \in Node : /\ x \in ToSet(runner.wanted[n][i])
                                        /\ made => Moving(i, n)
                  \/ runner.mode = "Direct" /\ ~ made
    <2>1. PICK x : x = r.location[t]
      OBVIOUS
    <2>2. Waits(State(g, t)) /\ x \in Node /\ Fed(r, t)
      BY <1>1, <1>2, <1>3, <1>5, <2>1 DEF Waits, FlowRight, Node
    <2>3. i \in Range(g.tasks[t].inputs) /\ i \in Items(g)
      <3>1. g.tasks[t].inputs \in Seq(Items(g))
        BY <1>2 DEF GraphTyped, TaskTyped
      <3>2. i \in Range(g.tasks[t].inputs)
        BY <1>1, <1>5 DEF Task, ToSet, Range
      <3> QED BY <3>1, <3>2 DEF Range
    <2>4. Coming(r, i, x)
      BY <1>1, <2>1, <2>2, <2>3 DEF Fed
    <2>5. PICK made : made <=> State(g, g.items[i].producer) = "Done"
      OBVIOUS
    <2>6. \/ i \in r.held[x]
          \/ MovingTo(r, i, x)
          \/ /\ r.mode # "Direct"
             /\ \E n \in Node : x \in Range(r.wanted[n][i]) /\ (made => MovingTo(r, i, n))
          \/ r.mode = "Direct" /\ ~ made
      BY ONLY <1>1, <1>2, <2>2, <2>3, <2>4, <2>5, ComingIs
    <2>7. \A n : Moving(i, n) <=> MovingTo(r, i, n)
      BY <1>1 DEF Moving, MovingTo
    <2>8. \A n : ToSet(runner.wanted[n][i]) = Range(r.wanted[n][i])
      BY <1>1 DEF ToSet, Range
    <2>9. Task(runner.dag.items[i].producer).state = "Done" <=> made
      BY <1>1, <1>3, <2>5
    <2> QED BY <1>1, <2>1, <2>6, <2>7, <2>8, <2>9
  <1>6. ASSUME NEW n \in Node, NEW i \in runner.held[n]
        PROVE  Task(runner.dag.items[i].producer).state = "Done"
    <2>1. i \in Items(g) /\ ItemState(g, i) = "Ready"
      BY <1>1, <1>2, <1>6 DEF Supplied
    <2>2. State(g, g.items[i].producer) = "Done"
      BY <1>2, <2>1 DEF GraphFlow, Wired, GraphLive
    <2> QED BY <1>1, <1>3, <2>2
  <1> QED BY <1>1, <1>4, <1>5, <1>6 DEF InputsOnTheirWay

\* No task has been told of its last input but while it waited (dag.rs, the
\* panic! of update_data_item_state).
NoPanic == \A t \in Tasks(runner.dag) : Task(t).state # "Panic"

LEMMA RightIsCalm ==
    ASSUME BooksRight
    PROVE  NoPanic
  BY DEF BooksRight, FlowRight, GraphFlow, Counted, Has, Lacks, State, NoPanic, Task

\* The runner's count of cores and memory and that of each Compute differ exactly
\* by what is on its way between them, no request of the runner fails and no core
\* has two tasks, with every scheduler that answers with actions on tasks, items
\* and resources that there are, whether or not they can be carried out.
\* (runner.rs, which handles no CompFailed.)
THEOREM BooksAlwaysAgree == Spec /\ []AnswersTyped => []BooksAgree
  BY InitBooks, StepBooks, RightBooksAgree, PTL DEF Spec

\* The same for a scheduler of the user (the trait Scheduler), which may answer
\* any actions at any time: what it must never do, the runner refuses.
THEOREM UserBooksAgree ==
    ASSUME \A s \in Scenarios : s[2].name = "User"
    PROVE  Spec => []BooksAgree
  <1> DEFINE User == policy.name = "User"
  <1>1. Init => User
    BY DEF Init
  <1>2. User /\ [Next]_vars => User'
    BY DEF Next, vars, Start, ComputeStep, RunnerStep, OnCompRequest, OnCompFinished,
           OnTaskCompleted, OnDataTransferCompleted
  <1>3. BooksRight /\ User => AnswersTyped
    BY UserTyped
  <1> HIDE DEF User
  <1> QED BY <1>1, <1>2, <1>3, InitBooks, StepBooks, RightBooksAgree, PTL DEF Spec

\* An input a task waits for on its resource is there, is moving there, or is
\* wanted from where it is expected, and the state of each task tells whether
\* its inputs are made: in both modes in which the runner itself sends the data,
\* whatever actions the scheduler answers with, in whatever order data arrives.
\* (runner.rs, add_data_transfer_task, on_task_completed, on_data_transfer_completed.)
THEOREM InputsComeToTasks ==
    Spec /\ []AnswersTyped => [](runner.mode \in {"ViaMasterNode", "Direct"} => InputsOnTheirWay)
  <1>1. BooksRight => (runner.mode \in {"ViaMasterNode", "Direct"} => InputsOnTheirWay)
    BY RightFlows
  <1> QED BY <1>1, InitBooks, StepBooks, PTL DEF Spec

\* The same for a scheduler of the user, which may also transfer data at will.
THEOREM UserInputsComeToTasks ==
    ASSUME \A s \in Scenarios : s[2].name = "User"
    PROVE  Spec => [](runner.mode \in {"ViaMasterNode", "Direct"} => InputsOnTheirWay)
  <1> DEFINE User == policy.name = "User"
  <1>1. Init => User
    BY DEF Init
  <1>2. User /\ [Next]_vars => User'
    BY DEF Next, vars, Start, ComputeStep, RunnerStep, OnCompRequest, OnCompFinished,
           OnTaskCompleted, OnDataTransferCompleted
  <1>3. BooksRight /\ User => AnswersTyped
    BY UserTyped
  <1>4. BooksRight => (runner.mode \in {"ViaMasterNode", "Direct"} => InputsOnTheirWay)
    BY RightFlows
  <1> HIDE DEF User
  <1> QED BY <1>1, <1>2, <1>3, <1>4, InitBooks, StepBooks, PTL DEF Spec

\* The last input of a task is made while the task waits for it: the panic! of
\* update_data_item_state is never reached, in any mode. (dag.rs.)
THEOREM TasksNeverPanic == Spec /\ []AnswersTyped => []NoPanic
  BY InitBooks, StepBooks, RightIsCalm, PTL DEF Spec

=============================================================================
