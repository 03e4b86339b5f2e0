------------------------------ MODULE FaasProofs ------------------------------
(***************************************************************************)
(* Functions as a service, for any applications, traces, hosts, invokers   *)
(* and policies: every invocation is in one place, containers are          *)
(* accounted for, and nothing waits that could be served.                  *)
(*                                                                         *)
(* A handler is a fold over lists of invocations and containers: the       *)
(* reservations of a container, the queue of the invoker.  The invariant   *)
(* of a host, HostAt, therefore says what is true after every turn of      *)
(* these folds, of a host and two functions: k, what has become of each    *)
(* invocation, and b, in which container.  Each turn moves one invocation  *)
(* from one kind to another.  Between two events the kinds that only occur *)
(* within a handler are empty (Settled), and the queue has been served     *)
(* (Served).                                                               *)
(***************************************************************************)
EXTENDS FaasPlatform, FoldTheorems, SequenceTheorems

-----------------------------------------------------------------------------
(* Folds.  Each of the handlers' folds is a sequence of turns, and its result *)
(* the last host of the sequence.                                          *)

Tell(g, s) == CpuStart(Assign(g, s[1], "Running", s[2]), s[1], s[2])

Turn(v, t) ==
    CASE t.kind = "start"   -> StartInvocation(v, t.container, t.item)
      [] t.kind = "dequeue" -> DequeueItem(v, t.item)
      [] t.kind = "tell"    -> Tell(v, t.item)
      [] t.kind = "waiting" -> StartWaiting(v, t.item)
      [] t.kind = "emit"    -> Emit(v, InvocationEnd(t.item))

Turns(f, base, turns, n) ==
    f = [k \in 0..n |-> IF k = 0 THEN base ELSE Turn(f[k - 1], turns[k])]

LEMMA TurnsExist ==
    ASSUME NEW base, NEW turns, NEW n \in Nat
    PROVE  \E f : Turns(f, base, turns, n)
  <1> DEFINE F == {m \in 0..n : \E f : Turns(f, base, turns, m)}
  <1>1. 0 \in F
    <2>1. Turns([k \in 0..0 |-> base], base, turns, 0)
      BY DEF Turns
    <2> QED BY <2>1
  <1>2. ASSUME NEW m \in 1..n, m - 1 \in F
        PROVE  m \in F
    <2>1. PICK f : Turns(f, base, turns, m - 1)
      BY <1>2
    <2> DEFINE g == [k \in 0..m |-> IF k = m THEN Turn(f[m - 1], turns[m]) ELSE f[k]]
    <2>2. /\ f = [k \in 0..(m - 1) |-> IF k = 0 THEN base ELSE Turn(f[k - 1], turns[k])]
          /\ DOMAIN g = 0..m
      BY <2>1 DEF Turns
    <2>3. ASSUME NEW k \in 0..m
          PROVE  g[k] = IF k = 0 THEN base ELSE Turn(g[k - 1], turns[k])
      <3>1. CASE k = m
        BY <3>1
      <3>2. CASE k # m
        <4>1. k \in 0..(m - 1) /\ (k # 0 => k - 1 \in 0..m /\ k - 1 # m)
          BY <3>2
        <4>2. g[k] = f[k] /\ (k # 0 => g[k - 1] = f[k - 1])
          BY <3>2, <4>1
        <4>3. f[k] = IF k = 0 THEN base ELSE Turn(f[k - 1], turns[k])
          BY <2>2, <4>1
        <4> QED BY <4>2, <4>3
      <3> QED BY <3>1, <3>2
    <2>4. g = [k \in 0..m |-> IF k = 0 THEN base ELSE Turn(g[k - 1], turns[k])]
      <3> DEFINE e == [k \in 0..m |-> IF k = 0 THEN base ELSE Turn(g[k - 1], turns[k])]
      <3>1. DOMAIN e = 0..m /\ \A k \in 0..m : e[k] = g[k]
        BY <2>3
      <3>2. g = [k \in 0..m |-> g[k]] /\ e = [k \in 0..m |-> e[k]]
        OBVIOUS
      <3> HIDE DEF e, g
      <3>3. e = g
        BY <3>1, <3>2
      <3> QED BY <3>3 DEF e
    <2> HIDE DEF g
    <2>5. Turns(g, base, turns, m)
      BY <2>4 DEF Turns
    <2> QED BY <2>5
  <1> HIDE DEF F
  <1>3. \A k \in 0..n : k \in F
    BY <1>1, <1>2, PrefixInduction
  <1> QED BY <1>3 DEF F

StartAll(h, c, s) == Fold(LAMBDA g, i : StartInvocation(g, c, i), h, s)

LEMMA StartAllFolds ==
    ASSUME NEW h, NEW c, NEW S, NEW s \in Seq(S)
    PROVE  \E f : /\ f[0] = h
                  /\ \A k \in 1..Len(s) : f[k] = StartInvocation(f[k - 1], c, s[k])
                  /\ StartAll(h, c, s) = f[Len(s)]
  <1> DEFINE turns == [k \in 1..Len(s) |-> [kind |-> "start", container |-> c, item |-> s[k]]]
             T(f) == f = [n \in 0..Len(s) |-> IF n = 0 THEN h
                                                ELSE StartInvocation(f[n - 1], c, s[n])]
             f == CHOOSE f : T(f)
  <1>1. Len(s) \in Nat
    OBVIOUS
  <1>2. PICK g : Turns(g, h, turns, Len(s))
    BY <1>1, TurnsExist
  <1>3. \A k \in 1..Len(s) : \A v : Turn(v, turns[k]) = StartInvocation(v, c, s[k])
    BY DEF Turn
  <1>4. T(g)
    <2>1. \A k \in 0..Len(s) :
            (IF k = 0 THEN h ELSE Turn(g[k - 1], turns[k]))
              = (IF k = 0 THEN h ELSE StartInvocation(g[k - 1], c, s[k]))
      BY <1>3
    <2> HIDE DEF turns
    <2> QED BY <1>2, <2>1 DEF Turns
  <1>5. T(f)
    BY <1>4
  <1>6. StartAll(h, c, s) = f[Len(s)]
    BY DEF StartAll, Fold, Bind
  <1>7. /\ f[0] = h
        /\ \A k \in 1..Len(s) : f[k] = StartInvocation(f[k - 1], c, s[k])
    <2> HIDE DEF f
    <2> QED BY <1>1, <1>5
  <1> QED BY <1>6, <1>7

TryAll(acc, s) == Fold(DequeueItem, acc, s)

LEMMA TryAllFolds ==
    ASSUME NEW acc, NEW S, NEW s \in Seq(S)
    PROVE  \E f : /\ f[0] = acc
                  /\ \A k \in 1..Len(s) : f[k] = DequeueItem(f[k - 1], s[k])
                  /\ TryAll(acc, s) = f[Len(s)]
  <1> DEFINE turns == [k \in 1..Len(s) |-> [kind |-> "dequeue", item |-> s[k]]]
             T(f) == f = [n \in 0..Len(s) |-> IF n = 0 THEN acc
                                                ELSE DequeueItem(f[n - 1], s[n])]
             f == CHOOSE f : T(f)
  <1>1. Len(s) \in Nat
    OBVIOUS
  <1>2. PICK g : Turns(g, acc, turns, Len(s))
    BY <1>1, TurnsExist
  <1>3. \A k \in 1..Len(s) : \A v : Turn(v, turns[k]) = DequeueItem(v, s[k])
    BY DEF Turn
  <1>4. T(g)
    <2>1. \A k \in 0..Len(s) :
            (IF k = 0 THEN acc ELSE Turn(g[k - 1], turns[k]))
              = (IF k = 0 THEN acc ELSE DequeueItem(g[k - 1], s[k]))
      BY <1>3
    <2> HIDE DEF turns
    <2> QED BY <1>2, <2>1 DEF Turns
  <1>5. T(f)
    BY <1>4
  <1>6. TryAll(acc, s) = f[Len(s)]
    BY DEF TryAll, Fold, Bind
  <1>7. /\ f[0] = acc
        /\ \A k \in 1..Len(s) : f[k] = DequeueItem(f[k - 1], s[k])
    <2> HIDE DEF f
    <2> QED BY <1>1, <1>5
  <1> QED BY <1>6, <1>7

TellAll(h, s) == Fold(LAMBDA g, t : CpuStart(Assign(g, t[1], "Running", t[2]), t[1], t[2]), h, s)

LEMMA TellAllFolds ==
    ASSUME NEW h, NEW S, NEW s \in Seq(S)
    PROVE  \E f : /\ f[0] = h
                  /\ \A k \in 1..Len(s) : f[k] = Tell(f[k - 1], s[k])
                  /\ TellAll(h, s) = f[Len(s)]
  <1> DEFINE turns == [k \in 1..Len(s) |-> [kind |-> "tell", item |-> s[k]]]
             T(f) == f = [n \in 0..Len(s) |-> IF n = 0 THEN h
                                                ELSE Tell(f[n - 1], s[n])]
             f == CHOOSE f : T(f)
  <1>1. Len(s) \in Nat
    OBVIOUS
  <1>2. PICK g : Turns(g, h, turns, Len(s))
    BY <1>1, TurnsExist
  <1>3. \A k \in 1..Len(s) : \A v : Turn(v, turns[k]) = Tell(v, s[k])
    BY DEF Turn
  <1>4. T(g)
    <2>1. \A k \in 0..Len(s) :
            (IF k = 0 THEN h ELSE Turn(g[k - 1], turns[k]))
              = (IF k = 0 THEN h ELSE Tell(g[k - 1], s[k]))
      BY <1>3
    <2> HIDE DEF turns
    <2> QED BY <1>2, <2>1 DEF Turns
  <1>5. T(f)
    BY <1>4
  <1>6. TellAll(h, s) = f[Len(s)]
    BY DEF TellAll, Tell, Fold, Bind
  <1>7. /\ f[0] = h
        /\ \A k \in 1..Len(s) : f[k] = Tell(f[k - 1], s[k])
    <2> HIDE DEF f
    <2> QED BY <1>1, <1>5
  <1> QED BY <1>6, <1>7

EmitAll(h, s) == Fold(LAMBDA g, i : Emit(g, InvocationEnd(i)), h, s)

LEMMA EmitAllFolds ==
    ASSUME NEW h, NEW S, NEW s \in Seq(S)
    PROVE  \E f : /\ f[0] = h
                  /\ \A k \in 1..Len(s) : f[k] = Emit(f[k - 1], InvocationEnd(s[k]))
                  /\ EmitAll(h, s) = f[Len(s)]
  <1> DEFINE turns == [k \in 1..Len(s) |-> [kind |-> "emit", item |-> s[k]]]
             T(f) == f = [n \in 0..Len(s) |-> IF n = 0 THEN h
                                                ELSE Emit(f[n - 1], InvocationEnd(s[n]))]
             f == CHOOSE f : T(f)
  <1>1. Len(s) \in Nat
    OBVIOUS
  <1>2. PICK g : Turns(g, h, turns, Len(s))
    BY <1>1, TurnsExist
  <1>3. \A k \in 1..Len(s) : \A v : Turn(v, turns[k]) = Emit(v, InvocationEnd(s[k]))
    BY DEF Turn
  <1>4. T(g)
    <2>1. \A k \in 0..Len(s) :
            (IF k = 0 THEN h ELSE Turn(g[k - 1], turns[k]))
              = (IF k = 0 THEN h ELSE Emit(g[k - 1], InvocationEnd(s[k])))
      BY <1>3
    <2> HIDE DEF turns
    <2> QED BY <1>2, <2>1 DEF Turns
  <1>5. T(f)
    BY <1>4
  <1>6. EmitAll(h, s) = f[Len(s)]
    BY DEF EmitAll, Fold, Bind
  <1>7. /\ f[0] = h
        /\ \A k \in 1..Len(s) : f[k] = Emit(f[k - 1], InvocationEnd(s[k]))
    <2> HIDE DEF f
    <2> QED BY <1>1, <1>5
  <1> QED BY <1>6, <1>7

WakeAll(h, s) == Fold(StartWaiting, h, s)

LEMMA WakeAllFolds ==
    ASSUME NEW h, NEW S, NEW s \in Seq(S)
    PROVE  \E f : /\ f[0] = h
                  /\ \A k \in 1..Len(s) : f[k] = StartWaiting(f[k - 1], s[k])
                  /\ WakeAll(h, s) = f[Len(s)]
  <1> DEFINE turns == [k \in 1..Len(s) |-> [kind |-> "waiting", item |-> s[k]]]
             T(f) == f = [n \in 0..Len(s) |-> IF n = 0 THEN h
                                                ELSE StartWaiting(f[n - 1], s[n])]
             f == CHOOSE f : T(f)
  <1>1. Len(s) \in Nat
    OBVIOUS
  <1>2. PICK g : Turns(g, h, turns, Len(s))
    BY <1>1, TurnsExist
  <1>3. \A k \in 1..Len(s) : \A v : Turn(v, turns[k]) = StartWaiting(v, s[k])
    BY DEF Turn
  <1>4. T(g)
    <2>1. \A k \in 0..Len(s) :
            (IF k = 0 THEN h ELSE Turn(g[k - 1], turns[k]))
              = (IF k = 0 THEN h ELSE StartWaiting(g[k - 1], s[k]))
      BY <1>3
    <2> HIDE DEF turns
    <2> QED BY <1>2, <2>1 DEF Turns
  <1>5. T(f)
    BY <1>4
  <1>6. WakeAll(h, s) = f[Len(s)]
    BY DEF WakeAll, Fold, Bind
  <1>7. /\ f[0] = h
        /\ \A k \in 1..Len(s) : f[k] = StartWaiting(f[k - 1], s[k])
    <2> HIDE DEF f
    <2> QED BY <1>1, <1>5
  <1> QED BY <1>6, <1>7

\* The steps of the handlers, in the names used here.
LEMMA DequeueIs ==
    ASSUME NEW h
    PROVE  DequeueRequests(h) =
             Bind(TryAll([host |-> h, started |-> <<>>, kept |-> <<>>], h.queue),
                  LAMBDA acc : TellAll([acc.host EXCEPT !.queue = acc.kept], acc.started))
  BY DEF DequeueRequests, TryAll, TellAll

LEMMA DequeueUnbound ==
    ASSUME NEW h, NEW acc, acc = TryAll([host |-> h, started |-> <<>>, kept |-> <<>>], h.queue)
    PROVE  DequeueRequests(h) = TellAll([acc.host EXCEPT !.queue = acc.kept], acc.started)
  BY DequeueIs DEF Bind

-----------------------------------------------------------------------------
(* Lists without repetitions, and bags.                                    *)

LEMMA AppendDistinct ==
    ASSUME NEW S, NEW s \in Seq(S), NEW x \in S, IsInjective(s), x \notin Range(s)
    PROVE  /\ Append(s, x) \in Seq(S) /\ IsInjective(Append(s, x))
           /\ Range(Append(s, x)) = Range(s) \cup {x}
           /\ Len(Append(s, x)) = Len(s) + 1
  <1> DEFINE t == Append(s, x)
             n == Len(s)
  <1>1. /\ n \in Nat /\ DOMAIN s = 1..n /\ t \in Seq(S) /\ DOMAIN t = 1..(n + 1)
        /\ Len(t) = n + 1 /\ t[n + 1] = x /\ \A k \in 1..n : t[k] = s[k]
    OBVIOUS
  <1> HIDE DEF t, n
  <1>2. IsInjective(t)
    BY <1>1 DEF IsInjective, Range
  <1>3. Range(t) = Range(s) \cup {x}
    <2>1. \A k \in 1..(n + 1) : k \in 1..n \/ k = n + 1
      BY <1>1
    <2>2. n + 1 \in 1..(n + 1) /\ \A k \in 1..n : k \in 1..(n + 1)
      BY <1>1
    <2> QED BY <1>1, <2>1, <2>2 DEF Range
  <1> QED BY <1>1, <1>2, <1>3 DEF t, n

LEMMA EmptyDistinct == IsInjective(<<>>) /\ Range(<<>>) = {}
  BY DEF IsInjective, Range

LEMMA SwapRemoveDistinct ==
    ASSUME NEW S, NEW s \in Seq(S), NEW x, IsInjective(s)
    PROVE  /\ SwapRemove(s, x) \in Seq(S) /\ IsInjective(SwapRemove(s, x))
           /\ Range(SwapRemove(s, x)) = Range(s) \ {x}
  <1> DEFINE n == Len(s)
  <1>1. n \in Nat /\ DOMAIN s = 1..n /\ \A k \in 1..n : s[k] \in S
    OBVIOUS
  <1>2. CASE x \notin Range(s)
    <2>1. ~ \E k \in 1..n : s[k] = x
      BY <1>1, <1>2 DEF Range
    <2>2. SwapRemove(s, x) = s
      BY <2>1 DEF SwapRemove
    <2> QED BY <1>2, <2>2
  <1>3. CASE x \in Range(s)
    <2>1. PICK p \in 1..n : s[p] = x
      BY <1>1, <1>3 DEF Range
    <2> DEFINE t == [k \in 1..(n - 1) |-> IF s[k] = x THEN s[n] ELSE s[k]]
    <2>2. SwapRemove(s, x) = t
      BY <2>1 DEF SwapRemove
    <2>3. \A k \in 1..n : s[k] = x <=> k = p
      BY <1>1, <2>1 DEF IsInjective
    <2>4. n - 1 \in Nat /\ n \in 1..n /\ \A k \in 1..(n - 1) : k \in 1..n /\ k # n
      <3> HIDE DEF n
      <3>1. n \in Nat /\ n >= 1
        BY <1>1, <2>1
      <3> QED BY <3>1
    <2>5. /\ DOMAIN t = 1..(n - 1)
          /\ \A k \in 1..(n - 1) : t[k] = IF k = p THEN s[n] ELSE s[k]
      BY <2>3, <2>4
    <2>6. t \in Seq(S)
      <3>1. \A k \in 1..(n - 1) : t[k] \in S
        BY <1>1, <2>4, <2>5
      <3>2. t \in [1..(n - 1) -> S]
        BY <3>1
      <3> HIDE DEF t
      <3> QED BY <2>4, <3>2, SeqDef
    <2> HIDE DEF t, n
    <2>7. IsInjective(t)
      <3>1. ASSUME NEW j \in 1..(n - 1), NEW k \in 1..(n - 1), t[j] = t[k]
            PROVE  j = k
        <4>1. j \in 1..n /\ k \in 1..n /\ j # n /\ k # n /\ n \in 1..n
          BY <2>4
        <4>2. \A y, z \in 1..n : s[y] = s[z] => y = z
          BY <1>1 DEF IsInjective
        <4>3. t[j] = (IF j = p THEN s[n] ELSE s[j]) /\ t[k] = (IF k = p THEN s[n] ELSE s[k])
          BY <2>5
        <4> QED BY <3>1, <4>1, <4>2, <4>3
      <3> QED BY <2>5, <3>1 DEF IsInjective
    <2>8. Range(t) = Range(s) \ {x}
      <3>1. ASSUME NEW k \in 1..(n - 1) PROVE t[k] \in Range(s) \ {x}
        <4>1. k \in 1..n /\ n \in 1..n /\ k # n
          BY <2>4
        <4>2. CASE k = p
          BY <1>1, <2>3, <2>5, <4>1, <4>2 DEF Range
        <4>3. CASE k # p
          BY <1>1, <2>3, <2>5, <4>1, <4>3 DEF Range
        <4> QED BY <4>2, <4>3
      <3>2. ASSUME NEW k \in 1..n, s[k] # x PROVE \E j \in 1..(n - 1) : t[j] = s[k]
        <4>1. CASE k = n
          <5>1. p # n /\ p \in 1..(n - 1)
            BY <1>1, <2>1, <2>4, <3>2, <4>1
          <5> QED BY <2>5, <4>1, <5>1
        <4>2. CASE k # n
          <5>1. k \in 1..(n - 1) /\ k # p
            BY <1>1, <2>1, <2>4, <3>2, <4>2
          <5> QED BY <2>5, <5>1
        <4> QED BY <4>1, <4>2
      <3>3. Range(t) = {t[k] : k \in 1..(n - 1)} /\ Range(s) = {s[k] : k \in 1..n}
        BY <1>1, <2>5 DEF Range
      <3> QED BY <3>1, <3>2, <3>3
    <2> QED BY <2>2, <2>6, <2>7, <2>8
  <1> QED BY <1>2, <1>3

LEMMA TailDistinct ==
    ASSUME NEW S, NEW s \in Seq(S), s # <<>>, IsInjective(s)
    PROVE  /\ Tail(s) \in Seq(S) /\ IsInjective(Tail(s)) /\ Head(s) \in Range(s)
           /\ Range(Tail(s)) = Range(s) \ {Head(s)}
  <1> DEFINE t == Tail(s)
             n == Len(s)
  <1>1. /\ n \in Nat /\ n # 0 /\ DOMAIN s = 1..n /\ t \in Seq(S) /\ DOMAIN t = 1..(n - 1)
        /\ Head(s) = s[1] /\ \A k \in 1..(n - 1) : t[k] = s[k + 1]
    OBVIOUS
  <1> HIDE DEF t, n
  <1>2. /\ 1 \in 1..n /\ \A k \in 1..(n - 1) : k + 1 \in 1..n /\ k + 1 # 1
        /\ \A k \in 1..n : k # 1 => k - 1 \in 1..(n - 1) /\ k = (k - 1) + 1
    BY <1>1
  <1>3. \A j, k \in 1..n : s[j] = s[k] => j = k
    BY <1>1 DEF IsInjective
  <1>4. IsInjective(t)
    <2>1. ASSUME NEW j \in 1..(n - 1), NEW k \in 1..(n - 1), t[j] = t[k]
          PROVE  j = k
      <3>1. s[j + 1] = s[k + 1]
        BY <1>1, <2>1
      <3>2. j + 1 = k + 1
        BY <1>2, <1>3, <3>1
      <3> QED BY <3>2
    <2> QED BY <1>1, <2>1 DEF IsInjective
  <1>5. Range(t) = Range(s) \ {s[1]}
    <2>1. ASSUME NEW k \in 1..(n - 1) PROVE t[k] \in {s[j] : j \in 1..n} \ {s[1]}
      <3>1. k + 1 \in 1..n /\ 1 \in 1..n /\ k + 1 # 1 /\ t[k] = s[k + 1]
        BY <1>1, <1>2
      <3>2. s[k + 1] # s[1]
        BY <1>3, <3>1
      <3> QED BY <3>1, <3>2
    <2>2. ASSUME NEW k \in 1..n, s[k] # s[1] PROVE \E j \in 1..(n - 1) : t[j] = s[k]
      <3>1. k # 1
        BY <2>2
      <3>2. k - 1 \in 1..(n - 1) /\ t[k - 1] = s[k]
        BY <1>1, <1>2, <3>1
      <3> QED BY <3>2
    <2>3. Range(t) = {t[k] : k \in 1..(n - 1)} /\ Range(s) = {s[k] : k \in 1..n}
      BY <1>1 DEF Range
    <2> QED BY <2>1, <2>2, <2>3
  <1> QED BY <1>1, <1>2, <1>4, <1>5 DEF t, Range

LEMMA EmittedCopies ==
    ASSUME NEW B, IsABag(B), NEW e
    PROVE  /\ IsABag(B (+) SetToBag({e}))
           /\ \A f : Copies(f, B) \in Nat
           /\ \A f : Copies(f, B (+) SetToBag({e})) =
                       IF f = e THEN Copies(f, B) + 1 ELSE Copies(f, B)
  BY DEF IsABag, Copies, BagIn, BagToSet, SetToBag, (+)

LEMMA CancelledCopies ==
    ASSUME NEW B, IsABag(B), NEW e
    PROVE  /\ IsABag(B (-) SetToBag({e}))
           /\ \A f : Copies(f, B (-) SetToBag({e})) =
                       IF f = e /\ BagIn(f, B) THEN Copies(f, B) - 1 ELSE Copies(f, B)
           /\ \A f : BagIn(f, B) <=> Copies(f, B) > 0
  BY DEF IsABag, Copies, BagIn, BagToSet, SetToBag, (-)
-----------------------------------------------------------------------------
(* What the operations change: all the fields of a host, once and for all. *)

HostOf(cs, n, fr, fu, rs, ac, pd, cap, con, u, rg, iv, q) ==
    [containers |-> cs, next |-> n, free |-> fr, full |-> fu, reservations |-> rs,
     active |-> ac, pending |-> pd, capacity |-> cap, consumed |-> con, cpu |-> u,
     registry |-> rg, invoker |-> iv, queue |-> q]

IsHost(h) ==
    \E cs, n, fr, fu, rs, ac, pd, cap, con, u, rg, iv, q :
      h = HostOf(cs, n, fr, fu, rs, ac, pd, cap, con, u, rg, iv, q)

LEMMA HostIs ==
    ASSUME NEW cs, NEW n, NEW fr, NEW fu, NEW rs, NEW ac, NEW pd, NEW cap, NEW con,
           NEW u, NEW rg, NEW iv, NEW q
    PROVE  IsHost(HostOf(cs, n, fr, fu, rs, ac, pd, cap, con, u, rg, iv, q))
  BY Zenon DEF IsHost

SameBooks(g, h) ==
    /\ g.containers = h.containers /\ g.next = h.next /\ g.free = h.free /\ g.full = h.full
    /\ g.reservations = h.reservations /\ g.capacity = h.capacity /\ g.consumed = h.consumed

SameRegistry(g, h) ==
    /\ g.registry = h.registry /\ g.active = h.active /\ g.invoker = h.invoker
    /\ g.queue = h.queue

Emits(g, h, e) ==
    /\ IsHost(g) /\ SameBooks(g, h) /\ SameRegistry(g, h) /\ g.cpu = h.cpu
    /\ g.pending = h.pending (+) SetToBag({e})

LEMMA EmitDoes ==
    ASSUME NEW h, IsHost(h), NEW e
    PROVE  Emits(Emit(h, e), h, e)
  <1> SUFFICES ASSUME NEW g, g = Emit(h, e)
               PROVE  Emits(g, h, e)
    OBVIOUS
  <1>1. PICK cs, n, fr, fu, rs, ac, pd, cap, con, u, rg, iv, q :
          h = HostOf(cs, n, fr, fu, rs, ac, pd, cap, con, u, rg, iv, q)
    BY DEF IsHost
  <1>2. g = HostOf(cs, n, fr, fu, rs, ac, pd (+) SetToBag({e}), cap, con, u, rg, iv, q)
    BY <1>1 DEF HostOf, Emit
  <1>3. IsHost(g)
    BY <1>2, HostIs
  <1>4.   /\ h.containers = cs /\ h.next = n /\ h.free = fr /\ h.full = fu
        /\ h.reservations = rs /\ h.active = ac /\ h.pending = pd /\ h.capacity = cap
        /\ h.consumed = con /\ h.cpu = u /\ h.registry = rg /\ h.invoker = iv
        /\ h.queue = q
    BY <1>1 DEF HostOf
  <1>5.   /\ g.containers = cs /\ g.next = n /\ g.free = fr /\ g.full = fu
        /\ g.reservations = rs /\ g.active = ac /\ g.pending = pd (+) SetToBag({e})
        /\ g.capacity = cap /\ g.consumed = con /\ g.cpu = u /\ g.registry = rg
        /\ g.invoker = iv /\ g.queue = q
    BY <1>2 DEF HostOf
  <1> QED BY ONLY <1>3, <1>4, <1>5 DEF Emits, SameBooks, SameRegistry

Cancels(g, h, e) ==
    /\ IsHost(g) /\ SameBooks(g, h) /\ SameRegistry(g, h) /\ g.cpu = h.cpu
    /\ g.pending = h.pending (-) SetToBag({e})

LEMMA CancelDoes ==
    ASSUME NEW h, IsHost(h), NEW e
    PROVE  Cancels(Cancel(h, e), h, e)
  <1> SUFFICES ASSUME NEW g, g = Cancel(h, e)
               PROVE  Cancels(g, h, e)
    OBVIOUS
  <1>1. PICK cs, n, fr, fu, rs, ac, pd, cap, con, u, rg, iv, q :
          h = HostOf(cs, n, fr, fu, rs, ac, pd, cap, con, u, rg, iv, q)
    BY DEF IsHost
  <1>2. g = HostOf(cs, n, fr, fu, rs, ac, pd (-) SetToBag({e}), cap, con, u, rg, iv, q)
    BY <1>1 DEF HostOf, Cancel
  <1>3. IsHost(g)
    BY <1>2, HostIs
  <1>4.   /\ h.containers = cs /\ h.next = n /\ h.free = fr /\ h.full = fu
        /\ h.reservations = rs /\ h.active = ac /\ h.pending = pd /\ h.capacity = cap
        /\ h.consumed = con /\ h.cpu = u /\ h.registry = rg /\ h.invoker = iv
        /\ h.queue = q
    BY <1>1 DEF HostOf
  <1>5.   /\ g.containers = cs /\ g.next = n /\ g.free = fr /\ g.full = fu
        /\ g.reservations = rs /\ g.active = ac /\ g.pending = pd (-) SetToBag({e})
        /\ g.capacity = cap /\ g.consumed = con /\ g.cpu = u /\ g.registry = rg
        /\ g.invoker = iv /\ g.queue = q
    BY <1>2 DEF HostOf
  <1> QED BY ONLY <1>3, <1>4, <1>5 DEF Cancels, SameBooks, SameRegistry

Takes(g, h, e) ==
    /\ IsHost(g) /\ SameBooks(g, h) /\ SameRegistry(g, h)
    /\ g.pending = h.pending (-) SetToBag({e})
    /\ g.cpu = [h.cpu EXCEPT !.end = IF e = InvocationEnd(h.cpu.end) THEN 0 ELSE h.cpu.end]

LEMMA DeliveredDoes ==
    ASSUME NEW h, IsHost(h), NEW e
    PROVE  Takes(Delivered(h, e), h, e)
  <1> SUFFICES ASSUME NEW g, g = Delivered(h, e)
               PROVE  Takes(g, h, e)
    OBVIOUS
  <1>1. PICK cs, n, fr, fu, rs, ac, pd, cap, con, u, rg, iv, q :
          h = HostOf(cs, n, fr, fu, rs, ac, pd, cap, con, u, rg, iv, q)
    BY DEF IsHost
  <1>2. g = HostOf(cs, n, fr, fu, rs, ac, pd (-) SetToBag({e}), cap, con, [u EXCEPT !.end = IF e = InvocationEnd(u.end) THEN 0 ELSE u.end], rg, iv, q)
    BY <1>1 DEF HostOf, Delivered, NoInvocation
  <1>3. IsHost(g)
    BY <1>2, HostIs
  <1>4.   /\ h.containers = cs /\ h.next = n /\ h.free = fr /\ h.full = fu
        /\ h.reservations = rs /\ h.active = ac /\ h.pending = pd /\ h.capacity = cap
        /\ h.consumed = con /\ h.cpu = u /\ h.registry = rg /\ h.invoker = iv
        /\ h.queue = q
    BY <1>1 DEF HostOf
  <1>5.   /\ g.containers = cs /\ g.next = n /\ g.free = fr /\ g.full = fu
        /\ g.reservations = rs /\ g.active = ac /\ g.pending = pd (-) SetToBag({e})
        /\ g.capacity = cap /\ g.consumed = con
        /\ g.cpu = [u EXCEPT !.end = IF e = InvocationEnd(u.end) THEN 0 ELSE u.end]
        /\ g.registry = rg /\ g.invoker = iv /\ g.queue = q
    BY <1>2 DEF HostOf
  <1> QED BY ONLY <1>3, <1>4, <1>5 DEF Takes, SameBooks, SameRegistry

NewContainer(a) ==
    [app |-> a, status |-> "Deploying", invocations |-> {}, windowSet |-> FALSE]

Deploys(g, h, a) ==
    /\ IsHost(g) /\ SameRegistry(g, h) /\ g.full = h.full
    /\ g.reservations = h.reservations /\ g.capacity = h.capacity
    /\ g.cpu = h.cpu
    /\ g.next = h.next + 1
    /\ g.consumed = Consumed(h, a, 1)
    /\ g.containers = With(h.containers, h.next, NewContainer(a))
    /\ g.free = [h.free EXCEPT ![a] = Append(h.free[a], h.next)]
    /\ g.pending = h.pending (+) SetToBag({ContainerStart(h.next)})

LEMMA DeployDoes ==
    ASSUME NEW h, IsHost(h), NEW a
    PROVE  Deploys(DeployContainer(h, a), h, a)
  <1> SUFFICES ASSUME NEW g, g = DeployContainer(h, a)
               PROVE  Deploys(g, h, a)
    OBVIOUS
  <1>1. PICK cs, n, fr, fu, rs, ac, pd, cap, con, u, rg, iv, q :
          h = HostOf(cs, n, fr, fu, rs, ac, pd, cap, con, u, rg, iv, q)
    BY DEF IsHost
  <1>2. g = HostOf(With(cs, n, NewContainer(a)), n + 1, [fr EXCEPT ![a] = Append(fr[a], n)], fu, rs, ac, pd (+) SetToBag({ContainerStart(n)}), cap, Consumed(h, a, 1), u, rg, iv, q)
    <2> DEFINE cs2 == With(cs, n, NewContainer(a))
               fr2 == [fr EXCEPT ![a] = Append(fr[a], n)]
               con2 == Consumed(h, a, 1)
               n2 == n + 1
    <2>1. /\ h.containers = cs /\ h.free = fr /\ h.next = n
      BY <1>1 DEF HostOf
    <2>2. PICK m : m = [h EXCEPT !.next = n2, !.consumed = con2, !.containers = cs2,
                                 !.free = fr2]
      OBVIOUS
    <2>3. g = Emit(m, ContainerStart(n))
      BY <2>1, <2>2 DEF DeployContainer, NewContainer
    <2> HIDE DEF cs2, fr2, con2, n2
    <2>4. m = HostOf(cs2, n2, fr2, fu, rs, ac, pd, cap, con2, u, rg, iv, q)
      BY <1>1, <2>2 DEF HostOf
    <2>5. g = HostOf(cs2, n2, fr2, fu, rs, ac, pd (+) SetToBag({ContainerStart(n)}), cap,
                     con2, u, rg, iv, q)
      BY <2>3, <2>4 DEF HostOf, Emit
    <2> QED BY <2>5 DEF cs2, fr2, con2, n2
  <1>3. IsHost(g)
    BY <1>2, HostIs
  <1>4.   /\ h.containers = cs /\ h.next = n /\ h.free = fr /\ h.full = fu
        /\ h.reservations = rs /\ h.active = ac /\ h.pending = pd /\ h.capacity = cap
        /\ h.consumed = con /\ h.cpu = u /\ h.registry = rg /\ h.invoker = iv
        /\ h.queue = q
    BY <1>1 DEF HostOf
  <1>5.   /\ g.containers = With(cs, n, NewContainer(a)) /\ g.next = n + 1
        /\ g.free = [fr EXCEPT ![a] = Append(fr[a], n)] /\ g.full = fu
        /\ g.reservations = rs /\ g.active = ac
        /\ g.pending = pd (+) SetToBag({ContainerStart(n)}) /\ g.capacity = cap
        /\ g.consumed = Consumed(h, a, 1) /\ g.cpu = u /\ g.registry = rg
        /\ g.invoker = iv /\ g.queue = q
    BY <1>2 DEF HostOf
  <1> QED BY ONLY <1>3, <1>4, <1>5 DEF Deploys, SameBooks, SameRegistry

Deletes(g, h, c, a) ==
    /\ IsHost(g) /\ SameRegistry(g, h) /\ g.next = h.next
    /\ g.reservations = h.reservations /\ g.pending = h.pending
    /\ g.capacity = h.capacity /\ g.cpu = h.cpu
    /\ g.containers = Without(h.containers, c)
    /\ g.free = [h.free EXCEPT ![a] = SwapRemove(h.free[a], c)]
    /\ g.full = [h.full EXCEPT ![a] = h.full[a] \ {c}]
    /\ g.consumed = Consumed(h, a, -1)

LEMMA DeleteDoes ==
    ASSUME NEW h, IsHost(h), NEW c, NEW a, a = h.containers[c].app
    PROVE  Deletes(DeleteContainer(h, c), h, c, a)
  <1> SUFFICES ASSUME NEW g, g = DeleteContainer(h, c)
               PROVE  Deletes(g, h, c, a)
    OBVIOUS
  <1>1. PICK cs, n, fr, fu, rs, ac, pd, cap, con, u, rg, iv, q :
          h = HostOf(cs, n, fr, fu, rs, ac, pd, cap, con, u, rg, iv, q)
    BY DEF IsHost
  <1>2. g = HostOf(Without(cs, c), n, [fr EXCEPT ![a] = SwapRemove(fr[a], c)], [fu EXCEPT ![a] = fu[a] \ {c}], rs, ac, pd, cap, Consumed(h, a, -1), u, rg, iv, q)
    <2>1. /\ h.containers = cs /\ h.free = fr /\ h.full = fu
      BY <1>1 DEF HostOf
    <2> DEFINE cs2 == Without(cs, c)
               fr2 == [fr EXCEPT ![a] = SwapRemove(fr[a], c)]
               fu2 == [fu EXCEPT ![a] = fu[a] \ {c}]
               con2 == Consumed(h, a, -1)
    <2>2. g = [h EXCEPT !.containers = cs2, !.free = fr2, !.full = fu2, !.consumed = con2]
      BY <2>1 DEF DeleteContainer
    <2> HIDE DEF cs2, fr2, fu2, con2
    <2>3. g = HostOf(cs2, n, fr2, fu2, rs, ac, pd, cap, con2, u, rg, iv, q)
      BY <1>1, <2>2 DEF HostOf
    <2> QED BY <2>3 DEF cs2, fr2, fu2, con2
  <1>3. IsHost(g)
    BY <1>2, HostIs
  <1>4.   /\ h.containers = cs /\ h.next = n /\ h.free = fr /\ h.full = fu
        /\ h.reservations = rs /\ h.active = ac /\ h.pending = pd /\ h.capacity = cap
        /\ h.consumed = con /\ h.cpu = u /\ h.registry = rg /\ h.invoker = iv
        /\ h.queue = q
    BY <1>1 DEF HostOf
  <1>5.   /\ g.containers = Without(cs, c) /\ g.next = n
        /\ g.free = [fr EXCEPT ![a] = SwapRemove(fr[a], c)]
        /\ g.full = [fu EXCEPT ![a] = fu[a] \ {c}] /\ g.reservations = rs
        /\ g.active = ac /\ g.pending = pd /\ g.capacity = cap
        /\ g.consumed = Consumed(h, a, -1) /\ g.cpu = u /\ g.registry = rg
        /\ g.invoker = iv /\ g.queue = q
    BY <1>2 DEF HostOf
  <1> QED BY ONLY <1>3, <1>4, <1>5 DEF Deletes, SameBooks, SameRegistry

Frees(g, h, c, a) ==
    /\ IsHost(g) /\ SameRegistry(g, h) /\ g.containers = h.containers
    /\ g.next = h.next /\ g.reservations = h.reservations
    /\ g.pending = h.pending /\ g.capacity = h.capacity
    /\ g.consumed = h.consumed /\ g.cpu = h.cpu
    /\ g.free = [h.free EXCEPT ![a] = Append(h.free[a], c)]
    /\ g.full = [h.full EXCEPT ![a] = h.full[a] \ {c}]

LEMMA FreeDoes ==
    ASSUME NEW h, IsHost(h), NEW c, NEW a, a = h.containers[c].app, c \in h.full[a]
    PROVE  Frees(TryMoveToFree(h, c), h, c, a)
  <1> SUFFICES ASSUME NEW g, g = TryMoveToFree(h, c)
               PROVE  Frees(g, h, c, a)
    OBVIOUS
  <1>1. PICK cs, n, fr, fu, rs, ac, pd, cap, con, u, rg, iv, q :
          h = HostOf(cs, n, fr, fu, rs, ac, pd, cap, con, u, rg, iv, q)
    BY DEF IsHost
  <1>2. g = HostOf(cs, n, [fr EXCEPT ![a] = Append(fr[a], c)], [fu EXCEPT ![a] = fu[a] \ {c}], rs, ac, pd, cap, con, u, rg, iv, q)
    BY <1>1 DEF HostOf, TryMoveToFree
  <1>3. IsHost(g)
    BY <1>2, HostIs
  <1>4.   /\ h.containers = cs /\ h.next = n /\ h.free = fr /\ h.full = fu
        /\ h.reservations = rs /\ h.active = ac /\ h.pending = pd /\ h.capacity = cap
        /\ h.consumed = con /\ h.cpu = u /\ h.registry = rg /\ h.invoker = iv
        /\ h.queue = q
    BY <1>1 DEF HostOf
  <1>5.   /\ g.containers = cs /\ g.next = n
        /\ g.free = [fr EXCEPT ![a] = Append(fr[a], c)]
        /\ g.full = [fu EXCEPT ![a] = fu[a] \ {c}] /\ g.reservations = rs
        /\ g.active = ac /\ g.pending = pd /\ g.capacity = cap /\ g.consumed = con
        /\ g.cpu = u /\ g.registry = rg /\ g.invoker = iv /\ g.queue = q
    BY <1>2 DEF HostOf
  <1> QED BY ONLY <1>3, <1>4, <1>5 DEF Frees, SameBooks, SameRegistry

Fills(g, h, c, a) ==
    /\ IsHost(g) /\ SameRegistry(g, h) /\ g.containers = h.containers
    /\ g.next = h.next /\ g.reservations = h.reservations
    /\ g.pending = h.pending /\ g.capacity = h.capacity
    /\ g.consumed = h.consumed /\ g.cpu = h.cpu
    /\ g.free = [h.free EXCEPT ![a] = SwapRemove(h.free[a], c)]
    /\ g.full = [h.full EXCEPT ![a] = h.full[a] \cup {c}]

LEMMA FillDoes ==
    ASSUME NEW h, IsHost(h), NEW c, NEW a, a = h.containers[c].app
    PROVE  Fills(MoveToFull(h, c), h, c, a)
  <1> SUFFICES ASSUME NEW g, g = MoveToFull(h, c)
               PROVE  Fills(g, h, c, a)
    OBVIOUS
  <1>1. PICK cs, n, fr, fu, rs, ac, pd, cap, con, u, rg, iv, q :
          h = HostOf(cs, n, fr, fu, rs, ac, pd, cap, con, u, rg, iv, q)
    BY DEF IsHost
  <1>2. g = HostOf(cs, n, [fr EXCEPT ![a] = SwapRemove(fr[a], c)], [fu EXCEPT ![a] = fu[a] \cup {c}], rs, ac, pd, cap, con, u, rg, iv, q)
    BY <1>1 DEF HostOf, MoveToFull
  <1>3. IsHost(g)
    BY <1>2, HostIs
  <1>4.   /\ h.containers = cs /\ h.next = n /\ h.free = fr /\ h.full = fu
        /\ h.reservations = rs /\ h.active = ac /\ h.pending = pd /\ h.capacity = cap
        /\ h.consumed = con /\ h.cpu = u /\ h.registry = rg /\ h.invoker = iv
        /\ h.queue = q
    BY <1>1 DEF HostOf
  <1>5.   /\ g.containers = cs /\ g.next = n
        /\ g.free = [fr EXCEPT ![a] = SwapRemove(fr[a], c)]
        /\ g.full = [fu EXCEPT ![a] = fu[a] \cup {c}] /\ g.reservations = rs
        /\ g.active = ac /\ g.pending = pd /\ g.capacity = cap /\ g.consumed = con
        /\ g.cpu = u /\ g.registry = rg /\ g.invoker = iv /\ g.queue = q
    BY <1>2 DEF HostOf
  <1> QED BY ONLY <1>3, <1>4, <1>5 DEF Fills, SameBooks, SameRegistry

Reserves(g, h, c, i) ==
    /\ IsHost(g) /\ SameRegistry(g, h) /\ g.containers = h.containers
    /\ g.next = h.next /\ g.free = h.free /\ g.full = h.full
    /\ g.pending = h.pending /\ g.capacity = h.capacity
    /\ g.consumed = h.consumed /\ g.cpu = h.cpu
    /\ g.reservations = With(h.reservations, c, Append(Reserved(h, c), i))

LEMMA ReserveDoes ==
    ASSUME NEW h, IsHost(h), NEW c, NEW i
    PROVE  Reserves(Reserve(h, c, i), h, c, i)
  <1> SUFFICES ASSUME NEW g, g = Reserve(h, c, i)
               PROVE  Reserves(g, h, c, i)
    OBVIOUS
  <1>1. PICK cs, n, fr, fu, rs, ac, pd, cap, con, u, rg, iv, q :
          h = HostOf(cs, n, fr, fu, rs, ac, pd, cap, con, u, rg, iv, q)
    BY DEF IsHost
  <1>2. g = HostOf(cs, n, fr, fu, With(rs, c, Append(Reserved(h, c), i)), ac, pd, cap, con, u, rg, iv, q)
    BY <1>1 DEF HostOf, Reserve
  <1>3. IsHost(g)
    BY <1>2, HostIs
  <1>4.   /\ h.containers = cs /\ h.next = n /\ h.free = fr /\ h.full = fu
        /\ h.reservations = rs /\ h.active = ac /\ h.pending = pd /\ h.capacity = cap
        /\ h.consumed = con /\ h.cpu = u /\ h.registry = rg /\ h.invoker = iv
        /\ h.queue = q
    BY <1>1 DEF HostOf
  <1>5.   /\ g.containers = cs /\ g.next = n /\ g.free = fr /\ g.full = fu
        /\ g.reservations = With(rs, c, Append(Reserved(h, c), i)) /\ g.active = ac
        /\ g.pending = pd /\ g.capacity = cap /\ g.consumed = con /\ g.cpu = u
        /\ g.registry = rg /\ g.invoker = iv /\ g.queue = q
    BY <1>2 DEF HostOf
  <1> QED BY ONLY <1>3, <1>4, <1>5 DEF Reserves, SameBooks, SameRegistry

Drops(g, h, c) ==
    /\ IsHost(g) /\ SameRegistry(g, h) /\ g.containers = h.containers
    /\ g.next = h.next /\ g.free = h.free /\ g.full = h.full
    /\ g.pending = h.pending /\ g.capacity = h.capacity
    /\ g.consumed = h.consumed /\ g.cpu = h.cpu
    /\ g.reservations = Without(h.reservations, c)

LEMMA DropDoes ==
    ASSUME NEW h, IsHost(h), NEW c
    PROVE  Drops(DropReservations(h, c), h, c)
  <1> SUFFICES ASSUME NEW g, g = DropReservations(h, c)
               PROVE  Drops(g, h, c)
    OBVIOUS
  <1>1. PICK cs, n, fr, fu, rs, ac, pd, cap, con, u, rg, iv, q :
          h = HostOf(cs, n, fr, fu, rs, ac, pd, cap, con, u, rg, iv, q)
    BY DEF IsHost
  <1>2. g = HostOf(cs, n, fr, fu, Without(rs, c), ac, pd, cap, con, u, rg, iv, q)
    BY <1>1 DEF HostOf, DropReservations
  <1>3. IsHost(g)
    BY <1>2, HostIs
  <1>4.   /\ h.containers = cs /\ h.next = n /\ h.free = fr /\ h.full = fu
        /\ h.reservations = rs /\ h.active = ac /\ h.pending = pd /\ h.capacity = cap
        /\ h.consumed = con /\ h.cpu = u /\ h.registry = rg /\ h.invoker = iv
        /\ h.queue = q
    BY <1>1 DEF HostOf
  <1>5.   /\ g.containers = cs /\ g.next = n /\ g.free = fr /\ g.full = fu
        /\ g.reservations = Without(rs, c) /\ g.active = ac /\ g.pending = pd
        /\ g.capacity = cap /\ g.consumed = con /\ g.cpu = u /\ g.registry = rg
        /\ g.invoker = iv /\ g.queue = q
    BY <1>2 DEF HostOf
  <1> QED BY ONLY <1>3, <1>4, <1>5 DEF Drops, SameBooks, SameRegistry

Assigns(g, h, i, s, c) ==
    /\ IsHost(g) /\ SameBooks(g, h) /\ g.active = h.active
    /\ g.pending = h.pending /\ g.cpu = h.cpu /\ g.invoker = h.invoker
    /\ g.queue = h.queue
    /\ g.registry = [h.registry EXCEPT ![i] = [h.registry[i] EXCEPT !.status = s, !.container = c]]

LEMMA AssignDoes ==
    ASSUME NEW h, IsHost(h), NEW i, NEW s, NEW c
    PROVE  Assigns(Assign(h, i, s, c), h, i, s, c)
  <1> SUFFICES ASSUME NEW g, g = Assign(h, i, s, c)
               PROVE  Assigns(g, h, i, s, c)
    OBVIOUS
  <1>1. PICK cs, n, fr, fu, rs, ac, pd, cap, con, u, rg, iv, q :
          h = HostOf(cs, n, fr, fu, rs, ac, pd, cap, con, u, rg, iv, q)
    BY DEF IsHost
  <1>2. g = HostOf(cs, n, fr, fu, rs, ac, pd, cap, con, u, [rg EXCEPT ![i] = [rg[i] EXCEPT !.status = s, !.container = c]], iv, q)
    BY <1>1 DEF HostOf, Assign
  <1>3. IsHost(g)
    BY <1>2, HostIs
  <1>4.   /\ h.containers = cs /\ h.next = n /\ h.free = fr /\ h.full = fu
        /\ h.reservations = rs /\ h.active = ac /\ h.pending = pd /\ h.capacity = cap
        /\ h.consumed = con /\ h.cpu = u /\ h.registry = rg /\ h.invoker = iv
        /\ h.queue = q
    BY <1>1 DEF HostOf
  <1>5.   /\ g.containers = cs /\ g.next = n /\ g.free = fr /\ g.full = fu
        /\ g.reservations = rs /\ g.active = ac /\ g.pending = pd /\ g.capacity = cap
        /\ g.consumed = con /\ g.cpu = u
        /\ g.registry = [rg EXCEPT ![i] = [rg[i] EXCEPT !.status = s, !.container = c]]
        /\ g.invoker = iv /\ g.queue = q
    BY <1>2 DEF HostOf
  <1> QED BY ONLY <1>3, <1>4, <1>5 DEF Assigns, SameBooks, SameRegistry

Enters(g, h, c, i) ==
    /\ IsHost(g) /\ SameRegistry(g, h) /\ g.next = h.next
    /\ g.free = h.free /\ g.full = h.full
    /\ g.reservations = h.reservations /\ g.pending = h.pending
    /\ g.capacity = h.capacity /\ g.consumed = h.consumed /\ g.cpu = h.cpu
    /\ g.containers = [h.containers EXCEPT ![c] = [h.containers[c] EXCEPT !.status = "Running", !.invocations = h.containers[c].invocations \cup {i}]]

LEMMA EnterDoes ==
    ASSUME NEW h, IsHost(h), NEW c, NEW i
    PROVE  Enters(EnterContainer(h, c, i), h, c, i)
  <1> SUFFICES ASSUME NEW g, g = EnterContainer(h, c, i)
               PROVE  Enters(g, h, c, i)
    OBVIOUS
  <1>1. PICK cs, n, fr, fu, rs, ac, pd, cap, con, u, rg, iv, q :
          h = HostOf(cs, n, fr, fu, rs, ac, pd, cap, con, u, rg, iv, q)
    BY DEF IsHost
  <1>2. g = HostOf([cs EXCEPT ![c] = [cs[c] EXCEPT !.status = "Running", !.invocations = cs[c].invocations \cup {i}]], n, fr, fu, rs, ac, pd, cap, con, u, rg, iv, q)
    BY <1>1 DEF HostOf, EnterContainer, Invocations
  <1>3. IsHost(g)
    BY <1>2, HostIs
  <1>4.   /\ h.containers = cs /\ h.next = n /\ h.free = fr /\ h.full = fu
        /\ h.reservations = rs /\ h.active = ac /\ h.pending = pd /\ h.capacity = cap
        /\ h.consumed = con /\ h.cpu = u /\ h.registry = rg /\ h.invoker = iv
        /\ h.queue = q
    BY <1>1 DEF HostOf
  <1>5.   /\ g.containers = [cs EXCEPT ![c] = [cs[c] EXCEPT !.status = "Running", !.invocations = cs[c].invocations \cup {i}]]
        /\ g.next = n /\ g.free = fr /\ g.full = fu /\ g.reservations = rs
        /\ g.active = ac /\ g.pending = pd /\ g.capacity = cap /\ g.consumed = con
        /\ g.cpu = u /\ g.registry = rg /\ g.invoker = iv /\ g.queue = q
    BY <1>2 DEF HostOf
  <1> QED BY ONLY <1>3, <1>4, <1>5 DEF Enters, SameBooks, SameRegistry

-----------------------------------------------------------------------------
(* The invariant of a host.  k says of each invocation what became of it, b in *)
(* which container: in hand of a handler or in the queue ("nowhere"), reserved, *)
(* taken from the reservations and not started, entered and not told to the cpu, *)
(* told, with its end delivered, finished.                                 *)

In == {"entered", "told", "ending"}
Holding == {"reserved", "starting"} \cup In
Kinds == {"nowhere", "finished"} \cup Holding

Held(k, b, K, c) == {i \in DOMAIN k : k[i] \in K /\ b[i] = c}

IsContainer(v) ==
    v = [app |-> v.app, status |-> v.status, invocations |-> v.invocations,
         windowSet |-> v.windowSet]

StockOf(cs, n) ==
    /\ n \in Nat /\ DOMAIN cs \subseteq 0..(n - 1) /\ IsFiniteSet(DOMAIN cs)
    /\ \A c \in DOMAIN cs : IsContainer(cs[c]) /\ cs[c].app \in App

NeedOf(a, r) == IF r \in DOMAIN Needs[a] THEN Needs[a][r] ELSE 0

Used(cs, r) == SumFunction([c \in DOMAIN cs |-> NeedOf(cs[c].app, r)])

BudgetOf(cs, cap, con) ==
    /\ DOMAIN con = DOMAIN cap
    /\ \A r \in DOMAIN cap :
         cap[r] \in Nat /\ con[r] \in Nat /\ con[r] <= cap[r] /\ con[r] = Used(cs, r)

ListedAs(fr, fu, a, c, n) ==
    /\ n <= Limit[a]
    /\ c \in Range(fr[a]) <=> n < Limit[a]
    /\ c \in fu[a] <=> n = Limit[a]

ListsOf(cs, fr, fu, k, b) ==
    /\ DOMAIN fr = App /\ DOMAIN fu = App
    /\ \A a \in App :
         /\ fr[a] \in Seq(Nat) /\ IsInjective(fr[a])
         /\ \A c \in Range(fr[a]) \cup fu[a] : c \in DOMAIN cs /\ cs[c].app = a
    /\ \A c \in DOMAIN cs : ListedAs(fr, fu, cs[c].app, c, Cardinality(Held(k, b, Holding, c)))

EntryAgrees(e, kind, c) ==
    /\ e = [app |-> e.app, status |-> e.status, container |-> e.container]
    /\ e.app \in App
    /\ kind = "nowhere" => e.status = "Queued"
    /\ kind = "reserved" => e.status = "WaitingForContainer" /\ e.container = c
    /\ kind \in {"told", "ending"} => e.status = "Running" /\ e.container = c
    /\ kind = "finished" <=> e.status = "Finished"

EntriesOf(rg, k, b) ==
    /\ DOMAIN k = DOMAIN rg /\ DOMAIN b = DOMAIN rg /\ IsFiniteSet(DOMAIN rg)
    /\ \A i \in DOMAIN rg :
         i \in Nat \ {0} /\ k[i] \in Kinds /\ EntryAgrees(rg[i], k[i], b[i])

Inside(cs, k, b) ==
    /\ \A c \in DOMAIN cs : cs[c].invocations = Held(k, b, In, c)
    /\ \A i \in DOMAIN k : k[i] \in Holding => b[i] \in DOMAIN cs

Reservation(rs, c) == IF c \in DOMAIN rs THEN rs[c] ELSE <<>>

ListHolds(s, H) ==
    /\ s \in Seq(H) /\ IsInjective(s) /\ Range(s) = H /\ Len(s) = Cardinality(H)

ReservedFor(rs, k, b) ==
    /\ \A c \in DOMAIN rs : rs[c] # <<>>
    /\ \A c : ListHolds(Reservation(rs, c), Held(k, b, {"reserved"}, c))

CycleOf(status, starts, ends, inside, reserved) ==
    \/ status = "Deploying" /\ starts = 1 /\ ends = 0 /\ inside = {}
    \/ status = "Running" /\ starts = 0 /\ ends \in {0, 1} /\ inside # {} /\ reserved = <<>>
    \/ /\ status \in {"Idle", "Terminated"} /\ starts = 0 /\ ends = 1
       /\ inside = {} /\ reserved = <<>>

Starts(pd, c) == Copies(ContainerStart(c), pd)
Ends(pd, c) == Copies(ContainerEnd(c), pd)
Answers(pd, i) == Copies(InvocationEnd(i), pd)

CyclesOf(cs, rs, pd, X) ==
    /\ IsABag(pd)
    /\ \A c : c \notin DOMAIN cs => Starts(pd, c) = 0 /\ Ends(pd, c) = 0
    /\ \A c \in DOMAIN cs \ X :
         CycleOf(cs[c].status, Starts(pd, c), Ends(pd, c), cs[c].invocations, Reservation(rs, c))

WaitingOf(w, q, k, b) ==
    /\ \A c \in DOMAIN w : w[c] # <<>>
    /\ \A c \in DOMAIN w : ListHolds(w[c], Held(k, b, {"told"}, c))
    /\ Range(q) = DOMAIN w /\ IsInjective(q) /\ q \in Seq(Nat)

CpuOf(po, co, l, w, q, wk, e, pn) ==
    [policy |-> po, cores |-> co, load |-> l, waiting |-> w, queue |-> q,
     work |-> wk, end |-> e, panicked |-> pn]

IsCpu(u) == \E po, co, l, w, q, wk, e, pn : u = CpuOf(po, co, l, w, q, wk, e, pn)

Told(u, pd, k, b) ==
    \/ /\ u.policy = "Ignored" /\ u.end = 0 /\ u.work = {} /\ DOMAIN u.waiting = {}
       /\ \A i : Answers(pd, i) = IF i \in DOMAIN k /\ k[i] = "told" THEN 1 ELSE 0
    \/ /\ u.policy = "Isolated" /\ u.end = 0 /\ u.work = {}
       /\ WaitingOf(u.waiting, u.queue, k, b)
       /\ \A i : Answers(pd, i) =
                   IF i \in DOMAIN k /\ k[i] = "told" /\ b[i] \notin DOMAIN u.waiting THEN 1 ELSE 0
    \/ /\ u.policy = "Contended" /\ DOMAIN u.waiting = {}
       /\ u.work = {i \in DOMAIN k : k[i] \in {"told", "ending"}}
       /\ u.end # 0 => u.end \in DOMAIN k /\ k[u.end] = "told"
       /\ \A i : Answers(pd, i) = 0

KnowsOf(u, pd, k, b) ==
    /\ IsCpu(u)
    /\ Told(u, pd, k, b)

ActiveOf(ac, k) == ac = Cardinality({i \in DOMAIN k : k[i] # "finished"})

HostAt(h, k, b, X) ==
    /\ IsHost(h)
    /\ StockOf(h.containers, h.next)
    /\ BudgetOf(h.containers, h.capacity, h.consumed)
    /\ ListsOf(h.containers, h.free, h.full, k, b)
    /\ EntriesOf(h.registry, k, b)
    /\ Inside(h.containers, k, b)
    /\ ReservedFor(h.reservations, k, b)
    /\ CyclesOf(h.containers, h.reservations, h.pending, X)
    /\ KnowsOf(h.cpu, h.pending, k, b)
    /\ ActiveOf(h.active, k)

\* Between two events the queue holds what is nowhere else.
Settled(h, k) ==
    /\ h.queue \in Seq(Nat) /\ IsInjective(h.queue)
    /\ \A i \in DOMAIN k : k[i] \notin {"starting", "entered", "ending"}
    /\ Range(h.queue) = {i \in DOMAIN k : k[i] = "nowhere"}

HostInv(h) == \E k, b : HostAt(h, k, b, {}) /\ Settled(h, k)
-----------------------------------------------------------------------------
(* Moving an invocation.                                                   *)

Moved(k2, b2, k, b, i, q, c) ==
    /\ DOMAIN k2 = DOMAIN k /\ DOMAIN b2 = DOMAIN b /\ k2[i] = q /\ b2[i] = c
    /\ \A j \in DOMAIN k : j # i => k2[j] = k[j] /\ b2[j] = b[j]

HeldAfter(k2, b2, k, b, i, q, c) ==
    /\ DOMAIN k2 = DOMAIN k /\ DOMAIN b2 = DOMAIN k /\ k2[i] = q /\ b2[i] = c
    /\ \A j \in DOMAIN k : j # i => k2[j] = k[j] /\ b2[j] = b[j]
    /\ \A K, d : q \in K /\ d = c => Held(k2, b2, K, d) = Held(k, b, K, d) \cup {i}
    /\ \A K, d : ~ (q \in K /\ d = c) => Held(k2, b2, K, d) = Held(k, b, K, d) \ {i}

LEMMA HeldMoved ==
    ASSUME NEW k, NEW b, NEW k2, NEW b2, NEW i \in DOMAIN k, NEW q, NEW c,
           DOMAIN b = DOMAIN k, Moved(k2, b2, k, b, i, q, c)
    PROVE  HeldAfter(k2, b2, k, b, i, q, c)
  <1>1. /\ DOMAIN k2 = DOMAIN k /\ DOMAIN b2 = DOMAIN k
        /\ k2[i] = q /\ b2[i] = c
        /\ \A j \in DOMAIN k : j # i => k2[j] = k[j] /\ b2[j] = b[j]
    BY DEF Moved
  <1>2. ASSUME NEW K, NEW d, q \in K, d = c
        PROVE  Held(k2, b2, K, d) = Held(k, b, K, d) \cup {i}
    BY <1>1, <1>2 DEF Held
  <1>3. ASSUME NEW K, NEW d, ~ (q \in K /\ d = c)
        PROVE  Held(k2, b2, K, d) = Held(k, b, K, d) \ {i}
    BY <1>1, <1>3 DEF Held
  <1> QED BY <1>1, <1>2, <1>3 DEF HeldAfter

\* An invocation that was nowhere comes to a container.
Gained(k2, b2, k, b, i, q, c) ==
    /\ HeldAfter(k2, b2, k, b, i, q, c)
    /\ Held(k2, b2, Holding, c) = Held(k, b, Holding, c) \cup {i}
    /\ \A d : d # c => Held(k2, b2, Holding, d) = Held(k, b, Holding, d)
    /\ \A K, d : K \subseteq Holding => i \notin Held(k, b, K, d)
    /\ \A K, d : K \subseteq Holding /\ q \notin K => Held(k2, b2, K, d) = Held(k, b, K, d)

LEMMA HeldGained ==
    ASSUME NEW k, NEW b, NEW k2, NEW b2, NEW i \in DOMAIN k, NEW q, q \in Holding,
           NEW c, DOMAIN b = DOMAIN k, k[i] = "nowhere", Moved(k2, b2, k, b, i, q, c)
    PROVE  Gained(k2, b2, k, b, i, q, c)
  <1>1. HeldAfter(k2, b2, k, b, i, q, c)
    BY HeldMoved
  <1>2. "nowhere" \notin Holding
    BY DEF Holding, In
  <1>3. ASSUME NEW K, K \subseteq Holding, NEW d PROVE i \notin Held(k, b, K, d)
    BY <1>2, <1>3 DEF Held
  <1>4. Held(k2, b2, Holding, c) = Held(k, b, Holding, c) \cup {i}
    BY <1>1 DEF HeldAfter
  <1>5. ASSUME NEW d, d # c PROVE Held(k2, b2, Holding, d) = Held(k, b, Holding, d)
    <2>1. Held(k2, b2, Holding, d) = Held(k, b, Holding, d) \ {i}
      BY <1>1, <1>5 DEF HeldAfter
    <2> QED BY <1>3, <2>1
  <1>6. ASSUME NEW K, K \subseteq Holding, q \notin K, NEW d
        PROVE  Held(k2, b2, K, d) = Held(k, b, K, d)
    <2>1. Held(k2, b2, K, d) = Held(k, b, K, d) \ {i}
      BY <1>1, <1>6 DEF HeldAfter
    <2> QED BY <1>3, <1>6, <2>1
  <1> QED BY <1>1, <1>3, <1>4, <1>5, <1>6 DEF Gained

LEMMA HeldFinite ==
    ASSUME NEW k, NEW b, IsFiniteSet(DOMAIN k), NEW K, NEW c
    PROVE  IsFiniteSet(Held(k, b, K, c)) /\ Cardinality(Held(k, b, K, c)) \in Nat
  <1>1. Held(k, b, K, c) \subseteq DOMAIN k
    BY DEF Held
  <1> QED BY <1>1, FS_Subset, FS_CardinalityType

LEMMA ListEmpty == ListHolds(<<>>, {})
  BY EmptyDistinct, FS_EmptySet DEF ListHolds

LEMMA ListAppend ==
    ASSUME NEW H, IsFiniteSet(H), NEW s, ListHolds(s, H), NEW i, i \notin H
    PROVE  ListHolds(Append(s, i), H \cup {i}) /\ Append(s, i) # <<>>
  <1> DEFINE T == H \cup {i}
  <1>1. s \in Seq(T) /\ i \in T /\ i \notin Range(s)
    BY DEF ListHolds
  <1>2. Cardinality(T) = Cardinality(H) + 1
    BY FS_AddElement
  <1>3. /\ Append(s, i) \in Seq(T) /\ IsInjective(Append(s, i))
        /\ Range(Append(s, i)) = Range(s) \cup {i} /\ Len(Append(s, i)) = Len(s) + 1
    <2> HIDE DEF T
    <2> QED BY <1>1, AppendDistinct DEF ListHolds
  <1>4. Append(s, i) # <<>>
    BY <1>3
  <1> QED BY <1>2, <1>3, <1>4 DEF ListHolds

LEMMA ListNonEmpty ==
    ASSUME NEW H, NEW s, ListHolds(s, H)
    PROVE  s # <<>> <=> H # {}
  <1>1. CASE s = <<>>
    BY <1>1, EmptyDistinct DEF ListHolds
  <1>2. CASE s # <<>>
    <2>1. s[1] \in H
      BY <1>2 DEF ListHolds
    <2> QED BY <1>2, <2>1
  <1> QED BY <1>1, <1>2

\* An invocation that comes into a container, or stays in one.
LEMMA ListsAfterClaim ==
    ASSUME NEW cs, NEW fr, NEW fu, NEW k, NEW b, NEW k2, NEW b2,
           ListsOf(cs, fr, fu, k, b),
           \A d \in DOMAIN cs : Held(k2, b2, Holding, d) = Held(k, b, Holding, d)
    PROVE  ListsOf(cs, fr, fu, k2, b2)
  BY DEF ListsOf

LEMMA ListsSameApps ==
    ASSUME NEW cs, NEW cs2, NEW fr, NEW fu, NEW k, NEW b,
           ListsOf(cs, fr, fu, k, b),
           DOMAIN cs2 = DOMAIN cs, \A d \in DOMAIN cs : cs2[d].app = cs[d].app
    PROVE  ListsOf(cs2, fr, fu, k, b)
  BY DEF ListsOf

LEMMA BudgetSameApps ==
    ASSUME NEW cs, NEW cs2, NEW cap, NEW con, BudgetOf(cs, cap, con),
           DOMAIN cs2 = DOMAIN cs, \A d \in DOMAIN cs : cs2[d].app = cs[d].app
    PROVE  BudgetOf(cs2, cap, con)
  <1>1. \A r : Used(cs2, r) = Used(cs, r)
    <2>1. \A r : [c \in DOMAIN cs2 |-> NeedOf(cs2[c].app, r)]
                   = [c \in DOMAIN cs |-> NeedOf(cs[c].app, r)]
      OBVIOUS
    <2> QED BY <2>1 DEF Used
  <1> QED BY <1>1 DEF BudgetOf

-----------------------------------------------------------------------------
(* A container is deployed, and deleted.                                   *)

LEMMA WithIs ==
    ASSUME NEW f, NEW x, NEW v
    PROVE  /\ DOMAIN With(f, x, v) = DOMAIN f \cup {x} /\ With(f, x, v)[x] = v
           /\ \A y \in DOMAIN f : y # x => With(f, x, v)[y] = f[y]
  BY DEF With

LEMMA WithoutIs ==
    ASSUME NEW f, NEW x
    PROVE  /\ DOMAIN Without(f, x) = DOMAIN f \ {x}
           /\ \A y \in DOMAIN f : y # x => Without(f, x)[y] = f[y]
  BY DEF Without

LEMMA EventsDiffer ==
    /\ \A c, d : /\ ContainerStart(c) # ContainerEnd(d) /\ ContainerStart(c) # InvocationEnd(d)
                 /\ ContainerEnd(c) # InvocationEnd(d)
                 /\ (ContainerStart(c) = ContainerStart(d)) => c = d
                 /\ (ContainerEnd(c) = ContainerEnd(d)) => c = d
                 /\ (InvocationEnd(c) = InvocationEnd(d)) => c = d
  BY DEF ContainerStart, ContainerEnd, InvocationEnd

LEMMA StartEmitted ==
    ASSUME NEW B, IsABag(B), NEW c, NEW D, D = B (+) SetToBag({ContainerStart(c)})
    PROVE  /\ IsABag(D) /\ \A d : Ends(D, d) = Ends(B, d) /\ Answers(D, d) = Answers(B, d)
           /\ Starts(D, c) = Starts(B, c) + 1
           /\ \A d : d # c => Starts(D, d) = Starts(B, d)
           /\ \A d : Starts(B, d) \in Nat /\ Ends(B, d) \in Nat /\ Answers(B, d) \in Nat
  <1>1. /\ IsABag(D) /\ \A f : Copies(f, B) \in Nat
        /\ \A f : Copies(f, D) = IF f = ContainerStart(c) THEN Copies(f, B) + 1 ELSE Copies(f, B)
    BY EmittedCopies
  <1> QED BY <1>1, EventsDiffer DEF Starts, Ends, Answers

AnswerAdded(D, B, i) ==
    /\ IsABag(D)
    /\ \A d : Ends(D, d) = Ends(B, d) /\ Starts(D, d) = Starts(B, d)
    /\ Answers(D, i) = Answers(B, i) + 1
    /\ \A j : j # i => Answers(D, j) = Answers(B, j)

LEMMA AnswerEmitted ==
    ASSUME NEW B, IsABag(B), NEW i
    PROVE  AnswerAdded(B (+) SetToBag({InvocationEnd(i)}), B, i)
  <1>1. PICK D : D = B (+) SetToBag({InvocationEnd(i)})
    OBVIOUS
  <1>2. /\ IsABag(D) /\ \A f : Copies(f, B) \in Nat
        /\ \A f : Copies(f, D) = IF f = InvocationEnd(i) THEN Copies(f, B) + 1 ELSE Copies(f, B)
    BY <1>1, EmittedCopies
  <1>3. AnswerAdded(D, B, i)
    BY <1>2, EventsDiffer DEF Starts, Ends, Answers, AnswerAdded
  <1> QED BY <1>1, <1>3

\* The cpu is told of invocations, not of containers.
LEMMA KnowsSameAnswers ==
    ASSUME NEW u, NEW B, NEW D, NEW k, NEW b, KnowsOf(u, B, k, b),
           \A i : Answers(D, i) = Answers(B, i)
    PROVE  KnowsOf(u, D, k, b)
  BY DEF KnowsOf, Told

LEMMA DeployedBudget ==
    ASSUME NEW cs, NEW n, StockOf(cs, n), NEW a \in App, NEW cap, NEW con,
           BudgetOf(cs, cap, con),
           NEW h, h.capacity = cap, h.consumed = con, CanAllocate(h, a)
    PROVE  BudgetOf(With(cs, n, NewContainer(a)), cap, Consumed(h, a, 1))
  <1> DEFINE ds == With(cs, n, NewContainer(a))
  <1>1. /\ n \notin DOMAIN cs /\ IsFiniteSet(DOMAIN cs)
        /\ DOMAIN ds = DOMAIN cs \cup {n} /\ ds[n].app = a
        /\ \A c \in DOMAIN cs : ds[c].app = cs[c].app /\ ds[c].app \in App
    <2>1. n \notin DOMAIN cs
      BY DEF StockOf
    <2>2. DOMAIN ds = DOMAIN cs \cup {n} /\ ds[n] = NewContainer(a)
          /\ \A c \in DOMAIN cs : ds[c] = cs[c]
      BY <2>1 DEF With
    <2>3. NewContainer(a).app = a
      BY DEF NewContainer
    <2> HIDE DEF ds
    <2> QED BY <2>1, <2>2, <2>3 DEF StockOf
  <1> HIDE DEF ds
  <1>2. \A r, e : e \in App => NeedOf(e, r) \in Nat
    BY AppAssumption DEF NeedOf
  <1>3. ASSUME NEW r PROVE Used(ds, r) = Used(cs, r) + NeedOf(a, r)
    <2> DEFINE f == [c \in DOMAIN cs |-> NeedOf(cs[c].app, r)]
               g == [c \in DOMAIN ds |-> NeedOf(ds[c].app, r)]
               S == DOMAIN cs
    <2>1. f \in [S -> Nat] /\ g \in [S \cup {n} -> Nat] /\ (\A c \in S : g[c] = f[c])
          /\ g[n] = NeedOf(a, r)
      BY <1>1, <1>2
    <2>2. Used(ds, r) = SumFunction(g) /\ Used(cs, r) = SumFunction(f)
      BY DEF Used
    <2> DEFINE T == S \cup {n}
    <2>3. /\ IsFiniteSet(S) /\ n \notin S /\ T = S \cup {n} /\ f \in [S -> Nat]
          /\ g \in [T -> Nat] /\ \A c \in S : g[c] = f[c]
      BY <1>1, <2>1
    <2> HIDE DEF f, g, S, T
    <2>4. SumFunction(g) = SumFunction(f) + g[n]
      BY ONLY <2>3, SumExtended
    <2> QED BY <2>1, <2>2, <2>4
  <1>4. ASSUME NEW r \in DOMAIN cap
        PROVE  /\ Consumed(h, a, 1)[r] = con[r] + NeedOf(a, r)
               /\ con[r] + NeedOf(a, r) <= cap[r] /\ NeedOf(a, r) \in Nat
    <2>1. con[r] \in Nat /\ cap[r] \in Nat /\ con[r] <= cap[r] /\ DOMAIN con = DOMAIN cap
      BY DEF BudgetOf
    <2>2. CASE r \in DOMAIN Needs[a]
      <3>1. Needs[a][r] \in Nat
        BY <2>2, AppAssumption
      <3>2. Needs[a][r] + con[r] <= cap[r]
        BY <2>2 DEF CanAllocate
      <3> QED BY <2>1, <2>2, <3>1, <3>2 DEF Consumed, NeedOf
    <2>3. CASE r \notin DOMAIN Needs[a]
      BY <2>1, <2>3 DEF Consumed, NeedOf
    <2> QED BY <2>2, <2>3
  <1>5. DOMAIN Consumed(h, a, 1) = DOMAIN cap
    BY DEF Consumed, BudgetOf
  <1> QED BY <1>3, <1>4, <1>5 DEF BudgetOf, ds

LEMMA DeployKeeps ==
    ASSUME NEW h, NEW k, NEW b, NEW X, HostAt(h, k, b, X), NEW a \in App, CanAllocate(h, a),
           NEW g, Deploys(g, h, a)
    PROVE  /\ HostAt(g, k, b, X) /\ h.next \notin DOMAIN h.containers
           /\ h.next \in Range(g.free[a]) /\ g.containers[h.next] = NewContainer(a)
  <1> DEFINE n == h.next
             cs == h.containers
             ds == g.containers
             none == Held(k, b, Holding, n)
  <1>1. StockOf(cs, n) /\ n \in Nat /\ n \notin DOMAIN cs
    BY DEF HostAt, StockOf
  <1>2. /\ ds = With(cs, n, NewContainer(a)) /\ g.next = n + 1
        /\ g.capacity = h.capacity /\ g.consumed = Consumed(h, a, 1) /\ g.full = h.full
        /\ g.free = [h.free EXCEPT ![a] = Append(h.free[a], n)] /\ g.cpu = h.cpu
        /\ g.reservations = h.reservations /\ g.registry = h.registry /\ g.active = h.active
        /\ g.pending = h.pending (+) SetToBag({ContainerStart(n)})
    BY DEF Deploys, SameRegistry
  <1>3. /\ DOMAIN ds = DOMAIN cs \cup {n} /\ ds[n] = NewContainer(a)
        /\ \A c \in DOMAIN cs : ds[c] = cs[c]
    BY <1>1, <1>2 DEF With
  <1>4. \A K : K \subseteq Holding => Held(k, b, K, n) = {}
    BY <1>1 DEF HostAt, Inside, Held
  <1>5. StockOf(ds, g.next)
    <2>1. IsFiniteSet(DOMAIN ds)
      BY <1>1, <1>3, FS_AddElement DEF StockOf
    <2>2. \A c \in DOMAIN ds : IsContainer(ds[c]) /\ ds[c].app \in App
      BY <1>1, <1>3 DEF StockOf, IsContainer, NewContainer
    <2>3. DOMAIN ds \subseteq 0..((n + 1) - 1) /\ n + 1 \in Nat
      BY <1>1, <1>3 DEF StockOf
    <2> QED BY <1>2, <2>1, <2>2, <2>3 DEF StockOf
  <1>6. BudgetOf(ds, g.capacity, g.consumed)
    <2>1. BudgetOf(cs, h.capacity, h.consumed)
      BY DEF HostAt
    <2> HIDE DEF n, cs, ds
    <2> QED BY <1>1, <1>2, <2>1, DeployedBudget
  <1>7. ListsOf(ds, g.free, g.full, k, b) /\ n \in Range(g.free[a])
    <2>1. ListsOf(cs, h.free, h.full, k, b)
      BY DEF HostAt
    <2>2. h.free[a] \in Seq(Nat) /\ IsInjective(h.free[a]) /\ n \notin Range(h.free[a])
      BY <1>1, <2>1 DEF ListsOf
    <2>3. /\ Append(h.free[a], n) \in Seq(Nat) /\ IsInjective(Append(h.free[a], n))
          /\ Range(Append(h.free[a], n)) = Range(h.free[a]) \cup {n}
      BY <1>1, <2>2, AppendDistinct
    <2>4. /\ DOMAIN g.free = App /\ g.free[a] = Append(h.free[a], n)
          /\ \A e \in App : e # a => g.free[e] = h.free[e]
      BY <1>2, <2>1 DEF ListsOf
    <2>5. Cardinality(none) = 0 /\ Limit[a] \in Nat /\ Limit[a] > 0
      BY <1>4, FS_EmptySet, AppAssumption
    <2>6. n \notin h.full[a] /\ DOMAIN h.full = App
      BY <1>1, <2>1 DEF ListsOf
    <2> HIDE DEF n, cs, ds, none
    <2>7. ListedAs(g.free, g.full, a, n, Cardinality(none))
      BY <1>2, <2>3, <2>4, <2>5, <2>6 DEF ListedAs
    <2>8. ASSUME NEW c \in DOMAIN cs
          PROVE  ListedAs(g.free, g.full, cs[c].app, c, Cardinality(Held(k, b, Holding, c)))
      <3>1. ListedAs(h.free, h.full, cs[c].app, c, Cardinality(Held(k, b, Holding, c)))
        BY <2>1 DEF ListsOf
      <3>2. c # n /\ cs[c].app \in App
        BY <1>1 DEF StockOf
      <3>3. c \in Range(g.free[cs[c].app]) <=> c \in Range(h.free[cs[c].app])
        BY <2>3, <2>4, <3>2
      <3> QED BY <1>2, <3>1, <3>3 DEF ListedAs
    <2>9. \A e \in App :
            /\ g.free[e] \in Seq(Nat) /\ IsInjective(g.free[e])
            /\ \A c \in Range(g.free[e]) \cup g.full[e] : c \in DOMAIN ds /\ ds[c].app = e
      <3> SUFFICES ASSUME NEW e \in App
                   PROVE  /\ g.free[e] \in Seq(Nat) /\ IsInjective(g.free[e])
                          /\ \A c \in Range(g.free[e]) \cup g.full[e] :
                               c \in DOMAIN ds /\ ds[c].app = e
        OBVIOUS
      <3>1. /\ h.free[e] \in Seq(Nat) /\ IsInjective(h.free[e])
            /\ \A c \in Range(h.free[e]) \cup h.full[e] : c \in DOMAIN cs /\ cs[c].app = e
        BY <2>1 DEF ListsOf
      <3>2. ds[n].app = a
        BY <1>3 DEF NewContainer
      <3> QED BY <1>2, <1>3, <2>3, <2>4, <3>1, <3>2
    <2>10. ds[n].app = a
      BY <1>3 DEF NewContainer
    <2>11. \A c \in DOMAIN ds :
             ListedAs(g.free, g.full, ds[c].app, c, Cardinality(Held(k, b, Holding, c)))
      BY <1>3, <2>7, <2>8, <2>10 DEF none
    <2>12. ListsOf(ds, g.free, g.full, k, b)
      BY <1>2, <2>4, <2>6, <2>9, <2>11 DEF ListsOf
    <2>13. n \in Range(g.free[a])
      BY <2>3, <2>4
    <2> QED BY <2>12, <2>13
  <1>8. Inside(ds, k, b)
    <2>1. Held(k, b, In, n) = {}
      BY <1>4 DEF Holding
    <2> QED BY <1>3, <2>1 DEF HostAt, Inside, NewContainer
  <1>9. CyclesOf(ds, g.reservations, g.pending, X) /\ KnowsOf(g.cpu, g.pending, k, b)
    <2>1. CyclesOf(cs, h.reservations, h.pending, X) /\ KnowsOf(h.cpu, h.pending, k, b)
      BY DEF HostAt
    <2> DEFINE B == h.pending
               D == g.pending
    <2>2. /\ IsABag(D) /\ \A d : Ends(D, d) = Ends(B, d) /\ Answers(D, d) = Answers(B, d)
          /\ Starts(D, n) = Starts(B, n) + 1
          /\ \A d : d # n => Starts(D, d) = Starts(B, d)
      <3>1. IsABag(B) /\ D = B (+) SetToBag({ContainerStart(n)})
        BY <1>2, <2>1 DEF CyclesOf
      <3> HIDE DEF n, B, D
      <3> QED BY <3>1, StartEmitted
    <2>3. Starts(B, n) = 0 /\ Ends(B, n) = 0
      BY <1>1, <2>1 DEF CyclesOf
    <2>4. CycleOf(ds[n].status, Starts(D, n), Ends(D, n), ds[n].invocations,
                  Reservation(g.reservations, n))
      BY <1>3, <2>2, <2>3 DEF CycleOf, NewContainer
    <2> HIDE DEF B, D, n, cs, ds
    <2>5. CyclesOf(ds, g.reservations, D, X)
      BY <1>1, <1>2, <1>3, <2>1, <2>2, <2>3, <2>4 DEF CyclesOf, B
    <2>6. KnowsOf(g.cpu, D, k, b)
      BY <1>2, <2>1, <2>2, KnowsSameAnswers DEF B
    <2> QED BY <2>5, <2>6 DEF D
  <1>10. IsHost(g)
    BY DEF Deploys
  <1> HIDE DEF ds
  <1> QED BY <1>1, <1>2, <1>3, <1>5, <1>6, <1>7, <1>8, <1>9, <1>10 DEF HostAt, ds

LEMMA DeletedBudget ==
    ASSUME NEW cs, NEW n, StockOf(cs, n), NEW c \in DOMAIN cs, NEW a, a = cs[c].app,
           NEW cap, NEW con, BudgetOf(cs, cap, con),
           NEW h, h.capacity = cap, h.consumed = con
    PROVE  BudgetOf(Without(cs, c), cap, Consumed(h, a, -1))
  <1> DEFINE ds == Without(cs, c)
  <1>1. /\ DOMAIN ds = DOMAIN cs \ {c} /\ IsFiniteSet(DOMAIN ds) /\ a \in App
        /\ \A d \in DOMAIN ds : ds[d].app = cs[d].app /\ cs[d].app \in App
    <2>1. /\ DOMAIN ds = DOMAIN cs \ {c}
          /\ \A d \in DOMAIN ds : ds[d] = cs[d]
      BY DEF Without
    <2> HIDE DEF ds
    <2>2. IsFiniteSet(DOMAIN ds)
      BY <2>1, FS_RemoveElement DEF StockOf
    <2> QED BY <2>1, <2>2 DEF StockOf
  <1> HIDE DEF ds
  <1>2. \A r, e : e \in App => NeedOf(e, r) \in Nat
    BY AppAssumption DEF NeedOf
  <1>3. ASSUME NEW r PROVE Used(cs, r) = Used(ds, r) + NeedOf(a, r) /\ Used(ds, r) \in Nat
    <2> DEFINE f == [d \in DOMAIN ds |-> NeedOf(ds[d].app, r)]
               g == [d \in DOMAIN cs |-> NeedOf(cs[d].app, r)]
               S == DOMAIN ds
               T == S \cup {c}
    <2>1. /\ IsFiniteSet(S) /\ c \notin S /\ T = S \cup {c} /\ T = DOMAIN cs
          /\ f \in [S -> Nat]
          /\ g \in [T -> Nat] /\ \A d \in S : g[d] = f[d]
      BY <1>1, <1>2
    <2>2. Used(ds, r) = SumFunction(f) /\ Used(cs, r) = SumFunction(g) /\ g[c] = NeedOf(a, r)
      BY DEF Used
    <2> HIDE DEF f, g, S, T
    <2>3. SumFunction(g) = SumFunction(f) + g[c]
      BY ONLY <2>1, SumExtended
    <2>4. SumFunction(f) \in Nat
      BY ONLY <2>1, SumTyped
    <2> QED BY <2>2, <2>3, <2>4
  <1>4. ASSUME NEW r \in DOMAIN cap
        PROVE  /\ Consumed(h, a, -1)[r] = con[r] - NeedOf(a, r)
               /\ NeedOf(a, r) \in Nat /\ con[r] \in Nat /\ con[r] = Used(cs, r)
               /\ con[r] <= cap[r] /\ cap[r] \in Nat
    <2>1. /\ con[r] \in Nat /\ cap[r] \in Nat /\ con[r] <= cap[r] /\ DOMAIN con = DOMAIN cap
          /\ con[r] = Used(cs, r)
      BY DEF BudgetOf
    <2>2. CASE r \in DOMAIN Needs[a]
      <3>1. Needs[a][r] \in Nat
        BY <1>1, <2>2, AppAssumption
      <3> QED BY <2>1, <2>2, <3>1 DEF Consumed, NeedOf
    <2>3. CASE r \notin DOMAIN Needs[a]
      BY <2>1, <2>3 DEF Consumed, NeedOf
    <2> QED BY <2>1, <2>2, <2>3
  <1>5. DOMAIN Consumed(h, a, -1) = DOMAIN cap
    BY DEF Consumed, BudgetOf
  <1>6. \A r \in DOMAIN cap :
          /\ Consumed(h, a, -1)[r] = Used(ds, r) /\ Used(ds, r) \in Nat
          /\ Used(ds, r) <= cap[r] /\ cap[r] \in Nat
    BY <1>3, <1>4
  <1> QED BY <1>5, <1>6 DEF BudgetOf, ds

LEMMA DeleteKeeps ==
    ASSUME NEW h, NEW k, NEW b, NEW X, HostAt(h, k, b, X), NEW c \in DOMAIN h.containers,
           Held(k, b, Holding, c) = {}, Starts(h.pending, c) = 0, Ends(h.pending, c) = 0,
           NEW a, a = h.containers[c].app, NEW g, Deletes(g, h, c, a)
    PROVE  HostAt(g, k, b, X)
  <1> DEFINE cs == h.containers
             ds == g.containers
  <1>1. StockOf(cs, h.next) /\ a \in App
    BY DEF HostAt, StockOf
  <1>2. /\ ds = Without(cs, c) /\ g.next = h.next /\ g.pending = h.pending
        /\ g.capacity = h.capacity /\ g.consumed = Consumed(h, a, -1)
        /\ g.full = [h.full EXCEPT ![a] = h.full[a] \ {c}]
        /\ g.free = [h.free EXCEPT ![a] = SwapRemove(h.free[a], c)] /\ g.cpu = h.cpu
        /\ g.reservations = h.reservations /\ g.registry = h.registry /\ g.active = h.active
    BY DEF Deletes, SameRegistry
  <1>3. /\ DOMAIN ds = DOMAIN cs \ {c}
        /\ \A d \in DOMAIN ds : ds[d] = cs[d] /\ d \in DOMAIN cs /\ d # c
    BY <1>2 DEF Without
  <1>4. \A K : K \subseteq Holding => Held(k, b, K, c) = {}
    BY DEF Held
  <1>5. StockOf(ds, g.next)
    <2>1. IsFiniteSet(DOMAIN ds)
      BY <1>1, <1>3, FS_RemoveElement DEF StockOf
    <2> QED BY <1>1, <1>2, <1>3, <2>1 DEF StockOf
  <1>6. BudgetOf(ds, g.capacity, g.consumed)
    <2>1. BudgetOf(cs, h.capacity, h.consumed)
      BY DEF HostAt
    <2> HIDE DEF cs, ds
    <2> QED BY <1>1, <1>2, <2>1, DeletedBudget DEF cs
  <1>7. ListsOf(ds, g.free, g.full, k, b)
    <2>1. ListsOf(cs, h.free, h.full, k, b)
      BY DEF HostAt
    <2>2. h.free[a] \in Seq(Nat) /\ IsInjective(h.free[a])
      BY <1>1, <2>1 DEF ListsOf
    <2>3. /\ SwapRemove(h.free[a], c) \in Seq(Nat) /\ IsInjective(SwapRemove(h.free[a], c))
          /\ Range(SwapRemove(h.free[a], c)) = Range(h.free[a]) \ {c}
      BY <2>2, SwapRemoveDistinct
    <2>4. /\ DOMAIN g.free = App /\ g.free[a] = SwapRemove(h.free[a], c)
          /\ DOMAIN g.full = App /\ g.full[a] = h.full[a] \ {c}
          /\ \A e \in App : e # a => g.free[e] = h.free[e] /\ g.full[e] = h.full[e]
      BY <1>1, <1>2, <2>1 DEF ListsOf
    <2>5. \A e \in App : /\ Range(g.free[e]) = Range(h.free[e]) \ {c}
                         /\ g.full[e] = h.full[e] \ {c}
                         /\ g.free[e] \in Seq(Nat) /\ IsInjective(g.free[e])
      <3> SUFFICES ASSUME NEW e \in App
                   PROVE  /\ Range(g.free[e]) = Range(h.free[e]) \ {c}
                          /\ g.full[e] = h.full[e] \ {c}
                          /\ g.free[e] \in Seq(Nat) /\ IsInjective(g.free[e])
        OBVIOUS
      <3>1. CASE e = a
        BY <2>3, <2>4, <3>1
      <3>2. CASE e # a
        <4>1. c \notin Range(h.free[e]) /\ c \notin h.full[e]
          BY <2>1, <3>2 DEF ListsOf
        <4> QED BY <2>1, <2>4, <3>2, <4>1 DEF ListsOf
      <3> QED BY <3>1, <3>2
    <2> HIDE DEF cs, ds
    <2>6. ASSUME NEW d \in DOMAIN ds
          PROVE  ListedAs(g.free, g.full, ds[d].app, d, Cardinality(Held(k, b, Holding, d)))
      <3>1. ListedAs(h.free, h.full, ds[d].app, d, Cardinality(Held(k, b, Holding, d)))
        BY <1>3, <2>1 DEF ListsOf
      <3>2. ds[d].app \in App /\ d # c
        BY <1>1, <1>3 DEF StockOf
      <3> QED BY <2>5, <3>1, <3>2 DEF ListedAs
    <2>7. \A e \in App : \A d \in Range(g.free[e]) \cup g.full[e] : d \in DOMAIN ds /\ ds[d].app = e
      <3>1. \A e \in App : \A d \in Range(h.free[e]) \cup h.full[e] :
              d \in DOMAIN cs /\ cs[d].app = e
        BY <2>1 DEF ListsOf
      <3> QED BY <1>3, <2>5, <3>1
    <2> QED BY <2>4, <2>5, <2>6, <2>7 DEF ListsOf
  <1>8. Inside(ds, k, b)
    <2>1. Inside(cs, k, b)
      BY DEF HostAt
    <2>2. \A i \in DOMAIN k : k[i] \in Holding => b[i] # c
      BY DEF Held
    <2> QED BY <1>3, <2>1, <2>2 DEF Inside
  <1>9. CyclesOf(ds, g.reservations, g.pending, X)
    <2>1. CyclesOf(cs, h.reservations, h.pending, X)
      BY DEF HostAt
    <2>2. \A d : d \notin DOMAIN ds => d \notin DOMAIN cs \/ d = c
      BY <1>3
    <2> HIDE DEF cs, ds
    <2> QED BY <1>2, <1>3, <2>1, <2>2 DEF CyclesOf
  <1>10. IsHost(g)
    BY DEF Deletes
  <1> HIDE DEF ds
  <1> QED BY <1>2, <1>5, <1>6, <1>7, <1>8, <1>9, <1>10 DEF HostAt, ds
-----------------------------------------------------------------------------
(* What is true of an invocation that moves.                               *)

LEMMA EntriesMoved ==
    ASSUME NEW rg, NEW k, NEW b, EntriesOf(rg, k, b), NEW i \in DOMAIN k, NEW q \in Kinds,
           NEW c, NEW k2, NEW b2, Moved(k2, b2, k, b, i, q, c),
           NEW rg2, DOMAIN rg2 = DOMAIN rg, \A j \in DOMAIN rg : j # i => rg2[j] = rg[j],
           EntryAgrees(rg2[i], q, c)
    PROVE  EntriesOf(rg2, k2, b2)
  <1>1. /\ DOMAIN k2 = DOMAIN k /\ DOMAIN b2 = DOMAIN b /\ DOMAIN k = DOMAIN rg
        /\ DOMAIN b = DOMAIN rg /\ k2[i] = q /\ b2[i] = c
        /\ \A j \in DOMAIN k : j # i => k2[j] = k[j] /\ b2[j] = b[j]
    BY DEF Moved, EntriesOf
  <1> QED BY <1>1 DEF EntriesOf

LEMMA KnowsMoved ==
    ASSUME NEW u, NEW pd, NEW k, NEW b, KnowsOf(u, pd, k, b), DOMAIN b = DOMAIN k,
           NEW i \in DOMAIN k, k[i] \notin {"told", "ending"},
           NEW q, q \notin {"told", "ending"},
           NEW c, NEW k2, NEW b2, Moved(k2, b2, k, b, i, q, c)
    PROVE  KnowsOf(u, pd, k2, b2)
  <1>1. /\ DOMAIN k2 = DOMAIN k /\ k2[i] = q
        /\ \A j \in DOMAIN k : j # i => k2[j] = k[j] /\ b2[j] = b[j]
    BY DEF Moved
  <1>2. \A j \in DOMAIN k : /\ k2[j] = "told" <=> k[j] = "told"
                            /\ k2[j] = "ending" <=> k[j] = "ending"
                            /\ k[j] = "told" => b2[j] = b[j]
    BY <1>1
  <1>3. \A d : Held(k2, b2, {"told"}, d) = Held(k, b, {"told"}, d)
    BY <1>1, <1>2 DEF Held
  <1>4. {j \in DOMAIN k2 : k2[j] \in {"told", "ending"}}
          = {j \in DOMAIN k : k[j] \in {"told", "ending"}}
    BY <1>1, <1>2
  <1>5. ASSUME Told(u, pd, k, b), u.policy = "Ignored" PROVE Told(u, pd, k2, b2)
    BY <1>1, <1>2, <1>5 DEF Told
  <1>6. ASSUME Told(u, pd, k, b), u.policy = "Isolated" PROVE Told(u, pd, k2, b2)
    <2>1. WaitingOf(u.waiting, u.queue, k2, b2)
      BY <1>3, <1>6 DEF Told, WaitingOf
    <2> QED BY <1>1, <1>2, <1>6, <2>1 DEF Told
  <1>7. ASSUME Told(u, pd, k, b), u.policy = "Contended" PROVE Told(u, pd, k2, b2)
    BY <1>1, <1>2, <1>4, <1>7 DEF Told
  <1>8. IsCpu(u) /\ Told(u, pd, k, b)
    BY DEF KnowsOf
  <1> QED BY <1>5, <1>6, <1>7, <1>8 DEF KnowsOf, Told

LEMMA ActiveMoved ==
    ASSUME NEW ac, NEW k, ActiveOf(ac, k), NEW i \in DOMAIN k, k[i] # "finished",
           NEW q, q # "finished",
           NEW b, NEW c, NEW k2, NEW b2, Moved(k2, b2, k, b, i, q, c)
    PROVE  ActiveOf(ac, k2)
  <1>1. {j \in DOMAIN k2 : k2[j] # "finished"} = {j \in DOMAIN k : k[j] # "finished"}
    BY DEF Moved
  <1> QED BY <1>1 DEF ActiveOf

LEMMA ReservedSame ==
    ASSUME NEW rs, NEW k, NEW b, ReservedFor(rs, k, b), NEW k2, NEW b2,
           \A c : Held(k2, b2, {"reserved"}, c) = Held(k, b, {"reserved"}, c)
    PROVE  ReservedFor(rs, k2, b2)
  BY DEF ReservedFor

\* A container is listed again when it takes one more invocation.
Relisted(fr2, fu2, fr, fu, a, c, full) ==
    \/ /\ full /\ fr2 = [fr EXCEPT ![a] = SwapRemove(fr[a], c)]
       /\ fu2 = [fu EXCEPT ![a] = fu[a] \cup {c}]
    \/ ~ full /\ fr2 = fr /\ fu2 = fu

LEMMA ListsGain ==
    ASSUME NEW cs, NEW fr, NEW fu, NEW k, NEW b, ListsOf(cs, fr, fu, k, b),
           IsFiniteSet(DOMAIN k), NEW k2, NEW b2,
           NEW c \in DOMAIN cs, NEW a \in App, cs[c].app = a, c \in Range(fr[a]),
           \A d \in DOMAIN cs : cs[d].app \in App,
           NEW i, i \notin Held(k, b, Holding, c),
           Held(k2, b2, Holding, c) = Held(k, b, Holding, c) \cup {i},
           \A d \in DOMAIN cs : d # c => Held(k2, b2, Holding, d) = Held(k, b, Holding, d),
           NEW fr2, NEW fu2,
           Relisted(fr2, fu2, fr, fu, a, c, Cardinality(Held(k2, b2, Holding, c)) = Limit[a])
    PROVE  ListsOf(cs, fr2, fu2, k2, b2)
  <1> DEFINE H == Held(k, b, Holding, c)
             H2 == Held(k2, b2, Holding, c)
  <1>1. Cardinality(H) \in Nat /\ Cardinality(H2) = Cardinality(H) + 1
    <2>1. IsFiniteSet(H) /\ Cardinality(H) \in Nat
      BY HeldFinite
    <2> QED BY <2>1, FS_AddElement
  <1>2. Cardinality(H) < Limit[a] /\ Limit[a] \in Nat
    <2>1. ListedAs(fr, fu, a, c, Cardinality(H))
      BY DEF ListsOf
    <2> QED BY <2>1, AppAssumption DEF ListedAs
  <1>3. /\ fr[a] \in Seq(Nat) /\ IsInjective(fr[a]) /\ c \notin fu[a]
        /\ DOMAIN fr = App /\ DOMAIN fu = App
    <2>1. ListedAs(fr, fu, a, c, Cardinality(H))
      BY DEF ListsOf
    <2> QED BY <1>1, <1>2, <2>1 DEF ListsOf, ListedAs
  <1>4. /\ SwapRemove(fr[a], c) \in Seq(Nat) /\ IsInjective(SwapRemove(fr[a], c))
        /\ Range(SwapRemove(fr[a], c)) = Range(fr[a]) \ {c}
    BY <1>3, SwapRemoveDistinct
  <1>5. DOMAIN fr2 = App /\ DOMAIN fu2 = App
    BY <1>3 DEF Relisted
  <1>6. /\ \A e \in App : e # a => fr2[e] = fr[e] /\ fu2[e] = fu[e]
        /\ fr2[a] \in Seq(Nat) /\ IsInjective(fr2[a])
        /\ Range(fr2[a]) = IF Cardinality(H2) = Limit[a] THEN Range(fr[a]) \ {c} ELSE Range(fr[a])
        /\ fu2[a] = IF Cardinality(H2) = Limit[a] THEN fu[a] \cup {c} ELSE fu[a]
    BY <1>3, <1>4 DEF Relisted
  <1>7. ASSUME NEW d \in DOMAIN cs
        PROVE  ListedAs(fr2, fu2, cs[d].app, d, Cardinality(Held(k2, b2, Holding, d)))
    <2>1. CASE d = c
      <3>1. ListedAs(fr2, fu2, a, c, Cardinality(H2))
        <4> HIDE DEF H, H2
        <4> QED BY <1>1, <1>2, <1>3, <1>6 DEF ListedAs
      <3> QED BY <2>1, <3>1
    <2>2. CASE d # c
      <3>1. ListedAs(fr, fu, cs[d].app, d, Cardinality(Held(k, b, Holding, d)))
        BY DEF ListsOf
      <3>2. Held(k2, b2, Holding, d) = Held(k, b, Holding, d)
        BY <2>2
      <3> HIDE DEF H, H2
      <3>3. /\ d \in Range(fr2[cs[d].app]) <=> d \in Range(fr[cs[d].app])
            /\ d \in fu2[cs[d].app] <=> d \in fu[cs[d].app]
        BY <1>6, <2>2
      <3> QED BY <3>1, <3>2, <3>3 DEF ListedAs
    <2> QED BY <2>1, <2>2
  <1>8. ASSUME NEW e \in App
        PROVE  /\ fr2[e] \in Seq(Nat) /\ IsInjective(fr2[e])
               /\ \A d \in Range(fr2[e]) \cup fu2[e] : d \in DOMAIN cs /\ cs[d].app = e
    <2>1. /\ fr[e] \in Seq(Nat) /\ IsInjective(fr[e])
          /\ \A d \in Range(fr[e]) \cup fu[e] : d \in DOMAIN cs /\ cs[d].app = e
      BY DEF ListsOf
    <2> HIDE DEF H, H2
    <2>2. CASE e = a
      BY <1>6, <2>1, <2>2
    <2>3. CASE e # a
      BY <1>6, <2>1, <2>3
    <2> QED BY <2>2, <2>3
  <1> QED BY <1>5, <1>7, <1>8 DEF ListsOf

\* All the fields but the lists are kept.
Relists(g, h, c, a, full) ==
    /\ IsHost(g) /\ SameRegistry(g, h) /\ g.containers = h.containers /\ g.next = h.next
    /\ g.reservations = h.reservations /\ g.pending = h.pending
    /\ g.capacity = h.capacity /\ g.consumed = h.consumed /\ g.cpu = h.cpu
    /\ Relisted(g.free, g.full, h.free, h.full, a, c, full)

LEMMA IfFullDoes ==
    ASSUME NEW h, IsHost(h), NEW c, NEW a, a = h.containers[c].app, NEW n
    PROVE  Relists(IfFull(h, c, n), h, c, a, n = Limit[a])
  <1>1. CASE n = Limit[a]
    <2>1. IfFull(h, c, n) = MoveToFull(h, c)
      BY <1>1 DEF IfFull
    <2>2. Fills(MoveToFull(h, c), h, c, a)
      BY FillDoes
    <2> QED BY <1>1, <2>1, <2>2 DEF Fills, Relists, Relisted
  <1>2. CASE n # Limit[a]
    <2>1. IfFull(h, c, n) = h
      BY <1>2 DEF IfFull
    <2> QED BY <1>2, <2>1 DEF Relists, Relisted, SameRegistry
  <1> QED BY <1>1, <1>2
-----------------------------------------------------------------------------
(* An invocation enters a container, or its reservations.                  *)

LEMMA EntryUpdated ==
    ASSUME NEW e, NEW kind, NEW c0, EntryAgrees(e, kind, c0), NEW s, NEW c, NEW f,
           f = [e EXCEPT !.status = s, !.container = c]
    PROVE  /\ f = [app |-> f.app, status |-> f.status, container |-> f.container]
           /\ f.app = e.app /\ f.app \in App /\ f.status = s /\ f.container = c
  <1>1. PICK p, t, d : e = [app |-> p, status |-> t, container |-> d]
    BY DEF EntryAgrees
  <1>2. f = [app |-> p, status |-> s, container |-> c]
    BY <1>1
  <1>3. e.app = p /\ p \in App
    BY <1>1 DEF EntryAgrees
  <1> QED BY <1>2, <1>3

Put(v, s, I) == [v EXCEPT !.status = s, !.invocations = I]

Becomes(w, v, s, I) ==
    IsContainer(w) /\ w.app = v.app /\ w.status = s /\ w.invocations = I

LEMMA ContainerUpdated ==
    ASSUME NEW v, IsContainer(v), NEW s, NEW I
    PROVE  Becomes(Put(v, s, I), v, s, I)
  <1>1. PICK p, t, J, x :
          v = [app |-> p, status |-> t, invocations |-> J, windowSet |-> x]
    BY DEF IsContainer
  <1>2. PICK w : w = Put(v, s, I)
    OBVIOUS
  <1>3. w = [app |-> p, status |-> s, invocations |-> I, windowSet |-> x]
    BY <1>1, <1>2 DEF Put
  <1>4. Becomes(w, v, s, I)
    BY <1>1, <1>3 DEF IsContainer, Becomes
  <1> QED BY <1>2, <1>4

LEMMA ReserveKeeps ==
    ASSUME NEW h, NEW k, NEW b, HostAt(h, k, b, {}), NEW i \in DOMAIN k, k[i] = "nowhere",
           NEW c \in DOMAIN h.containers, NEW a, a = h.containers[c].app,
           h.containers[c].status = "Deploying", c \in Range(h.free[a]),
           \A j \in DOMAIN k : k[j] # "starting",
           NEW k2, NEW b2, Moved(k2, b2, k, b, i, "reserved", c)
    PROVE  HostAt(EnterReservation(h, c, i), k2, b2, {})
  <1>1. PICK g1 : g1 = Assign(h, i, "WaitingForContainer", c)
    OBVIOUS
  <1>2. PICK g2 : g2 = Reserve(g1, c, i)
    OBVIOUS
  <1>3. PICK g : g = IfFull(g2, c, Len(Reserved(g2, c)))
    OBVIOUS
  <1>4. EnterReservation(h, c, i) = g
    BY <1>1, <1>2, <1>3 DEF EnterReservation, Bind
  <1>5. /\ IsHost(h) /\ StockOf(h.containers, h.next) /\ ListsOf(h.containers, h.free, h.full, k, b)
        /\ EntriesOf(h.registry, k, b) /\ Inside(h.containers, k, b)
        /\ ReservedFor(h.reservations, k, b) /\ KnowsOf(h.cpu, h.pending, k, b)
        /\ CyclesOf(h.containers, h.reservations, h.pending, {}) /\ ActiveOf(h.active, k)
        /\ BudgetOf(h.containers, h.capacity, h.consumed)
    BY DEF HostAt
  <1>6. Assigns(g1, h, i, "WaitingForContainer", c)
    BY <1>1, <1>5, AssignDoes
  <1>7. Reserves(g2, g1, c, i)
    BY <1>2, <1>6, ReserveDoes DEF Assigns
  <1>8. g2.containers = h.containers
    BY <1>6, <1>7 DEF Assigns, Reserves, SameBooks
  <1>9. Relists(g, g2, c, a, Len(Reserved(g2, c)) = Limit[a])
    BY <1>3, <1>7, <1>8, IfFullDoes DEF Reserves
  <1>10. /\ g.containers = h.containers /\ g.next = h.next /\ g.pending = h.pending
         /\ g.capacity = h.capacity /\ g.consumed = h.consumed /\ g.cpu = h.cpu
         /\ g.active = h.active
         /\ g.reservations = With(h.reservations, c, Append(Reservation(h.reservations, c), i))
         /\ g.registry = [h.registry EXCEPT ![i] = [h.registry[i] EXCEPT
                                       !.status = "WaitingForContainer", !.container = c]]
         /\ g2.free = h.free /\ g2.full = h.full /\ g2.reservations = g.reservations
    BY <1>6, <1>7, <1>9 DEF Assigns, Reserves, Relists, SameBooks, SameRegistry, Reserved, Reservation
  <1>11. DOMAIN b = DOMAIN k /\ IsFiniteSet(DOMAIN k) /\ DOMAIN k = DOMAIN h.registry
    BY <1>5 DEF EntriesOf
  <1>12. In \subseteq Holding /\ "reserved" \notin In /\ {"reserved"} \subseteq Holding
    BY DEF In, Holding
  <1>13. Gained(k2, b2, k, b, i, "reserved", c) /\ HeldAfter(k2, b2, k, b, i, "reserved", c)
    <2>1. Gained(k2, b2, k, b, i, "reserved", c)
      BY <1>11, <1>12, HeldGained
    <2> QED BY <2>1 DEF Gained
  <1>14. /\ \A d : Held(k2, b2, In, d) = Held(k, b, In, d)
         /\ Held(k2, b2, {"reserved"}, c) = Held(k, b, {"reserved"}, c) \cup {i}
         /\ \A d : d # c => Held(k2, b2, {"reserved"}, d) = Held(k, b, {"reserved"}, d)
         /\ \A d : i \notin Held(k, b, {"reserved"}, d) /\ i \notin Held(k, b, Holding, d)
    BY <1>12, <1>13 DEF HeldAfter, Gained
  <1>15. EntriesOf(g.registry, k2, b2)
    <2>1. EntryAgrees(h.registry[i], "nowhere", b[i])
      BY <1>5, <1>11 DEF EntriesOf
    <2>2. g.registry[i] = [h.registry[i] EXCEPT !.status = "WaitingForContainer", !.container = c]
      BY <1>10, <1>11
    <2>3. EntryAgrees(g.registry[i], "reserved", c)
      BY <2>1, <2>2, EntryUpdated DEF EntryAgrees
    <2>4. /\ DOMAIN g.registry = DOMAIN h.registry
          /\ \A j \in DOMAIN h.registry : j # i => g.registry[j] = h.registry[j]
      BY <1>10
    <2>5. "reserved" \in Kinds
      BY DEF Kinds, Holding
    <2> QED BY <1>5, <2>3, <2>4, <2>5, EntriesMoved
  <1>16. ReservedFor(g.reservations, k2, b2)
    <2> DEFINE rs == h.reservations
               rs2 == g.reservations
               H == Held(k, b, {"reserved"}, c)
    <2>1. /\ DOMAIN rs2 = DOMAIN rs \cup {c} /\ rs2[c] = Append(Reservation(rs, c), i)
          /\ \A d \in DOMAIN rs : d # c => rs2[d] = rs[d]
      BY <1>10 DEF With
    <2>2. IsFiniteSet(H) /\ i \notin H /\ ListHolds(Reservation(rs, c), H)
      BY <1>5, <1>11, <1>14, HeldFinite DEF ReservedFor
    <2>3. ListHolds(rs2[c], H \cup {i}) /\ rs2[c] # <<>>
      BY <2>1, <2>2, ListAppend
    <2> HIDE DEF rs, rs2, H
    <2>4. ASSUME NEW d PROVE ListHolds(Reservation(rs2, d), Held(k2, b2, {"reserved"}, d))
      <3>1. CASE d = c
        BY <1>14, <2>1, <2>3, <3>1 DEF Reservation, H
      <3>2. CASE d # c
        <4>1. Reservation(rs2, d) = Reservation(rs, d)
          BY <2>1, <3>2 DEF Reservation
        <4> QED BY <1>5, <1>14, <3>2, <4>1 DEF ReservedFor, rs
      <3> QED BY <3>1, <3>2
    <2>5. \A d \in DOMAIN rs2 : rs2[d] # <<>>
      BY <1>5, <2>1, <2>3 DEF ReservedFor, rs
    <2>6. ReservedFor(rs2, k2, b2)
      BY <2>4, <2>5 DEF ReservedFor
    <2> QED BY <2>6 DEF rs2
  <1>17. h.containers[c].invocations = {} /\ Held(k, b, In, c) = {}
    BY <1>5 DEF CyclesOf, CycleOf, Inside
  <1>18. CyclesOf(g.containers, g.reservations, g.pending, {})
    <2>1. \A d : d # c => Reservation(g.reservations, d) = Reservation(h.reservations, d)
      BY <1>10 DEF With, Reservation
    <2>2. CycleOf(h.containers[c].status, Starts(h.pending, c), Ends(h.pending, c),
                  h.containers[c].invocations, Reservation(g.reservations, c))
      BY <1>5 DEF CyclesOf, CycleOf
    <2> QED BY <1>5, <1>10, <2>1, <2>2 DEF CyclesOf
  <1>19. Inside(g.containers, k2, b2)
    <2>1. \A j \in DOMAIN k2 : k2[j] \in Holding => b2[j] \in DOMAIN h.containers
      BY <1>5, <1>13 DEF HeldAfter, Inside
    <2> QED BY <1>5, <1>10, <1>14, <2>1 DEF Inside
  <1>20. Len(Reserved(g2, c)) = Cardinality(Held(k2, b2, Holding, c))
    <2>1. Reserved(g2, c) = Reservation(g.reservations, c)
      BY <1>10 DEF Reserved, Reservation
    <2>2. Len(Reserved(g2, c)) = Cardinality(Held(k2, b2, {"reserved"}, c))
      BY <1>16, <2>1 DEF ReservedFor, ListHolds
    <2>3. Held(k2, b2, In, c) = {} /\ \A j \in DOMAIN k2 : k2[j] # "starting"
      BY <1>13, <1>14, <1>17 DEF HeldAfter
    <2>4. Held(k2, b2, Holding, c) = Held(k2, b2, {"reserved"}, c)
      BY <2>3 DEF Held, Holding
    <2> QED BY <2>2, <2>4
  <1>21. ListsOf(g.containers, g.free, g.full, k2, b2)
    <2>1. Relisted(g.free, g.full, h.free, h.full, a, c,
                   Cardinality(Held(k2, b2, Holding, c)) = Limit[a])
      BY <1>9, <1>10, <1>20 DEF Relists
    <2>2. a \in App /\ \A d \in DOMAIN h.containers : h.containers[d].app \in App
      BY <1>5 DEF StockOf
    <2>3. /\ Held(k2, b2, Holding, c) = Held(k, b, Holding, c) \cup {i}
          /\ i \notin Held(k, b, Holding, c)
          /\ \A d \in DOMAIN h.containers : d # c => Held(k2, b2, Holding, d) = Held(k, b, Holding, d)
      BY <1>13 DEF Gained
    <2>4. ListsOf(h.containers, g.free, g.full, k2, b2)
      BY <1>5, <1>11, <2>1, <2>2, <2>3, ListsGain
    <2> QED BY <1>10, <2>4
  <1>22. KnowsOf(g.cpu, g.pending, k2, b2) /\ ActiveOf(g.active, k2) /\ IsHost(g)
    <2>2. ActiveOf(g.active, k2)
      BY <1>5, <1>10, ActiveMoved
    <2>3. KnowsOf(g.cpu, g.pending, k2, b2)
      BY <1>5, <1>10, <1>11, KnowsMoved
    <2> QED BY <1>9, <2>2, <2>3 DEF Relists
  <1>23. HostAt(g, k2, b2, {})
    BY <1>5, <1>10, <1>15, <1>16, <1>18, <1>19, <1>21, <1>22 DEF HostAt
  <1> QED BY <1>4, <1>23

\* The container may run: it has started, and no reservations are left.
Startable(h, c) ==
    /\ Starts(h.pending, c) = 0 /\ Ends(h.pending, c) \in {0, 1}
    /\ Reservation(h.reservations, c) = <<>>

HostButLists(h, k, b) ==
    /\ IsHost(h)
    /\ StockOf(h.containers, h.next)
    /\ BudgetOf(h.containers, h.capacity, h.consumed)
    /\ EntriesOf(h.registry, k, b)
    /\ Inside(h.containers, k, b)
    /\ ReservedFor(h.reservations, k, b)
    /\ CyclesOf(h.containers, h.reservations, h.pending, {})
    /\ KnowsOf(h.cpu, h.pending, k, b)
    /\ ActiveOf(h.active, k)

LEMMA EnterCore ==
    ASSUME NEW h, NEW k, NEW b, NEW X, HostAt(h, k, b, X), NEW c \in DOMAIN h.containers,
           X \subseteq {c}, Startable(h, c), NEW i \in DOMAIN k, k[i] \in {"nowhere", "starting"},
           k[i] = "starting" => b[i] = c,
           NEW k2, NEW b2, Moved(k2, b2, k, b, i, "entered", c),
           NEW g, Enters(g, h, c, i)
    PROVE  /\ HostButLists(g, k2, b2) /\ Startable(g, c)
           /\ g.free = h.free /\ g.full = h.full /\ DOMAIN g.containers = DOMAIN h.containers
           /\ \A d \in DOMAIN h.containers : g.containers[d].app = h.containers[d].app
  <1> DEFINE cs == h.containers
             ds == g.containers
  <1>1. /\ StockOf(cs, h.next) /\ ListsOf(cs, h.free, h.full, k, b)
        /\ EntriesOf(h.registry, k, b) /\ Inside(cs, k, b)
        /\ ReservedFor(h.reservations, k, b) /\ KnowsOf(h.cpu, h.pending, k, b)
        /\ CyclesOf(cs, h.reservations, h.pending, X) /\ ActiveOf(h.active, k)
        /\ BudgetOf(cs, h.capacity, h.consumed)
    BY DEF HostAt
  <1>2. /\ IsHost(g) /\ g.registry = h.registry /\ g.active = h.active /\ g.next = h.next
        /\ g.free = h.free /\ g.full = h.full /\ g.reservations = h.reservations
        /\ g.pending = h.pending /\ g.capacity = h.capacity /\ g.consumed = h.consumed
        /\ g.cpu = h.cpu
        /\ ds = [cs EXCEPT ![c] = [cs[c] EXCEPT !.status = "Running",
                                                !.invocations = cs[c].invocations \cup {i}]]
    BY DEF Enters, SameRegistry
  <1>3. IsContainer(cs[c]) /\ cs[c].app \in App
    BY <1>1 DEF StockOf
  <1>4. /\ DOMAIN ds = DOMAIN cs
        /\ ds[c] = [cs[c] EXCEPT !.status = "Running", !.invocations = cs[c].invocations \cup {i}]
        /\ \A d \in DOMAIN cs : d # c => ds[d] = cs[d]
    BY <1>2
  <1>5. /\ IsContainer(ds[c]) /\ ds[c].app = cs[c].app /\ ds[c].status = "Running"
        /\ ds[c].invocations = cs[c].invocations \cup {i}
    <2>1. PICK I : I = cs[c].invocations \cup {i}
      OBVIOUS
    <2>2. ds[c] = Put(cs[c], "Running", I)
      BY <1>4, <2>1 DEF Put
    <2> HIDE DEF cs, ds
    <2>3. Becomes(ds[c], cs[c], "Running", I)
      BY <1>3, <2>2, ContainerUpdated
    <2> QED BY <2>1, <2>3 DEF Becomes
  <1> HIDE DEF cs, ds
  <1>6. \A d \in DOMAIN cs : ds[d].app = cs[d].app
    BY <1>4, <1>5
  <1>7. DOMAIN b = DOMAIN k /\ IsFiniteSet(DOMAIN k) /\ DOMAIN k = DOMAIN h.registry
    BY <1>1 DEF EntriesOf
  <1>8. HeldAfter(k2, b2, k, b, i, "entered", c)
    BY <1>7, HeldMoved
  <1>9. "entered" \in In /\ "nowhere" \notin In /\ "starting" \notin In
    BY DEF In
  <1>10. ASSUME NEW K, {"nowhere", "starting"} \cap K = {}, NEW d
         PROVE  i \notin Held(k, b, K, d)
    BY <1>10 DEF Held
  <1>11. /\ Held(k2, b2, In, c) = Held(k, b, In, c) \cup {i}
         /\ \A d : d # c => Held(k2, b2, In, d) = Held(k, b, In, d)
    <2>1. Held(k2, b2, In, c) = Held(k, b, In, c) \cup {i}
      BY <1>8, <1>9 DEF HeldAfter
    <2>2. ASSUME NEW d, d # c PROVE Held(k2, b2, In, d) = Held(k, b, In, d)
      <3>1. Held(k2, b2, In, d) = Held(k, b, In, d) \ {i}
        BY <1>8, <2>2 DEF HeldAfter
      <3> QED BY <1>9, <1>10, <3>1
    <2> QED BY <2>1, <2>2
  <1>12. \A d : Held(k2, b2, {"reserved"}, d) = Held(k, b, {"reserved"}, d)
    <2> SUFFICES ASSUME NEW d PROVE Held(k2, b2, {"reserved"}, d) = Held(k, b, {"reserved"}, d)
      OBVIOUS
    <2>1. Held(k2, b2, {"reserved"}, d) = Held(k, b, {"reserved"}, d) \ {i}
      BY <1>8 DEF HeldAfter
    <2> QED BY <1>10, <2>1
  <1>13. StockOf(ds, g.next) /\ BudgetOf(ds, g.capacity, g.consumed)
    <2>1. StockOf(ds, g.next)
      BY <1>1, <1>2, <1>4, <1>5 DEF StockOf
    <2> QED BY <1>1, <1>2, <1>4, <1>6, <2>1, BudgetSameApps
  <1>14. Inside(ds, k2, b2)
    <2>1. \A d \in DOMAIN ds : ds[d].invocations = Held(k2, b2, In, d)
      BY <1>1, <1>4, <1>5, <1>11 DEF Inside
    <2>2. \A j \in DOMAIN k2 : k2[j] \in Holding => b2[j] \in DOMAIN ds
      BY <1>1, <1>4, <1>8 DEF Inside, HeldAfter, cs
    <2> QED BY <2>1, <2>2 DEF Inside
  <1>15. ReservedFor(g.reservations, k2, b2)
    BY <1>1, <1>2, <1>12, ReservedSame
  <1>16. EntriesOf(g.registry, k2, b2)
    <2>1. EntryAgrees(h.registry[i], "entered", c)
      BY <1>1, <1>7 DEF EntriesOf, EntryAgrees
    <2>2. "entered" \in Kinds
      BY DEF Kinds, Holding, In
    <2> QED BY <1>1, <1>2, <2>1, <2>2, EntriesMoved
  <1>17. CyclesOf(ds, g.reservations, g.pending, {})
    <2>1. CycleOf(ds[c].status, Starts(g.pending, c), Ends(g.pending, c), ds[c].invocations,
                  Reservation(g.reservations, c))
      BY <1>2, <1>5 DEF CycleOf, Startable
    <2> QED BY <1>1, <1>2, <1>4, <2>1 DEF CyclesOf
  <1>18. ActiveOf(g.active, k2)
    BY <1>1, <1>2, ActiveMoved
  <1>19. KnowsOf(g.cpu, g.pending, k2, b2)
    BY <1>1, <1>2, <1>7, KnowsMoved
  <1>20. Startable(g, c)
    BY <1>2 DEF Startable
  <1>21. HostButLists(g, k2, b2)
    BY <1>2, <1>13, <1>14, <1>15, <1>16, <1>17, <1>18, <1>19 DEF HostButLists, ds
  <1> QED BY <1>2, <1>4, <1>6, <1>20, <1>21 DEF cs, ds

\* An invocation of the queue, or a new one, enters a container that runs.
LEMMA EnterKeeps ==
    ASSUME NEW h, NEW k, NEW b, HostAt(h, k, b, {}), NEW i \in DOMAIN k, k[i] = "nowhere",
           NEW c \in DOMAIN h.containers, NEW a, a = h.containers[c].app,
           h.containers[c].status \in {"Idle", "Running"}, c \in Range(h.free[a]),
           \A j \in DOMAIN k : k[j] # "starting",
           NEW k2, NEW b2, Moved(k2, b2, k, b, i, "entered", c),
           NEW g1, g1 = EnterContainer(h, c, i)
    PROVE  /\ HostButLists(g1, k2, b2)
           /\ HostAt(IfFull(g1, c, Cardinality(Invocations(g1, c))), k2, b2, {})
  <1>1. PICK g : g = IfFull(g1, c, Cardinality(Invocations(g1, c)))
    OBVIOUS
  <1>2. /\ IsHost(h) /\ StockOf(h.containers, h.next) /\ ListsOf(h.containers, h.free, h.full, k, b)
        /\ EntriesOf(h.registry, k, b) /\ Inside(h.containers, k, b)
        /\ ReservedFor(h.reservations, k, b)
        /\ CyclesOf(h.containers, h.reservations, h.pending, {})
    BY DEF HostAt
  <1>3. Enters(g1, h, c, i)
    BY <1>2, EnterDoes
  <1>4. Startable(h, c)
    BY <1>2 DEF CyclesOf, CycleOf, Startable
  <1>5. /\ HostButLists(g1, k2, b2)
        /\ g1.free = h.free /\ g1.full = h.full /\ DOMAIN g1.containers = DOMAIN h.containers
        /\ \A d \in DOMAIN h.containers : g1.containers[d].app = h.containers[d].app
    BY <1>3, <1>4, EnterCore
  <1>6. Relists(g, g1, c, a, Cardinality(Invocations(g1, c)) = Limit[a])
    BY <1>1, <1>5, IfFullDoes DEF HostButLists
  <1>7. DOMAIN b = DOMAIN k /\ IsFiniteSet(DOMAIN k)
    BY <1>2 DEF EntriesOf
  <1>8. "entered" \in Holding /\ "entered" \in In /\ "entered" \notin {"reserved"}
        /\ {"reserved"} \subseteq Holding
    BY DEF Holding, In
  <1>9. Gained(k2, b2, k, b, i, "entered", c)
    BY <1>7, <1>8, HeldGained
  <1>10. Cardinality(Invocations(g1, c)) = Cardinality(Held(k2, b2, Holding, c))
    <2>1. Invocations(g1, c) = Held(k2, b2, In, c)
      BY <1>5 DEF HostButLists, Inside, Invocations
    <2>2. Held(k, b, {"reserved"}, c) = {}
      BY <1>2, <1>4, EmptyDistinct DEF ReservedFor, ListHolds, Startable
    <2>3. Held(k2, b2, {"reserved"}, c) = {}
      BY <1>8, <1>9, <2>2 DEF Gained
    <2>4. \A j \in DOMAIN k2 : k2[j] # "starting"
      BY <1>9 DEF Gained, HeldAfter
    <2>5. Held(k2, b2, Holding, c) = Held(k2, b2, In, c)
      BY <2>3, <2>4 DEF Held, Holding
    <2> QED BY <2>1, <2>5
  <1>11. ListsOf(h.containers, g.free, g.full, k2, b2)
    <2>1. Relisted(g.free, g.full, h.free, h.full, a, c,
                   Cardinality(Held(k2, b2, Holding, c)) = Limit[a])
      BY <1>5, <1>6, <1>10 DEF Relists
    <2>2. a \in App /\ \A d \in DOMAIN h.containers : h.containers[d].app \in App
      BY <1>2 DEF StockOf
    <2>3. /\ Held(k2, b2, Holding, c) = Held(k, b, Holding, c) \cup {i}
          /\ i \notin Held(k, b, Holding, c)
          /\ \A d \in DOMAIN h.containers : d # c => Held(k2, b2, Holding, d) = Held(k, b, Holding, d)
      BY <1>9 DEF Gained
    <2> QED BY <1>2, <1>7, <2>1, <2>2, <2>3, ListsGain
  <1>12. ListsOf(g.containers, g.free, g.full, k2, b2)
    <2>1. /\ DOMAIN g.containers = DOMAIN h.containers
          /\ \A d \in DOMAIN h.containers : g.containers[d].app = h.containers[d].app
      BY <1>5, <1>6 DEF Relists
    <2> QED BY <1>11, <2>1, ListsSameApps
  <1>13. HostAt(g, k2, b2, {})
    BY <1>5, <1>6, <1>12 DEF HostAt, HostButLists, Relists, SameRegistry
  <1> QED BY <1>1, <1>5, <1>13

\* An invocation whose reservation has been taken enters the container.
LEMMA StartEnters ==
    ASSUME NEW h, NEW k, NEW b, NEW X, HostAt(h, k, b, X), NEW c \in DOMAIN h.containers,
           X \subseteq {c}, Startable(h, c), NEW i \in DOMAIN k, k[i] = "starting", b[i] = c,
           NEW k2, NEW b2, Moved(k2, b2, k, b, i, "entered", c)
    PROVE  HostAt(EnterContainer(h, c, i), k2, b2, {}) /\ Startable(EnterContainer(h, c, i), c)
  <1>1. PICK g : g = EnterContainer(h, c, i)
    OBVIOUS
  <1>2. IsHost(h) /\ ListsOf(h.containers, h.free, h.full, k, b) /\ EntriesOf(h.registry, k, b)
    BY DEF HostAt
  <1>3. Enters(g, h, c, i)
    BY <1>1, <1>2, EnterDoes
  <1>4. /\ HostButLists(g, k2, b2) /\ Startable(g, c)
        /\ g.free = h.free /\ g.full = h.full /\ DOMAIN g.containers = DOMAIN h.containers
        /\ \A d \in DOMAIN h.containers : g.containers[d].app = h.containers[d].app
    BY <1>3, EnterCore
  <1>5. DOMAIN b = DOMAIN k
    BY <1>2 DEF EntriesOf
  <1>6. HeldAfter(k2, b2, k, b, i, "entered", c)
    BY <1>5, HeldMoved
  <1>7. \A d : Held(k2, b2, Holding, d) = Held(k, b, Holding, d)
    <2>1. "entered" \in Holding /\ "starting" \in Holding
      BY DEF Holding, In
    <2>2. i \in Held(k, b, Holding, c) /\ \A d : d # c => i \notin Held(k, b, Holding, d)
      BY <2>1 DEF Held
    <2> SUFFICES ASSUME NEW d PROVE Held(k2, b2, Holding, d) = Held(k, b, Holding, d)
      OBVIOUS
    <2>3. CASE d = c
      <3>1. Held(k2, b2, Holding, c) = Held(k, b, Holding, c) \cup {i}
        BY <1>6, <2>1 DEF HeldAfter
      <3> QED BY <2>2, <2>3, <3>1
    <2>4. CASE d # c
      <3>1. Held(k2, b2, Holding, d) = Held(k, b, Holding, d) \ {i}
        BY <1>6, <2>4 DEF HeldAfter
      <3> QED BY <2>2, <2>4, <3>1
    <2> QED BY <2>3, <2>4
  <1>8. ListsOf(h.containers, g.free, g.full, k2, b2)
    BY <1>2, <1>4, <1>7, ListsAfterClaim
  <1>9. ListsOf(g.containers, g.free, g.full, k2, b2)
    BY <1>4, <1>8, ListsSameApps
  <1>10. HostAt(g, k2, b2, {})
    BY <1>4, <1>9 DEF HostAt, HostButLists
  <1> QED BY <1>1, <1>4, <1>10
-----------------------------------------------------------------------------
(* What the cpu does.                                                      *)

\* The host's cpu becomes u2.
CpuChanges(g, h, u2) ==
    /\ IsHost(g) /\ SameBooks(g, h) /\ SameRegistry(g, h) /\ g.pending = h.pending
    /\ g.cpu = u2

Joined(h, c, i) == [h EXCEPT !.cpu.waiting[c] = Append(@, i)]

Waits(h, c, i) == [h EXCEPT !.cpu.waiting = With(@, c, <<i>>), !.cpu.queue = Append(@, c)]

Works(h, i, x) == [h EXCEPT !.cpu.panicked = @ \/ x, !.cpu.work = @ \cup {i}]

LEMMA AddLoadDoes ==
    ASSUME NEW h, IsHost(h), IsCpu(h.cpu), NEW c
    PROVE  CpuChanges(AddLoad(h, c), h,
             CpuOf(h.cpu.policy, h.cpu.cores, (IF Alone(h, c) THEN h.cpu.load + ShareOf(h, c) ELSE h.cpu.load), h.cpu.waiting, h.cpu.queue, h.cpu.work, h.cpu.end, h.cpu.panicked))
  <1> SUFFICES ASSUME NEW g, g = AddLoad(h, c)
               PROVE  CpuChanges(g, h,
                        CpuOf(h.cpu.policy, h.cpu.cores, (IF Alone(h, c) THEN h.cpu.load + ShareOf(h, c) ELSE h.cpu.load), h.cpu.waiting, h.cpu.queue, h.cpu.work, h.cpu.end, h.cpu.panicked))
    OBVIOUS
  <1>1. PICK cs, n, fr, fu, rs, ac, pd, cap, con, u, rg, iv, q :
          h = HostOf(cs, n, fr, fu, rs, ac, pd, cap, con, u, rg, iv, q)
    BY DEF IsHost
  <1>2. h.cpu = u
    BY <1>1 DEF HostOf
  <1>3. PICK po, co, l, w, qu, wk, e, pn : u = CpuOf(po, co, l, w, qu, wk, e, pn)
    BY <1>2 DEF IsCpu
  <1>4.   /\ u.policy = po /\ u.cores = co /\ u.load = l /\ u.waiting = w
        /\ u.queue = qu /\ u.work = wk /\ u.end = e /\ u.panicked = pn
    BY <1>3 DEF CpuOf
  <1>5. PICK u2 : u2 = CpuOf(po, co, (IF Alone(h, c) THEN l + ShareOf(h, c) ELSE l), w, qu, wk, e, pn)
    OBVIOUS
  <1>6. g = HostOf(cs, n, fr, fu, rs, ac, pd, cap, con, u2, rg, iv, q)
    BY <1>1, <1>2, <1>3, <1>4, <1>5 DEF HostOf, CpuOf, AddLoad
  <1>7. IsHost(g)
    BY <1>6, HostIs
  <1>8.   /\ h.containers = cs /\ h.next = n /\ h.free = fr /\ h.full = fu
        /\ h.reservations = rs /\ h.active = ac /\ h.pending = pd /\ h.capacity = cap
        /\ h.consumed = con /\ h.cpu = u /\ h.registry = rg /\ h.invoker = iv
        /\ h.queue = q
    BY <1>1 DEF HostOf
  <1>9.   /\ g.containers = cs /\ g.next = n /\ g.free = fr /\ g.full = fu
        /\ g.reservations = rs /\ g.active = ac /\ g.pending = pd /\ g.capacity = cap
        /\ g.consumed = con /\ g.cpu = u2 /\ g.registry = rg /\ g.invoker = iv
        /\ g.queue = q
    BY ONLY <1>6 DEF HostOf
  <1>10. u2 = CpuOf(h.cpu.policy, h.cpu.cores, (IF Alone(h, c) THEN h.cpu.load + ShareOf(h, c) ELSE h.cpu.load), h.cpu.waiting, h.cpu.queue, h.cpu.work, h.cpu.end, h.cpu.panicked)
    BY <1>2, <1>4, <1>5
  <1> QED BY ONLY <1>7, <1>8, <1>9, <1>10 DEF CpuChanges, SameBooks, SameRegistry

LEMMA JoinDoes ==
    ASSUME NEW h, IsHost(h), IsCpu(h.cpu), NEW c, NEW i
    PROVE  CpuChanges(Joined(h, c, i), h,
             CpuOf(h.cpu.policy, h.cpu.cores, h.cpu.load, [h.cpu.waiting EXCEPT ![c] = Append(h.cpu.waiting[c], i)], h.cpu.queue, h.cpu.work, h.cpu.end, h.cpu.panicked))
  <1> SUFFICES ASSUME NEW g, g = Joined(h, c, i)
               PROVE  CpuChanges(g, h,
                        CpuOf(h.cpu.policy, h.cpu.cores, h.cpu.load, [h.cpu.waiting EXCEPT ![c] = Append(h.cpu.waiting[c], i)], h.cpu.queue, h.cpu.work, h.cpu.end, h.cpu.panicked))
    OBVIOUS
  <1>1. PICK cs, n, fr, fu, rs, ac, pd, cap, con, u, rg, iv, q :
          h = HostOf(cs, n, fr, fu, rs, ac, pd, cap, con, u, rg, iv, q)
    BY DEF IsHost
  <1>2. h.cpu = u
    BY <1>1 DEF HostOf
  <1>3. PICK po, co, l, w, qu, wk, e, pn : u = CpuOf(po, co, l, w, qu, wk, e, pn)
    BY <1>2 DEF IsCpu
  <1>4.   /\ u.policy = po /\ u.cores = co /\ u.load = l /\ u.waiting = w
        /\ u.queue = qu /\ u.work = wk /\ u.end = e /\ u.panicked = pn
    BY <1>3 DEF CpuOf
  <1>5. PICK u2 : u2 = CpuOf(po, co, l, [w EXCEPT ![c] = Append(w[c], i)], qu, wk, e, pn)
    OBVIOUS
  <1>6. g = HostOf(cs, n, fr, fu, rs, ac, pd, cap, con, u2, rg, iv, q)
    <2>1. PICK w2 : w2 = [w EXCEPT ![c] = Append(w[c], i)]
      OBVIOUS
    <2>2. g = [h EXCEPT !.cpu = [u EXCEPT !.waiting = w2]]
      BY <1>2, <1>4, <2>1 DEF Joined
    <2>3. [u EXCEPT !.waiting = w2] = u2
      <3>1. u2 = CpuOf(po, co, l, w2, qu, wk, e, pn)
        BY ONLY <1>5, <2>1
      <3> QED BY ONLY <1>3, <3>1 DEF CpuOf
    <2> QED BY <1>1, <2>2, <2>3 DEF HostOf
  <1>7. IsHost(g)
    BY <1>6, HostIs
  <1>8.   /\ h.containers = cs /\ h.next = n /\ h.free = fr /\ h.full = fu
        /\ h.reservations = rs /\ h.active = ac /\ h.pending = pd /\ h.capacity = cap
        /\ h.consumed = con /\ h.cpu = u /\ h.registry = rg /\ h.invoker = iv
        /\ h.queue = q
    BY <1>1 DEF HostOf
  <1>9.   /\ g.containers = cs /\ g.next = n /\ g.free = fr /\ g.full = fu
        /\ g.reservations = rs /\ g.active = ac /\ g.pending = pd /\ g.capacity = cap
        /\ g.consumed = con /\ g.cpu = u2 /\ g.registry = rg /\ g.invoker = iv
        /\ g.queue = q
    BY ONLY <1>6 DEF HostOf
  <1>10. u2 = CpuOf(h.cpu.policy, h.cpu.cores, h.cpu.load, [h.cpu.waiting EXCEPT ![c] = Append(h.cpu.waiting[c], i)], h.cpu.queue, h.cpu.work, h.cpu.end, h.cpu.panicked)
    BY <1>2, <1>4, <1>5
  <1> QED BY ONLY <1>7, <1>8, <1>9, <1>10 DEF CpuChanges, SameBooks, SameRegistry

LEMMA WaitDoes ==
    ASSUME NEW h, IsHost(h), IsCpu(h.cpu), NEW c, NEW i
    PROVE  CpuChanges(Waits(h, c, i), h,
             CpuOf(h.cpu.policy, h.cpu.cores, h.cpu.load, With(h.cpu.waiting, c, <<i>>), Append(h.cpu.queue, c), h.cpu.work, h.cpu.end, h.cpu.panicked))
  <1> SUFFICES ASSUME NEW g, g = Waits(h, c, i)
               PROVE  CpuChanges(g, h,
                        CpuOf(h.cpu.policy, h.cpu.cores, h.cpu.load, With(h.cpu.waiting, c, <<i>>), Append(h.cpu.queue, c), h.cpu.work, h.cpu.end, h.cpu.panicked))
    OBVIOUS
  <1>1. PICK cs, n, fr, fu, rs, ac, pd, cap, con, u, rg, iv, q :
          h = HostOf(cs, n, fr, fu, rs, ac, pd, cap, con, u, rg, iv, q)
    BY DEF IsHost
  <1>2. h.cpu = u
    BY <1>1 DEF HostOf
  <1>3. PICK po, co, l, w, qu, wk, e, pn : u = CpuOf(po, co, l, w, qu, wk, e, pn)
    BY <1>2 DEF IsCpu
  <1>4.   /\ u.policy = po /\ u.cores = co /\ u.load = l /\ u.waiting = w
        /\ u.queue = qu /\ u.work = wk /\ u.end = e /\ u.panicked = pn
    BY <1>3 DEF CpuOf
  <1>5. PICK u2 : u2 = CpuOf(po, co, l, With(w, c, <<i>>), Append(qu, c), wk, e, pn)
    OBVIOUS
  <1>6. g = HostOf(cs, n, fr, fu, rs, ac, pd, cap, con, u2, rg, iv, q)
    <2>1. PICK x1, x2 : x1 = With(w, c, <<i>>) /\ x2 = Append(qu, c)
      OBVIOUS
    <2>2. PICK m : m = [h EXCEPT !.cpu.waiting = x1]
      OBVIOUS
    <2>3. g = [m EXCEPT !.cpu.queue = x2]
      BY <1>2, <1>4, <2>1, <2>2 DEF Waits
    <2>4. m = HostOf(cs, n, fr, fu, rs, ac, pd, cap, con, CpuOf(po, co, l, x1, qu, wk, e, pn), rg, iv, q)
      BY ONLY <1>1, <1>3, <2>2 DEF HostOf, CpuOf
    <2>5. g = HostOf(cs, n, fr, fu, rs, ac, pd, cap, con, CpuOf(po, co, l, x1, x2, wk, e, pn), rg, iv, q)
      BY ONLY <2>3, <2>4 DEF HostOf, CpuOf
    <2> QED BY <1>5, <2>1, <2>5
  <1>7. IsHost(g)
    BY <1>6, HostIs
  <1>8.   /\ h.containers = cs /\ h.next = n /\ h.free = fr /\ h.full = fu
        /\ h.reservations = rs /\ h.active = ac /\ h.pending = pd /\ h.capacity = cap
        /\ h.consumed = con /\ h.cpu = u /\ h.registry = rg /\ h.invoker = iv
        /\ h.queue = q
    BY <1>1 DEF HostOf
  <1>9.   /\ g.containers = cs /\ g.next = n /\ g.free = fr /\ g.full = fu
        /\ g.reservations = rs /\ g.active = ac /\ g.pending = pd /\ g.capacity = cap
        /\ g.consumed = con /\ g.cpu = u2 /\ g.registry = rg /\ g.invoker = iv
        /\ g.queue = q
    BY ONLY <1>6 DEF HostOf
  <1>10. u2 = CpuOf(h.cpu.policy, h.cpu.cores, h.cpu.load, With(h.cpu.waiting, c, <<i>>), Append(h.cpu.queue, c), h.cpu.work, h.cpu.end, h.cpu.panicked)
    BY <1>2, <1>4, <1>5
  <1> QED BY ONLY <1>7, <1>8, <1>9, <1>10 DEF CpuChanges, SameBooks, SameRegistry

LEMMA WorkDoes ==
    ASSUME NEW h, IsHost(h), IsCpu(h.cpu), NEW i, NEW x
    PROVE  CpuChanges(Works(h, i, x), h,
             CpuOf(h.cpu.policy, h.cpu.cores, h.cpu.load, h.cpu.waiting, h.cpu.queue, h.cpu.work \cup {i}, h.cpu.end, (h.cpu.panicked \/ x)))
  <1> SUFFICES ASSUME NEW g, g = Works(h, i, x)
               PROVE  CpuChanges(g, h,
                        CpuOf(h.cpu.policy, h.cpu.cores, h.cpu.load, h.cpu.waiting, h.cpu.queue, h.cpu.work \cup {i}, h.cpu.end, (h.cpu.panicked \/ x)))
    OBVIOUS
  <1>1. PICK cs, n, fr, fu, rs, ac, pd, cap, con, u, rg, iv, q :
          h = HostOf(cs, n, fr, fu, rs, ac, pd, cap, con, u, rg, iv, q)
    BY DEF IsHost
  <1>2. h.cpu = u
    BY <1>1 DEF HostOf
  <1>3. PICK po, co, l, w, qu, wk, e, pn : u = CpuOf(po, co, l, w, qu, wk, e, pn)
    BY <1>2 DEF IsCpu
  <1>4.   /\ u.policy = po /\ u.cores = co /\ u.load = l /\ u.waiting = w
        /\ u.queue = qu /\ u.work = wk /\ u.end = e /\ u.panicked = pn
    BY <1>3 DEF CpuOf
  <1>5. PICK u2 : u2 = CpuOf(po, co, l, w, qu, wk \cup {i}, e, (pn \/ x))
    OBVIOUS
  <1>6. g = HostOf(cs, n, fr, fu, rs, ac, pd, cap, con, u2, rg, iv, q)
    <2>1. PICK x1, x2 : x1 = (pn \/ x) /\ x2 = wk \cup {i}
      OBVIOUS
    <2>2. PICK m : m = [h EXCEPT !.cpu.panicked = x1]
      OBVIOUS
    <2>3. g = [m EXCEPT !.cpu.work = x2]
      BY <1>2, <1>4, <2>1, <2>2 DEF Works
    <2>4. m = HostOf(cs, n, fr, fu, rs, ac, pd, cap, con, CpuOf(po, co, l, w, qu, wk, e, x1), rg, iv, q)
      BY ONLY <1>1, <1>3, <2>2 DEF HostOf, CpuOf
    <2>5. g = HostOf(cs, n, fr, fu, rs, ac, pd, cap, con, CpuOf(po, co, l, w, qu, x2, e, x1), rg, iv, q)
      BY ONLY <2>3, <2>4 DEF HostOf, CpuOf
    <2> QED BY <1>5, <2>1, <2>5
  <1>7. IsHost(g)
    BY <1>6, HostIs
  <1>8.   /\ h.containers = cs /\ h.next = n /\ h.free = fr /\ h.full = fu
        /\ h.reservations = rs /\ h.active = ac /\ h.pending = pd /\ h.capacity = cap
        /\ h.consumed = con /\ h.cpu = u /\ h.registry = rg /\ h.invoker = iv
        /\ h.queue = q
    BY <1>1 DEF HostOf
  <1>9.   /\ g.containers = cs /\ g.next = n /\ g.free = fr /\ g.full = fu
        /\ g.reservations = rs /\ g.active = ac /\ g.pending = pd /\ g.capacity = cap
        /\ g.consumed = con /\ g.cpu = u2 /\ g.registry = rg /\ g.invoker = iv
        /\ g.queue = q
    BY ONLY <1>6 DEF HostOf
  <1>10. u2 = CpuOf(h.cpu.policy, h.cpu.cores, h.cpu.load, h.cpu.waiting, h.cpu.queue, h.cpu.work \cup {i}, h.cpu.end, (h.cpu.panicked \/ x))
    BY <1>2, <1>4, <1>5
  <1> QED BY ONLY <1>7, <1>8, <1>9, <1>10 DEF CpuChanges, SameBooks, SameRegistry

-----------------------------------------------------------------------------
(* The cpu is told of an invocation that has entered a container.          *)

\* Only the cpu and the ends of invocations to come are different.
Working(g, h) ==
    /\ IsHost(g) /\ SameBooks(g, h) /\ SameRegistry(g, h) /\ IsABag(g.pending)
    /\ \A c : Starts(g.pending, c) = Starts(h.pending, c)
    /\ \A c : Ends(g.pending, c) = Ends(h.pending, c)

\* One more answer of the cpu is to come.
LEMMA AnswerComes ==
    ASSUME NEW h, IsHost(h), IsABag(h.pending), IsCpu(h.cpu), NEW m, NEW u2,
           CpuChanges(m, h, u2), NEW i, NEW g, g = Emit(m, InvocationEnd(i))
    PROVE  /\ Working(g, h) /\ g.cpu = u2 /\ Answers(g.pending, i) = Answers(h.pending, i) + 1
           /\ \A j : j # i => Answers(g.pending, j) = Answers(h.pending, j)
  <1>1. Emits(g, m, InvocationEnd(i))
    BY EmitDoes DEF CpuChanges
  <1>2. g.pending = h.pending (+) SetToBag({InvocationEnd(i)}) /\ g.cpu = u2
    BY <1>1 DEF Emits, CpuChanges
  <1>3. SameBooks(g, h) /\ SameRegistry(g, h) /\ IsHost(g)
    BY <1>1 DEF Emits, CpuChanges, SameBooks, SameRegistry
  <1>4. AnswerAdded(g.pending, h.pending, i)
    BY <1>2, AnswerEmitted
  <1> QED BY <1>2, <1>3, <1>4 DEF Working, AnswerAdded

\* Isolated: another container waits, or another invocation.
LEMMA CpuKnows ==
    ASSUME NEW h, IsABag(h.pending), IsCpu(h.cpu), h.cpu.policy = "Isolated",
           h.cpu.end = 0, h.cpu.work = {},
           NEW w, NEW q, NEW k, NEW b, WaitingOf(w, q, k, b),
           \A j : Answers(h.pending, j) =
                    IF j \in DOMAIN k /\ k[j] = "told" /\ b[j] \notin DOMAIN w THEN 1 ELSE 0,
           NEW g, CpuChanges(g, h, CpuOf(h.cpu.policy, h.cpu.cores, h.cpu.load, w, q,
                                         h.cpu.work, h.cpu.end, h.cpu.panicked))
    PROVE  Working(g, h) /\ KnowsOf(g.cpu, g.pending, k, b)
  <1>1. PICK u2 : u2 = CpuOf(h.cpu.policy, h.cpu.cores, h.cpu.load, w, q,
                             h.cpu.work, h.cpu.end, h.cpu.panicked)
    OBVIOUS
  <1>2. /\ u2.policy = "Isolated" /\ u2.waiting = w /\ u2.queue = q /\ u2.work = {}
        /\ u2.end = 0
    BY <1>1 DEF CpuOf
  <1>3. IsCpu(u2)
    BY <1>1, Zenon DEF IsCpu
  <1>4. g.cpu = u2 /\ g.pending = h.pending /\ Working(g, h)
    BY <1>1 DEF CpuChanges, Working
  <1>5. Told(u2, g.pending, k, b)
    BY <1>2, <1>4 DEF Told
  <1> QED BY <1>3, <1>4, <1>5 DEF KnowsOf

LEMMA CpuTold ==
    ASSUME NEW h, IsHost(h), IsABag(h.pending), NEW k, NEW b, KnowsOf(h.cpu, h.pending, k, b),
           DOMAIN b = DOMAIN k, IsFiniteSet(DOMAIN k), 0 \notin DOMAIN k,
           NEW i \in DOMAIN k, k[i] = "entered", NEW c \in Nat, b[i] = c,
           Invocations(h, c) = Held(k, b, In, c),
           NEW k2, Moved(k2, b, k, b, i, "told", c),
           NEW g, g = CpuStart(h, i, c)
    PROVE  Working(g, h) /\ KnowsOf(g.cpu, g.pending, k2, b)
  <1> DEFINE u == h.cpu
  <1>1. IsCpu(u) /\ Told(u, h.pending, k, b)
    BY DEF KnowsOf
  <1>2. HeldAfter(k2, b, k, b, i, "told", c)
    BY HeldMoved
  <1>3. /\ Held(k2, b, {"told"}, c) = Held(k, b, {"told"}, c) \cup {i}
        /\ i \notin Held(k, b, {"told"}, c)
        /\ \A d : d # c => Held(k2, b, {"told"}, d) = Held(k, b, {"told"}, d)
    <2>1. \A d : i \notin Held(k, b, {"told"}, d)
      BY DEF Held
    <2>2. \A d : d # c => Held(k2, b, {"told"}, d) = Held(k, b, {"told"}, d) \ {i}
      BY <1>2 DEF HeldAfter
    <2>3. Held(k2, b, {"told"}, c) = Held(k, b, {"told"}, c) \cup {i}
      BY <1>2 DEF HeldAfter
    <2> QED BY <2>1, <2>2, <2>3
  <1>4. /\ DOMAIN k2 = DOMAIN k /\ k2[i] = "told" /\ \A j \in DOMAIN k : j # i => k2[j] = k[j]
    BY <1>2 DEF HeldAfter
  <1>5. PICK l : l = IF Alone(h, c) THEN u.load + ShareOf(h, c) ELSE u.load
    OBVIOUS
  <1>6. PICK m : m = AddLoad(h, c)
    OBVIOUS
  <1>7. CpuChanges(m, h, CpuOf(u.policy, u.cores, l, u.waiting, u.queue, u.work, u.end, u.panicked))
    BY <1>1, <1>5, <1>6, AddLoadDoes
  <1>8. PICK u1 : u1 = CpuOf(u.policy, u.cores, l, u.waiting, u.queue, u.work, u.end, u.panicked)
    OBVIOUS
  <1>9. /\ IsCpu(u1) /\ u1.policy = u.policy /\ u1.waiting = u.waiting /\ u1.queue = u.queue
        /\ u1.work = u.work /\ u1.end = u.end
    <2>1. /\ u1.policy = u.policy /\ u1.waiting = u.waiting /\ u1.queue = u.queue
          /\ u1.work = u.work /\ u1.end = u.end
      BY <1>8 DEF CpuOf
    <2>2. IsCpu(u1)
      BY <1>8, Zenon DEF IsCpu
    <2> QED BY <2>1, <2>2
  <1>10. CpuChanges(m, h, u1)
    BY <1>7, <1>8
  <1>11. \A j : Answers(h.pending, j) \in Nat
    BY EmittedCopies DEF Answers
  \* The first invocation of the container, or one of those it works on.
  <1>12. ASSUME g = Emit(m, InvocationEnd(i))
         PROVE  /\ Working(g, h) /\ g.cpu = u1
                /\ Answers(g.pending, i) = Answers(h.pending, i) + 1
                /\ \A j : j # i => Answers(g.pending, j) = Answers(h.pending, j)
    BY <1>1, <1>10, <1>12, AnswerComes
  <1>13. CASE u.policy = "Ignored"
    <2>1. g = Emit(m, InvocationEnd(i))
      BY <1>6, <1>13 DEF CpuStart
    <2>2. Told(u1, g.pending, k2, b)
      BY <1>1, <1>4, <1>9, <1>12, <1>13, <2>1 DEF Told
    <2> QED BY <1>9, <1>12, <2>1, <2>2 DEF KnowsOf
  <1>14. CASE u.policy = "Contended"
    <2>1. PICK x : x = ~ (Invocations(h, c) \ {i} \subseteq h.cpu.work)
      OBVIOUS
    <2>2. g = Works(m, i, x)
      BY <1>6, <1>14, <2>1 DEF CpuStart, ContendedStart, Works
    <2>3. IsHost(m) /\ m.cpu = u1
      BY <1>10 DEF CpuChanges
    <2>4. CpuChanges(g, m, CpuOf(m.cpu.policy, m.cpu.cores, m.cpu.load, m.cpu.waiting, m.cpu.queue,
                                 m.cpu.work \cup {i}, m.cpu.end, (m.cpu.panicked \/ x)))
      BY <1>9, <2>2, <2>3, WorkDoes
    <2>5. PICK u2 : u2 = CpuOf(m.cpu.policy, m.cpu.cores, m.cpu.load, m.cpu.waiting, m.cpu.queue,
                                 m.cpu.work \cup {i}, m.cpu.end, (m.cpu.panicked \/ x))
      OBVIOUS
    <2>6. /\ u2.policy = u.policy /\ u2.waiting = u.waiting /\ u2.work = u.work \cup {i}
          /\ u2.end = u.end
      BY <1>9, <2>3, <2>5 DEF CpuOf
    <2>7. IsCpu(u2)
      BY <2>5, Zenon DEF IsCpu
    <2>8. g.cpu = u2 /\ g.pending = h.pending /\ Working(g, h)
      BY <1>10, <2>4, <2>5 DEF CpuChanges, Working, SameBooks, SameRegistry
    <2>9. u2.work = {j \in DOMAIN k2 : k2[j] \in {"told", "ending"}}
      BY <1>1, <1>4, <1>14, <2>6 DEF Told
    <2>10. Told(u2, g.pending, k2, b)
      BY <1>1, <1>4, <1>14, <2>6, <2>8, <2>9 DEF Told
    <2> QED BY <2>7, <2>8, <2>10 DEF KnowsOf
  <1>15. CASE u.policy = "Isolated"
    <2>1. g = IsolatedStart(h, i, c)
      BY <1>15 DEF CpuStart
    <2>2. WaitingOf(u.waiting, u.queue, k, b) /\ u.end = 0 /\ u.work = {}
          /\ \A j : Answers(h.pending, j) =
               IF j \in DOMAIN k /\ k[j] = "told" /\ b[j] \notin DOMAIN u.waiting THEN 1 ELSE 0
      BY <1>1, <1>15 DEF Told
    <2>3. CASE c \in DOMAIN u.waiting
      <3>1. g = Joined(h, c, i)
        BY <2>1, <2>3 DEF IsolatedStart, Joined
      <3>2. PICK w2 : w2 = [u.waiting EXCEPT ![c] = Append(u.waiting[c], i)]
        OBVIOUS
      <3>3. CpuChanges(g, h, CpuOf(u.policy, u.cores, u.load, w2, u.queue, u.work, u.end, u.panicked))
        BY <1>1, <3>1, <3>2, JoinDoes
      <3>4. /\ DOMAIN w2 = DOMAIN u.waiting /\ w2[c] = Append(u.waiting[c], i)
            /\ \A d \in DOMAIN w2 : d # c => w2[d] = u.waiting[d]
        BY <2>3, <3>2
      <3>5. WaitingOf(w2, u.queue, k2, b)
        <4>1. ListHolds(u.waiting[c], Held(k, b, {"told"}, c)) /\ IsFiniteSet(Held(k, b, {"told"}, c))
          BY <2>2, <2>3, HeldFinite DEF WaitingOf
        <4>2. PICK H : H = Held(k, b, {"told"}, c)
          OBVIOUS
        <4>3. /\ ListHolds(Append(u.waiting[c], i), H \cup {i})
              /\ Append(u.waiting[c], i) # <<>>
          BY <1>3, <4>1, <4>2, ListAppend
        <4>4. ListHolds(w2[c], Held(k2, b, {"told"}, c)) /\ w2[c] # <<>>
          BY <1>3, <3>4, <4>2, <4>3
        <4> QED BY <1>3, <2>2, <3>4, <4>4 DEF WaitingOf
      <3>6. \A j : Answers(h.pending, j) =
               IF j \in DOMAIN k2 /\ k2[j] = "told" /\ b[j] \notin DOMAIN w2 THEN 1 ELSE 0
        BY <1>4, <2>2, <2>3, <3>4
      <3> QED BY <1>1, <1>15, <2>2, <3>3, <3>5, <3>6, CpuKnows
    <2>4. CASE c \notin DOMAIN u.waiting /\ Alone(h, c) /\ u.load + ShareOf(h, c) > u.cores
      <3>1. g = Waits(h, c, i)
        BY <2>1, <2>4 DEF IsolatedStart, Waits
      <3>2. PICK w2, q2 : w2 = With(u.waiting, c, <<i>>) /\ q2 = Append(u.queue, c)
        OBVIOUS
      <3>3. CpuChanges(g, h, CpuOf(u.policy, u.cores, u.load, w2, q2, u.work, u.end, u.panicked))
        BY <1>1, <3>1, <3>2, WaitDoes
      <3>4. /\ DOMAIN w2 = DOMAIN u.waiting \cup {c} /\ w2[c] = <<i>>
            /\ \A d \in DOMAIN u.waiting : w2[d] = u.waiting[d] /\ d # c
        BY <2>4, <3>2 DEF With
      <3>5. Held(k, b, {"told"}, c) = {} /\ Held(k, b, In, c) = {i}
        <4>1. PICK x : Held(k, b, In, c) = {x}
          BY <2>4, HeldFinite, FS_Singleton DEF Alone
        <4>2. i \in Held(k, b, In, c) /\ \A j \in Held(k, b, {"told"}, c) : j \in Held(k, b, In, c)
          BY DEF Held, In
        <4> QED BY <1>3, <4>1, <4>2
      <3>6. WaitingOf(w2, q2, k2, b)
        <4>1. Append(<<>>, i) = <<i>>
          OBVIOUS
        <4>2. ListHolds(w2[c], Held(k2, b, {"told"}, c)) /\ w2[c] # <<>>
          <5>1. ListHolds(Append(<<>>, i), {} \cup {i}) /\ Append(<<>>, i) # <<>>
            BY ListEmpty, ListAppend, FS_EmptySet
          <5> QED BY <1>3, <3>4, <3>5, <4>1, <5>1
        <4>3. /\ q2 \in Seq(Nat) /\ IsInjective(q2) /\ Range(q2) = DOMAIN w2
          <5>1. u.queue \in Seq(Nat) /\ IsInjective(u.queue) /\ c \notin Range(u.queue)
            BY <2>2, <2>4 DEF WaitingOf
          <5>2. /\ Append(u.queue, c) \in Seq(Nat) /\ IsInjective(Append(u.queue, c))
                /\ Range(Append(u.queue, c)) = Range(u.queue) \cup {c}
            BY <5>1, AppendDistinct
          <5> QED BY <2>2, <3>2, <3>4, <5>2 DEF WaitingOf
        <4> QED BY <1>3, <2>2, <3>4, <4>2, <4>3 DEF WaitingOf
      <3>7. \A j : Answers(h.pending, j) =
               IF j \in DOMAIN k2 /\ k2[j] = "told" /\ b[j] \notin DOMAIN w2 THEN 1 ELSE 0
        <4>1. \A j \in DOMAIN k : b[j] = c /\ k2[j] = "told" => j = i
          BY <1>4, <3>5 DEF Held
        <4> QED BY <1>4, <2>2, <2>4, <3>4, <4>1
      <3> QED BY <1>1, <1>15, <2>2, <3>3, <3>6, <3>7, CpuKnows
    <2>5. CASE c \notin DOMAIN u.waiting /\ ~ (Alone(h, c) /\ u.load + ShareOf(h, c) > u.cores)
      <3>1. g = Emit(m, InvocationEnd(i))
        BY <1>6, <2>1, <2>5 DEF IsolatedStart
      <3>2. WaitingOf(u1.waiting, u1.queue, k2, b)
        BY <1>3, <1>9, <2>2, <2>5 DEF WaitingOf
      <3>3. Told(u1, g.pending, k2, b)
        BY <1>4, <1>9, <1>12, <1>15, <2>2, <2>5, <3>1, <3>2 DEF Told
      <3> QED BY <1>9, <1>12, <3>1, <3>3 DEF KnowsOf
    <2> QED BY <2>3, <2>4, <2>5
  <1> QED BY <1>1, <1>13, <1>14, <1>15 DEF Told
\* The applications of the invocations are kept.
SameApps(g, h) ==
    /\ DOMAIN g.registry = DOMAIN h.registry
    /\ \A j \in DOMAIN h.registry : g.registry[j].app = h.registry[j].app

\* The books, the queue and the events of containers are kept.
Tells(g, h) ==
    /\ IsHost(g) /\ SameBooks(g, h) /\ IsABag(g.pending) /\ SameApps(g, h)
    /\ g.active = h.active /\ g.invoker = h.invoker /\ g.queue = h.queue
    /\ \A c : Starts(g.pending, c) = Starts(h.pending, c)
    /\ \A c : Ends(g.pending, c) = Ends(h.pending, c)

LEMMA TellCore ==
    ASSUME NEW h, NEW k, NEW b, HostButLists(h, k, b), NEW i \in DOMAIN k, k[i] = "entered",
           NEW c, b[i] = c, NEW k2, Moved(k2, b, k, b, i, "told", c),
           NEW m, m = Assign(h, i, "Running", c), NEW g, g = CpuStart(m, i, c)
    PROVE  HostButLists(g, k2, b) /\ Tells(g, h)
  <1>1. /\ IsHost(h) /\ StockOf(h.containers, h.next)
        /\ BudgetOf(h.containers, h.capacity, h.consumed)
        /\ EntriesOf(h.registry, k, b) /\ Inside(h.containers, k, b)
        /\ ReservedFor(h.reservations, k, b)
        /\ CyclesOf(h.containers, h.reservations, h.pending, {})
        /\ KnowsOf(h.cpu, h.pending, k, b) /\ ActiveOf(h.active, k)
    BY DEF HostButLists
  <1>2. Assigns(m, h, i, "Running", c)
    BY <1>1, AssignDoes
  <1>3. /\ IsHost(m) /\ SameBooks(m, h) /\ m.active = h.active /\ m.pending = h.pending
        /\ m.cpu = h.cpu /\ m.invoker = h.invoker /\ m.queue = h.queue
        /\ m.registry = [h.registry EXCEPT ![i] = [h.registry[i] EXCEPT !.status = "Running",
                                                                        !.container = c]]
    BY <1>2 DEF Assigns
  <1>4. /\ DOMAIN k = DOMAIN h.registry /\ DOMAIN b = DOMAIN k /\ IsFiniteSet(DOMAIN k)
        /\ 0 \notin DOMAIN k /\ EntryAgrees(h.registry[i], "entered", c)
    BY <1>1 DEF EntriesOf
  <1>5. /\ DOMAIN m.registry = DOMAIN h.registry
        /\ \A j \in DOMAIN h.registry : j # i => m.registry[j] = h.registry[j]
        /\ m.registry[i] = [h.registry[i] EXCEPT !.status = "Running", !.container = c]
    BY <1>3, <1>4
  <1>6. EntryAgrees(m.registry[i], "told", c)
    BY <1>4, <1>5, EntryUpdated DEF EntryAgrees
  <1>7. EntriesOf(m.registry, k2, b)
    <2>1. "told" \in Kinds
      BY DEF Kinds, Holding, In
    <2> QED BY <1>1, <1>5, <1>6, <2>1, EntriesMoved
  <1>8. c \in DOMAIN h.containers /\ c \in Nat
    <2>1. "entered" \in Holding
      BY DEF Holding, In
    <2> QED BY <1>1, <2>1 DEF Inside, StockOf
  <1>9. Invocations(m, c) = Held(k, b, In, c)
    BY <1>1, <1>3, <1>8 DEF Inside, Invocations, SameBooks
  <1>10. IsABag(m.pending) /\ KnowsOf(m.cpu, m.pending, k, b)
    BY <1>1, <1>3 DEF CyclesOf
  <1>11. Working(g, m) /\ KnowsOf(g.cpu, g.pending, k2, b)
    BY <1>3, <1>4, <1>8, <1>9, <1>10, CpuTold
  <1>12. Tells(g, h)
    <2>1. m.registry[i].app = h.registry[i].app
      BY <1>4, <1>5, EntryUpdated DEF EntryAgrees
    <2>2. SameApps(m, h)
      BY <1>5, <2>1 DEF SameApps
    <2>3. SameApps(g, h)
      BY <1>11, <2>2 DEF Working, SameRegistry, SameApps
    <2> QED BY <1>3, <1>11, <2>3 DEF Tells, Working, SameBooks, SameRegistry
  <1>13. g.registry = m.registry /\ g.containers = h.containers /\ g.reservations = h.reservations
         /\ g.next = h.next /\ g.capacity = h.capacity /\ g.consumed = h.consumed /\ g.active = h.active
    BY <1>11, <1>12 DEF Working, SameRegistry, Tells, SameBooks
  <1>14. HeldAfter(k2, b, k, b, i, "told", c)
    BY <1>4, HeldMoved
  <1>15. /\ \A d : Held(k2, b, In, d) = Held(k, b, In, d)
         /\ \A d : Held(k2, b, {"reserved"}, d) = Held(k, b, {"reserved"}, d)
    <2>1. "told" \in In /\ "entered" \in In
      BY DEF In
    <2>2. DOMAIN k2 = DOMAIN k /\ k2[i] = "told" /\ \A j \in DOMAIN k : j # i => k2[j] = k[j]
      BY <1>14 DEF HeldAfter
    <2> QED BY <2>1, <2>2 DEF Held
  <1>16. Inside(g.containers, k2, b)
    <2>1. \A j \in DOMAIN k2 : k2[j] \in Holding => b[j] \in DOMAIN h.containers
      BY <1>1, <1>8, <1>14 DEF Inside, HeldAfter
    <2> QED BY <1>1, <1>13, <1>15, <2>1 DEF Inside
  <1>17. ReservedFor(g.reservations, k2, b)
    BY <1>1, <1>13, <1>15, ReservedSame
  <1>18. CyclesOf(g.containers, g.reservations, g.pending, {})
    BY <1>1, <1>12, <1>13 DEF CyclesOf, Tells
  <1>19. ActiveOf(g.active, k2)
    BY <1>1, <1>13, ActiveMoved
  <1> QED BY <1>1, <1>7, <1>11, <1>12, <1>13, <1>16, <1>17, <1>18, <1>19 DEF HostButLists, Tells

\* Of an invocation that is told, the container holds what it held.
LEMMA TellKeeps ==
    ASSUME NEW h, NEW k, NEW b, HostAt(h, k, b, {}), NEW i \in DOMAIN k, k[i] = "entered",
           NEW c, b[i] = c, NEW k2, Moved(k2, b, k, b, i, "told", c),
           NEW m, m = Assign(h, i, "Running", c), NEW g, g = CpuStart(m, i, c)
    PROVE  HostAt(g, k2, b, {}) /\ Tells(g, h)
  <1>1. HostButLists(h, k, b) /\ ListsOf(h.containers, h.free, h.full, k, b)
    BY DEF HostAt, HostButLists
  <1>2. HostButLists(g, k2, b) /\ Tells(g, h)
    BY <1>1, TellCore
  <1>3. \A d : Held(k2, b, Holding, d) = Held(k, b, Holding, d)
    <2>1. "told" \in Holding /\ "entered" \in Holding
      BY DEF Holding, In
    <2>2. DOMAIN k2 = DOMAIN k /\ k2[i] = "told" /\ \A j \in DOMAIN k : j # i => k2[j] = k[j]
      BY DEF Moved
    <2> QED BY <2>1, <2>2 DEF Held
  <1>4. ListsOf(g.containers, g.free, g.full, k2, b)
    <2>1. ListsOf(h.containers, h.free, h.full, k2, b)
      BY <1>1, <1>3, ListsAfterClaim
    <2> QED BY <1>2, <2>1 DEF Tells, SameBooks
  <1> QED BY <1>2, <1>4 DEF HostAt, HostButLists
-----------------------------------------------------------------------------
(* A container's status and window change.                                 *)

Marked(h, c, s) == [h EXCEPT !.containers[c].status = s]

Remembered(h, c, x) == [h EXCEPT !.containers[c].windowSet = @ \/ x]

WithStatus(v, s) == [v EXCEPT !.status = s]

WithWindow(v, x) == [v EXCEPT !.windowSet = @ \/ x]

Changes(g, h, c, v) ==
    /\ IsHost(g) /\ SameRegistry(g, h) /\ g.next = h.next
    /\ g.free = h.free /\ g.full = h.full
    /\ g.reservations = h.reservations /\ g.pending = h.pending
    /\ g.capacity = h.capacity /\ g.consumed = h.consumed /\ g.cpu = h.cpu
    /\ g.containers = [h.containers EXCEPT ![c] = v]

LEMMA MarkDoes ==
    ASSUME NEW h, IsHost(h), NEW c, NEW s
    PROVE  Changes(Marked(h, c, s), h, c, WithStatus(h.containers[c], s))
  <1> SUFFICES ASSUME NEW g, g = Marked(h, c, s)
               PROVE  Changes(g, h, c, WithStatus(h.containers[c], s))
    OBVIOUS
  <1>1. PICK cs, n, fr, fu, rs, ac, pd, cap, con, u, rg, iv, q :
          h = HostOf(cs, n, fr, fu, rs, ac, pd, cap, con, u, rg, iv, q)
    BY DEF IsHost
  <1>2. g = HostOf([cs EXCEPT ![c] = WithStatus(cs[c], s)], n, fr, fu, rs, ac, pd, cap, con, u, rg, iv, q)
    BY <1>1 DEF HostOf, Marked, WithStatus
  <1>3. IsHost(g)
    BY <1>2, HostIs
  <1>4.   /\ h.containers = cs /\ h.next = n /\ h.free = fr /\ h.full = fu
        /\ h.reservations = rs /\ h.active = ac /\ h.pending = pd /\ h.capacity = cap
        /\ h.consumed = con /\ h.cpu = u /\ h.registry = rg /\ h.invoker = iv
        /\ h.queue = q
    BY <1>1 DEF HostOf
  <1>5.   /\ g.containers = [cs EXCEPT ![c] = WithStatus(cs[c], s)] /\ g.next = n
        /\ g.free = fr /\ g.full = fu /\ g.reservations = rs /\ g.active = ac
        /\ g.pending = pd /\ g.capacity = cap /\ g.consumed = con /\ g.cpu = u
        /\ g.registry = rg /\ g.invoker = iv /\ g.queue = q
    BY <1>2 DEF HostOf
  <1> QED BY ONLY <1>3, <1>4, <1>5 DEF Changes, SameBooks, SameRegistry

LEMMA RememberDoes ==
    ASSUME NEW h, IsHost(h), NEW c, NEW x
    PROVE  Changes(Remembered(h, c, x), h, c, WithWindow(h.containers[c], x))
  <1> SUFFICES ASSUME NEW g, g = Remembered(h, c, x)
               PROVE  Changes(g, h, c, WithWindow(h.containers[c], x))
    OBVIOUS
  <1>1. PICK cs, n, fr, fu, rs, ac, pd, cap, con, u, rg, iv, q :
          h = HostOf(cs, n, fr, fu, rs, ac, pd, cap, con, u, rg, iv, q)
    BY DEF IsHost
  <1>2. g = HostOf([cs EXCEPT ![c] = WithWindow(cs[c], x)], n, fr, fu, rs, ac, pd, cap, con, u, rg, iv, q)
    BY <1>1 DEF HostOf, Remembered, WithWindow
  <1>3. IsHost(g)
    BY <1>2, HostIs
  <1>4.   /\ h.containers = cs /\ h.next = n /\ h.free = fr /\ h.full = fu
        /\ h.reservations = rs /\ h.active = ac /\ h.pending = pd /\ h.capacity = cap
        /\ h.consumed = con /\ h.cpu = u /\ h.registry = rg /\ h.invoker = iv
        /\ h.queue = q
    BY <1>1 DEF HostOf
  <1>5.   /\ g.containers = [cs EXCEPT ![c] = WithWindow(cs[c], x)] /\ g.next = n
        /\ g.free = fr /\ g.full = fu /\ g.reservations = rs /\ g.active = ac
        /\ g.pending = pd /\ g.capacity = cap /\ g.consumed = con /\ g.cpu = u
        /\ g.registry = rg /\ g.invoker = iv /\ g.queue = q
    BY <1>2 DEF HostOf
  <1> QED BY ONLY <1>3, <1>4, <1>5 DEF Changes, SameBooks, SameRegistry

LEMMA ChangedIs ==
    ASSUME NEW v, IsContainer(v), NEW s, NEW x
    PROVE  /\ Becomes(WithStatus(v, s), v, s, v.invocations)
           /\ Becomes(WithWindow(v, x), v, v.status, v.invocations)
  <1>1. PICK a, t, I, w : v = [app |-> a, status |-> t, invocations |-> I, windowSet |-> w]
    BY DEF IsContainer
  <1>2. WithStatus(v, s) = [app |-> a, status |-> s, invocations |-> I, windowSet |-> w]
    BY <1>1 DEF WithStatus
  <1>3. PICK y : y = (w \/ x)
    OBVIOUS
  <1>4. WithWindow(v, x) = [app |-> a, status |-> t, invocations |-> I, windowSet |-> y]
    BY <1>1, <1>3 DEF WithWindow
  <1>5. v.app = a /\ v.status = t /\ v.invocations = I
    BY <1>1
  <1> QED BY <1>2, <1>4, <1>5 DEF Becomes, IsContainer

\* The status of a container may change while its events are on their way.
Restates(v, h, c, s) ==
    /\ c \in DOMAIN h.containers
    /\ Becomes(v, h.containers[c], s, h.containers[c].invocations)

Restated(g, h, c, s) ==
    /\ DOMAIN g.containers = DOMAIN h.containers /\ g.containers[c].status = s
    /\ g.containers[c].invocations = h.containers[c].invocations

LEMMA ChangeKeeps ==
    ASSUME NEW h, NEW k, NEW b, NEW c, NEW X, X = {c}, HostAt(h, k, b, X),
           NEW v, NEW s, Restates(v, h, c, s), NEW g, Changes(g, h, c, v)
    PROVE  HostAt(g, k, b, X) /\ Restated(g, h, c, s)
  <1> DEFINE cs == h.containers
             ds == g.containers
  <1>1. /\ IsHost(g) /\ SameRegistry(g, h) /\ g.next = h.next
        /\ g.free = h.free /\ g.full = h.full
        /\ g.reservations = h.reservations /\ g.pending = h.pending
        /\ g.capacity = h.capacity /\ g.consumed = h.consumed /\ g.cpu = h.cpu
        /\ ds = [cs EXCEPT ![c] = v]
    BY DEF Changes
  <1>2. /\ DOMAIN ds = DOMAIN cs /\ ds[c] = v /\ \A d \in DOMAIN cs : d # c => ds[d] = cs[d]
    BY <1>1 DEF Restates
  <1>3. IsContainer(v) /\ v.app = cs[c].app /\ v.status = s /\ v.invocations = cs[c].invocations
         /\ c \in DOMAIN cs
    BY DEF Becomes, Restates
  <1>4. /\ StockOf(cs, h.next) /\ BudgetOf(cs, h.capacity, h.consumed)
        /\ ListsOf(cs, h.free, h.full, k, b) /\ EntriesOf(h.registry, k, b) /\ Inside(cs, k, b)
        /\ ReservedFor(h.reservations, k, b) /\ CyclesOf(cs, h.reservations, h.pending, X)
        /\ KnowsOf(h.cpu, h.pending, k, b) /\ ActiveOf(h.active, k)
    BY DEF HostAt
  <1> HIDE DEF cs, ds
  <1>5. \A d \in DOMAIN cs : ds[d].app = cs[d].app /\ ds[d].invocations = cs[d].invocations
                             /\ (IsContainer(cs[d]) => IsContainer(ds[d]))
    BY <1>2, <1>3
  <1>6. StockOf(ds, g.next)
    BY <1>1, <1>2, <1>4, <1>5 DEF StockOf
  <1>7. BudgetOf(ds, g.capacity, g.consumed) /\ ListsOf(ds, g.free, g.full, k, b)
    BY <1>1, <1>2, <1>4, <1>5, BudgetSameApps, ListsSameApps
  <1>8. Inside(ds, k, b)
    BY <1>2, <1>4, <1>5 DEF Inside
  <1>9. CyclesOf(ds, g.reservations, g.pending, X)
    BY <1>1, <1>2, <1>4 DEF CyclesOf
  <1>10. HostAt(g, k, b, X)
    BY <1>1, <1>4, <1>6, <1>7, <1>8, <1>9 DEF HostAt, SameRegistry, ds
  <1> QED BY <1>2, <1>3, <1>10 DEF Restated, cs, ds

\* Events of a container are sent, or taken out.
Sends(g, h, c) ==
    /\ IsHost(g) /\ SameBooks(g, h) /\ SameRegistry(g, h) /\ g.cpu = h.cpu
    /\ IsABag(g.pending) /\ \A i : Answers(g.pending, i) = Answers(h.pending, i)
    /\ \A d : d # c => /\ Starts(g.pending, d) = Starts(h.pending, d)
                       /\ Ends(g.pending, d) = Ends(h.pending, d)

LEMMA SendKeeps ==
    ASSUME NEW h, NEW k, NEW b, NEW X, NEW c, HostAt(h, k, b, X),
           NEW Y, Y = {c}, X \subseteq Y, c \in DOMAIN h.containers, NEW g, Sends(g, h, c)
    PROVE  HostAt(g, k, b, Y)
  <1>1. /\ CyclesOf(h.containers, h.reservations, h.pending, X)
        /\ KnowsOf(h.cpu, h.pending, k, b)
    BY DEF HostAt
  <1>2. CyclesOf(g.containers, g.reservations, g.pending, Y)
    BY <1>1 DEF CyclesOf, Sends, SameBooks
  <1>3. KnowsOf(g.cpu, g.pending, k, b)
    BY <1>1, KnowsSameAnswers DEF Sends
  <1> QED BY <1>2, <1>3 DEF HostAt, Sends, SameBooks, SameRegistry

LEMMA CycleRestored ==
    ASSUME NEW h, NEW k, NEW b, NEW c, NEW X, X = {c}, HostAt(h, k, b, X),
           CycleOf(h.containers[c].status, Starts(h.pending, c), Ends(h.pending, c),
                   h.containers[c].invocations, Reservation(h.reservations, c))
    PROVE  HostAt(h, k, b, {})
  <1>1. CyclesOf(h.containers, h.reservations, h.pending, X)
    BY DEF HostAt
  <1>2. CyclesOf(h.containers, h.reservations, h.pending, {})
    BY <1>1 DEF CyclesOf
  <1> QED BY <1>2 DEF HostAt
\* The end events of a container are n, the others as before.
EndsAre(D, B, c, n) ==
    /\ IsABag(D) /\ \A d : Starts(D, d) = Starts(B, d) /\ Answers(D, d) = Answers(B, d)
    /\ Ends(D, c) = n
    /\ \A d : d # c => Ends(D, d) = Ends(B, d)

LEMMA EndAdded ==
    ASSUME NEW B, IsABag(B), NEW c
    PROVE  EndsAre(B (+) SetToBag({ContainerEnd(c)}), B, c, Ends(B, c) + 1)
  <1>1. PICK D : D = B (+) SetToBag({ContainerEnd(c)})
    OBVIOUS
  <1>2. /\ IsABag(D) /\ \A f : Copies(f, B) \in Nat
        /\ \A f : Copies(f, D) = IF f = ContainerEnd(c) THEN Copies(f, B) + 1 ELSE Copies(f, B)
    BY <1>1, EmittedCopies
  <1>3. EndsAre(D, B, c, Ends(B, c) + 1)
    BY <1>2, EventsDiffer DEF Starts, Ends, Answers, EndsAre
  <1> QED BY <1>1, <1>3

LEMMA EndCancelled ==
    ASSUME NEW B, IsABag(B), NEW c, Ends(B, c) \in {0, 1}
    PROVE  EndsAre(B (-) SetToBag({ContainerEnd(c)}), B, c, 0)
  <1>0. PICK D : D = B (-) SetToBag({ContainerEnd(c)})
    OBVIOUS
  <1>1. PICK e : e = ContainerEnd(c)
    OBVIOUS
  <1>2. /\ IsABag(D)
        /\ \A f : Copies(f, D) = IF f = e /\ BagIn(f, B) THEN Copies(f, B) - 1 ELSE Copies(f, B)
        /\ \A f : BagIn(f, B) <=> Copies(f, B) > 0
    BY <1>0, <1>1, CancelledCopies
  <1>3. \A f : Copies(f, B) \in Nat
    BY EmittedCopies
  <1>4. \A d : ContainerStart(d) # e /\ InvocationEnd(d) # e
    BY <1>1, EventsDiffer
  <1>5. \A d : d # c => ContainerEnd(d) # e
    BY <1>1, EventsDiffer
  <1>6. EndsAre(D, B, c, 0)
    BY <1>1, <1>2, <1>3, <1>4, <1>5 DEF EndsAre, Starts, Ends, Answers
  <1> QED BY <1>0, <1>6

\* A container without invocations: it has started, and its end is to come or not.
Resting(h, c) ==
    /\ c \in DOMAIN h.containers /\ h.containers[c].status \in {"Idle", "Terminated"}
    /\ h.containers[c].invocations = {} /\ Starts(h.pending, c) = 0
    /\ Ends(h.pending, c) \in {0, 1} /\ Reservation(h.reservations, c) = <<>>

LEMMA EndSentKeeps ==
    ASSUME NEW h, NEW k, NEW b, NEW c, NEW X, X = {c}, HostAt(h, k, b, X), Resting(h, c),
           h.containers[c].status = "Idle", NEW now \in BOOLEAN,
           NEW g, g = NewEndEvent(Cancel(h, ContainerEnd(c)), c, now)
    PROVE  HostAt(g, k, b, {}) /\ SameRegistry(g, h)
  <1>1. PICK m : m = Cancel(h, ContainerEnd(c))
    OBVIOUS
  <1>2. IsHost(h) /\ IsABag(h.pending)
    BY DEF HostAt, CyclesOf
  <1>3. Cancels(m, h, ContainerEnd(c))
    BY <1>1, <1>2, CancelDoes
  <1>4. /\ IsHost(m) /\ SameBooks(m, h) /\ SameRegistry(m, h) /\ m.cpu = h.cpu
        /\ m.pending = h.pending (-) SetToBag({ContainerEnd(c)})
    BY <1>3 DEF Cancels
  <1>5. /\ IsABag(m.pending) /\ Ends(m.pending, c) = 0
        /\ \A d : Starts(m.pending, d) = Starts(h.pending, d)
                  /\ Answers(m.pending, d) = Answers(h.pending, d)
        /\ \A d : d # c => Ends(m.pending, d) = Ends(h.pending, d)
    <2>1. EndsAre(m.pending, h.pending, c, 0)
      BY <1>2, <1>4, EndCancelled DEF Resting
    <2> QED BY <2>1 DEF EndsAre
  <1>6. Sends(m, h, c)
    BY <1>4, <1>5 DEF Sends
  <1>7. c \in DOMAIN h.containers
    BY DEF Resting
  <1>8. HostAt(m, k, b, X)
    BY <1>6, <1>7, SendKeeps
  <1>9. m.containers = h.containers /\ m.reservations = h.reservations
    BY <1>4 DEF SameBooks
  <1>10. PICK s : s = IF now THEN "Terminated" ELSE m.containers[c].status
    OBVIOUS
  <1>11. s \in {"Idle", "Terminated"}
    BY <1>9, <1>10
  <1>12. PICK t : t = Marked(m, c, s)
    OBVIOUS
  <1>13. PICK v : v = WithStatus(m.containers[c], s)
    OBVIOUS
  <1>14. Changes(t, m, c, v)
    BY <1>4, <1>12, <1>13, MarkDoes
  <1>15. Restates(v, m, c, s)
    <2>1. IsContainer(m.containers[c]) /\ c \in DOMAIN m.containers
      BY <1>7, <1>8, <1>9 DEF HostAt, StockOf
    <2> QED BY <1>13, <2>1, ChangedIs DEF Restates
  <1>16. HostAt(t, k, b, X) /\ Restated(t, m, c, s)
    BY <1>8, <1>14, <1>15, ChangeKeeps
  <1>17. /\ t.containers[c].invocations = {} /\ t.containers[c].status = s
         /\ DOMAIN t.containers = DOMAIN h.containers
    BY <1>9, <1>16 DEF Restated, Resting
  <1>18. SameRegistry(t, m) /\ t.pending = m.pending /\ t.reservations = m.reservations
    BY <1>14 DEF Changes
  <1>19. g = Emit(t, ContainerEnd(c))
    BY <1>1, <1>10, <1>12 DEF NewEndEvent, Marked
  <1>20. IsHost(t)
    BY <1>16 DEF HostAt
  <1>21. Emits(g, t, ContainerEnd(c))
    BY <1>19, <1>20, EmitDoes
  <1>22. /\ IsHost(g) /\ SameBooks(g, t) /\ SameRegistry(g, t) /\ g.cpu = t.cpu
         /\ g.pending = t.pending (+) SetToBag({ContainerEnd(c)})
    BY <1>21 DEF Emits
  <1>23. /\ IsABag(g.pending) /\ Ends(g.pending, c) = 1 /\ Starts(g.pending, c) = 0
         /\ \A d : Starts(g.pending, d) = Starts(t.pending, d)
                   /\ Answers(g.pending, d) = Answers(t.pending, d)
         /\ \A d : d # c => Ends(g.pending, d) = Ends(t.pending, d)
    <2>1. EndsAre(g.pending, t.pending, c, Ends(t.pending, c) + 1)
      BY <1>5, <1>18, <1>22, EndAdded
    <2> QED BY <1>5, <1>18, <2>1 DEF EndsAre, Resting
  <1>24. Sends(g, t, c)
    BY <1>22, <1>23 DEF Sends
  <1>25. HostAt(g, k, b, X)
    BY <1>7, <1>16, <1>17, <1>24, SendKeeps
  <1>26. g.containers = t.containers /\ g.reservations = h.reservations
    BY <1>9, <1>18, <1>22 DEF SameBooks
  <1>27. CycleOf(g.containers[c].status, Starts(g.pending, c), Ends(g.pending, c),
                 g.containers[c].invocations, Reservation(g.reservations, c))
    BY <1>11, <1>17, <1>23, <1>26 DEF CycleOf, Resting
  <1>28. HostAt(g, k, b, {})
    BY <1>25, <1>27, CycleRestored
  <1> QED BY <1>4, <1>18, <1>22, <1>28 DEF SameRegistry

\* Every answer of the cold start policy leaves the container an end to come.
Decides(h, c, d) ==
    /\ d.keep \in {"NewWindow", "TerminateNow", "OldWindow"}
    /\ d.keep = "OldWindow" => Ends(h.pending, c) = 1

LEMMA KeepAliveKeeps ==
    ASSUME NEW h, NEW k, NEW b, NEW c, NEW X, X = {c}, HostAt(h, k, b, X), Resting(h, c),
           h.containers[c].status = "Idle", NEW d, Decides(h, c, d),
           NEW g, g = KeepAlive(h, c, d)
    PROVE  HostAt(g, k, b, {}) /\ SameRegistry(g, h)
  <1>1. PICK x : x = d.remember
    OBVIOUS
  <1>2. PICK t : t = Remembered(h, c, x)
    OBVIOUS
  <1>3. PICK v : v = WithWindow(h.containers[c], x)
    OBVIOUS
  <1>4. IsHost(h) /\ c \in DOMAIN h.containers /\ IsContainer(h.containers[c])
    BY DEF HostAt, StockOf, Resting
  <1>5. Changes(t, h, c, v)
    BY <1>2, <1>3, <1>4, RememberDoes
  <1>6. Restates(v, h, c, "Idle")
    BY <1>3, <1>4, ChangedIs DEF Restates
  <1>7. HostAt(t, k, b, X) /\ Restated(t, h, c, "Idle")
    BY <1>5, <1>6, ChangeKeeps
  <1>8. /\ SameRegistry(t, h) /\ t.pending = h.pending /\ t.reservations = h.reservations
    BY <1>5 DEF Changes
  <1>10. Resting(t, c) /\ t.containers[c].status = "Idle"
    BY <1>7, <1>8 DEF Resting, Restated
  <1>11. CASE d.keep = "OldWindow"
    <2>1. g = t
      BY <1>1, <1>2, <1>11 DEF KeepAlive, Remembered
    <2>2. CycleOf(t.containers[c].status, Starts(t.pending, c), Ends(t.pending, c),
                  t.containers[c].invocations, Reservation(t.reservations, c))
      BY <1>8, <1>10, <1>11 DEF CycleOf, Resting, Decides
    <2> QED BY <1>7, <1>8, <2>1, <2>2, CycleRestored
  <1>12. CASE d.keep = "NewWindow"
    <2>1. g = NewEndEvent(Cancel(t, ContainerEnd(c)), c, FALSE)
      BY <1>1, <1>2, <1>12 DEF KeepAlive, Remembered
    <2>2. HostAt(g, k, b, {}) /\ SameRegistry(g, t)
      BY <1>7, <1>10, <2>1, EndSentKeeps
    <2> QED BY <1>8, <2>2 DEF SameRegistry
  <1>13. CASE d.keep = "TerminateNow"
    <2>1. g = NewEndEvent(Cancel(t, ContainerEnd(c)), c, TRUE)
      BY <1>1, <1>2, <1>13 DEF KeepAlive, Remembered
    <2>2. HostAt(g, k, b, {}) /\ SameRegistry(g, t)
      BY <1>7, <1>10, <2>1, EndSentKeeps
    <2> QED BY <1>8, <2>2 DEF SameRegistry
  <1> QED BY <1>11, <1>12, <1>13 DEF Decides
-----------------------------------------------------------------------------
(* A container has started.                                                *)

LEMMA KnowsLike ==
    ASSUME NEW u, NEW pd, NEW k, NEW b, KnowsOf(u, pd, k, b), NEW k2,
           DOMAIN k2 = DOMAIN k,
           \A j \in DOMAIN k : /\ k2[j] = "told" <=> k[j] = "told"
                               /\ k2[j] = "ending" <=> k[j] = "ending"
    PROVE  KnowsOf(u, pd, k2, b)
  <1>3. \A d : Held(k2, b, {"told"}, d) = Held(k, b, {"told"}, d)
    BY DEF Held
  <1>4. {j \in DOMAIN k2 : k2[j] \in {"told", "ending"}}
          = {j \in DOMAIN k : k[j] \in {"told", "ending"}}
    OBVIOUS
  <1>5. ASSUME Told(u, pd, k, b), u.policy = "Ignored" PROVE Told(u, pd, k2, b)
    BY <1>5 DEF Told
  <1>6. ASSUME Told(u, pd, k, b), u.policy = "Isolated" PROVE Told(u, pd, k2, b)
    <2>1. WaitingOf(u.waiting, u.queue, k2, b)
      BY <1>3, <1>6 DEF Told, WaitingOf
    <2> QED BY <1>6, <2>1 DEF Told
  <1>7. ASSUME Told(u, pd, k, b), u.policy = "Contended" PROVE Told(u, pd, k2, b)
    BY <1>4, <1>7 DEF Told
  <1>8. IsCpu(u) /\ Told(u, pd, k, b)
    BY DEF KnowsOf
  <1> QED BY <1>5, <1>6, <1>7, <1>8 DEF KnowsOf, Told

\* The reservations of container c are taken.
Taken(k2, k, b, c) ==
    /\ DOMAIN k2 = DOMAIN k
    /\ \A j \in DOMAIN k :
         k2[j] = IF k[j] = "reserved" /\ b[j] = c THEN "starting" ELSE k[j]

LEMMA DropKeeps ==
    ASSUME NEW h, NEW k, NEW b, NEW c, NEW X, X = {c}, HostAt(h, k, b, X),
           NEW k2, Taken(k2, k, b, c), NEW g, Drops(g, h, c)
    PROVE  HostAt(g, k2, b, X) /\ Reservation(g.reservations, c) = <<>>
  <1>1. /\ IsHost(h) /\ StockOf(h.containers, h.next)
        /\ BudgetOf(h.containers, h.capacity, h.consumed)
        /\ ListsOf(h.containers, h.free, h.full, k, b)
        /\ EntriesOf(h.registry, k, b) /\ Inside(h.containers, k, b)
        /\ ReservedFor(h.reservations, k, b)
        /\ CyclesOf(h.containers, h.reservations, h.pending, X)
        /\ KnowsOf(h.cpu, h.pending, k, b) /\ ActiveOf(h.active, k)
    BY DEF HostAt
  <1>2. /\ IsHost(g) /\ SameRegistry(g, h) /\ g.containers = h.containers
        /\ g.next = h.next /\ g.free = h.free /\ g.full = h.full
        /\ g.pending = h.pending /\ g.capacity = h.capacity
        /\ g.consumed = h.consumed /\ g.cpu = h.cpu
        /\ g.reservations = Without(h.reservations, c)
    BY DEF Drops
  <1>3. /\ DOMAIN k2 = DOMAIN k
        /\ \A j \in DOMAIN k :
             k2[j] = IF k[j] = "reserved" /\ b[j] = c THEN "starting" ELSE k[j]
    BY DEF Taken
  <1>4. /\ DOMAIN g.reservations = DOMAIN h.reservations \ {c}
        /\ \A d \in DOMAIN h.reservations : d # c => g.reservations[d] = h.reservations[d]
    BY <1>2 DEF Without
  <1>5. /\ Reservation(g.reservations, c) = <<>>
        /\ \A d : d # c => Reservation(g.reservations, d) = Reservation(h.reservations, d)
    BY <1>4 DEF Reservation
  <1>6. /\ \A d : Held(k2, b, Holding, d) = Held(k, b, Holding, d)
        /\ \A d : Held(k2, b, In, d) = Held(k, b, In, d)
    BY <1>3 DEF Held, Holding, In
  <1>7. /\ Held(k2, b, {"reserved"}, c) = {}
        /\ \A d : d # c => Held(k2, b, {"reserved"}, d) = Held(k, b, {"reserved"}, d)
    BY <1>3 DEF Held
  <1>8. ReservedFor(g.reservations, k2, b)
    <2>1. \A d \in DOMAIN g.reservations : g.reservations[d] # <<>>
      BY <1>1, <1>4 DEF ReservedFor
    <2>2. ASSUME NEW d PROVE ListHolds(Reservation(g.reservations, d), Held(k2, b, {"reserved"}, d))
      <3>1. CASE d = c
        BY <1>5, <1>7, <3>1, ListEmpty
      <3>2. CASE d # c
        BY <1>1, <1>5, <1>7, <3>2 DEF ReservedFor
      <3> QED BY <3>1, <3>2
    <2> QED BY <2>1, <2>2 DEF ReservedFor
  <1>9. ListsOf(g.containers, g.free, g.full, k2, b)
    BY <1>1, <1>2, <1>6, ListsAfterClaim
  <1>10. EntriesOf(g.registry, k2, b)
    <2>1. /\ DOMAIN k = DOMAIN h.registry /\ DOMAIN b = DOMAIN h.registry
          /\ IsFiniteSet(DOMAIN h.registry) /\ g.registry = h.registry
      BY <1>1, <1>2 DEF EntriesOf, SameRegistry
    <2>2. ASSUME NEW j \in DOMAIN h.registry
          PROVE  j \in Nat \ {0} /\ k2[j] \in Kinds /\ EntryAgrees(h.registry[j], k2[j], b[j])
      <3>1. j \in Nat \ {0} /\ k[j] \in Kinds /\ EntryAgrees(h.registry[j], k[j], b[j])
        BY <1>1 DEF EntriesOf
      <3>2. CASE k[j] = "reserved" /\ b[j] = c
        <4>1. k2[j] = "starting" /\ "starting" \in Kinds
          BY <1>3, <2>1, <3>2 DEF Kinds, Holding
        <4>2. EntryAgrees(h.registry[j], "starting", b[j])
          BY <3>1, <3>2 DEF EntryAgrees
        <4> QED BY <3>1, <4>1, <4>2
      <3>3. CASE ~ (k[j] = "reserved" /\ b[j] = c)
        BY <1>3, <2>1, <3>1, <3>3
      <3> QED BY <3>2, <3>3
    <2> QED BY <1>3, <2>1, <2>2 DEF EntriesOf
  <1>11. Inside(g.containers, k2, b)
    <2>1. \A j \in DOMAIN k : k2[j] \in Holding => k[j] \in Holding
      BY <1>3 DEF Holding
    <2> QED BY <1>1, <1>2, <1>3, <1>6, <2>1 DEF Inside
  <1>12. CyclesOf(g.containers, g.reservations, g.pending, X)
    BY <1>1, <1>2, <1>5 DEF CyclesOf
  <1>13. KnowsOf(g.cpu, g.pending, k2, b)
    <2>1. \A j \in DOMAIN k : /\ k2[j] = "told" <=> k[j] = "told"
                              /\ k2[j] = "ending" <=> k[j] = "ending"
      BY <1>3
    <2> QED BY <1>1, <1>2, <1>3, <2>1, KnowsLike
  <1>14. ActiveOf(g.active, k2)
    <2>1. {j \in DOMAIN k2 : k2[j] # "finished"} = {j \in DOMAIN k : k[j] # "finished"}
      BY <1>3
    <2> QED BY <1>1, <1>2, <2>1 DEF ActiveOf, SameRegistry
  <1> QED BY <1>1, <1>2, <1>5, <1>8, <1>9, <1>10, <1>11, <1>12, <1>13, <1>14 DEF HostAt

\* What the handlers that start invocations keep.
SameQueue(g, h) == g.queue = h.queue /\ g.invoker = h.invoker

LEMMA StartKeeps ==
    ASSUME NEW h, NEW k, NEW b, NEW X, HostAt(h, k, b, X), NEW c \in DOMAIN h.containers,
           X \subseteq {c}, Startable(h, c), NEW i \in DOMAIN k, k[i] = "starting", b[i] = c,
           NEW k2, Moved(k2, b, k, b, i, "told", c), NEW g, g = StartInvocation(h, c, i)
    PROVE  /\ HostAt(g, k2, b, {}) /\ Startable(g, c) /\ SameQueue(g, h)
           /\ DOMAIN g.containers = DOMAIN h.containers
  <1>1. PICK e : e = EnterContainer(h, c, i)
    OBVIOUS
  <1>2. PICK k1 : k1 = [k EXCEPT ![i] = "entered"]
    OBVIOUS
  <1>3. IsHost(h) /\ EntriesOf(h.registry, k, b)
    BY DEF HostAt
  <1>4. Enters(e, h, c, i)
    BY <1>1, <1>3, EnterDoes
  <1>5. Moved(k1, b, k, b, i, "entered", c)
    BY <1>2, <1>3 DEF Moved, EntriesOf
  <1>6. HostAt(e, k1, b, {}) /\ Startable(e, c)
    BY <1>1, <1>5, StartEnters
  <1>7. PICK m : m = Assign(e, i, "Running", c)
    OBVIOUS
  <1>8. g = CpuStart(m, i, c)
    BY <1>1, <1>7 DEF StartInvocation
  <1>9. DOMAIN k1 = DOMAIN k /\ k1[i] = "entered"
    BY <1>2
  <1>10. Moved(k2, b, k1, b, i, "told", c)
    BY <1>2, <1>9 DEF Moved
  <1>11. HostAt(g, k2, b, {}) /\ Tells(g, e)
    BY <1>6, <1>7, <1>8, <1>9, <1>10, TellKeeps
  <1>12. Startable(g, c)
    BY <1>6, <1>11 DEF Startable, Tells, SameBooks
  <1>13. DOMAIN e.containers = DOMAIN h.containers /\ SameQueue(e, h)
    BY <1>4 DEF Enters, SameQueue, SameRegistry
  <1>14. SameQueue(g, h) /\ DOMAIN g.containers = DOMAIN h.containers
    BY <1>11, <1>13 DEF SameQueue, Tells, SameBooks
  <1> QED BY <1>11, <1>12, <1>14

\* All of the invocations S are told to the cpu.
NowTold(k2, k, S) ==
    /\ DOMAIN k2 = DOMAIN k
    /\ \A j \in DOMAIN k : k2[j] = IF j \in S THEN "told" ELSE k[j]

\* After the first of them have been started, and of X = {c} none is excepted.
Begun(g, h, k, b, c, X, S) ==
    \E k2, Y : /\ NowTold(k2, k, S) /\ HostAt(g, k2, b, Y) /\ Y \subseteq X
               /\ (S # {} => Y = {})
               /\ Startable(g, c) /\ SameQueue(g, h)
               /\ DOMAIN g.containers = DOMAIN h.containers

LEMMA StartOneMore ==
    ASSUME NEW h, NEW k, NEW b, NEW c, NEW X, X = {c}, c \in DOMAIN h.containers,
           NEW g, NEW S, Begun(g, h, k, b, c, X, S),
           NEW i \in DOMAIN k, i \notin S, k[i] = "starting", b[i] = c,
           NEW g2, g2 = StartInvocation(g, c, i), NEW T, T = S \cup {i}
    PROVE  Begun(g2, h, k, b, c, X, T)
  <1>1. PICK k2, Y : /\ NowTold(k2, k, S) /\ HostAt(g, k2, b, Y) /\ Y \subseteq X
                     /\ Startable(g, c) /\ SameQueue(g, h)
                     /\ DOMAIN g.containers = DOMAIN h.containers
    BY DEF Begun
  <1>2. DOMAIN k2 = DOMAIN k /\ \A j \in DOMAIN k : k2[j] = IF j \in S THEN "told" ELSE k[j]
    BY <1>1 DEF NowTold
  <1>3. PICK k3 : k3 = [k2 EXCEPT ![i] = "told"]
    OBVIOUS
  <1>4. Moved(k3, b, k2, b, i, "told", c) /\ k2[i] = "starting"
    BY <1>2, <1>3 DEF Moved
  <1>5. /\ HostAt(g2, k3, b, {}) /\ Startable(g2, c) /\ SameQueue(g2, g)
        /\ DOMAIN g2.containers = DOMAIN g.containers
    BY <1>1, <1>2, <1>4, StartKeeps
  <1>6. NowTold(k3, k, T)
    BY <1>2, <1>3 DEF NowTold
  <1>7. SameQueue(g2, h)
    BY <1>1, <1>5 DEF SameQueue
  <1> QED BY <1>1, <1>5, <1>6, <1>7 DEF Begun

LEMMA StartAllKeeps ==
    ASSUME NEW h, NEW k, NEW b, NEW c, NEW X, X = {c}, HostAt(h, k, b, X),
           c \in DOMAIN h.containers, Startable(h, c),
           NEW S, NEW s, ListHolds(s, S), s # <<>>,
           \A j \in S : j \in DOMAIN k /\ k[j] = "starting" /\ b[j] = c,
           NEW g, g = StartAll(h, c, s)
    PROVE  SameQueue(g, h) /\ \E k2 : NowTold(k2, k, S) /\ HostAt(g, k2, b, {})
  <1>1. s \in Seq(S) /\ IsInjective(s) /\ Range(s) = S /\ Len(s) \in Nat \ {0}
        /\ DOMAIN s = 1..Len(s) /\ \A n \in 1..Len(s) : s[n] \in S
    BY DEF ListHolds
  <1>2. PICK f : /\ f[0] = h /\ \A n \in 1..Len(s) : f[n] = StartInvocation(f[n - 1], c, s[n])
                 /\ StartAll(h, c, s) = f[Len(s)]
    BY <1>1, StartAllFolds
  <1> DEFINE Some(n) == {s[m] : m \in 1..n}
             F == {n \in 0..Len(s) : Begun(f[n], h, k, b, c, X, Some(n))}
  <1>3. 0 \in F
    <2>1. Some(0) = {}
      OBVIOUS
    <2>2. NowTold(k, k, {})
      BY DEF NowTold
    <2>3. Begun(h, h, k, b, c, X, {})
      BY <2>2 DEF Begun, SameQueue
    <2>4. Begun(f[0], h, k, b, c, X, Some(0))
      <3> HIDE DEF Some
      <3> QED BY <1>2, <2>1, <2>3
    <2> HIDE DEF Some
    <2> QED BY <1>1, <2>4
  <1>4. ASSUME NEW n \in 1..Len(s), n - 1 \in F PROVE n \in F
    <2>1. Begun(f[n - 1], h, k, b, c, X, Some(n - 1))
      BY <1>4
    <2>2. s[n] \notin Some(n - 1)
      BY <1>1 DEF IsInjective
    <2>3. Some(n) = Some(n - 1) \cup {s[n]}
      <3>1. 1..n = (1..(n - 1)) \cup {n}
        BY <1>1
      <3> QED BY <3>1
    <2>4. PICK T : T = Some(n - 1)
      OBVIOUS
    <2>5. s[n] \in DOMAIN k /\ k[s[n]] = "starting" /\ b[s[n]] = c
      BY <1>1
    <2>6. f[n] = StartInvocation(f[n - 1], c, s[n])
      BY <1>2
    <2> HIDE DEF Some
    <2>7. Begun(f[n], h, k, b, c, X, Some(n))
      BY <2>1, <2>2, <2>3, <2>4, <2>5, <2>6, StartOneMore
    <2> QED BY <1>4, <2>7
  <1> HIDE DEF F
  <1>5. \A n \in 0..Len(s) : n \in F
    BY <1>1, <1>3, <1>4, PrefixInduction
  <1>6. Len(s) \in F
    BY <1>1, <1>5
  <1>7. Begun(f[Len(s)], h, k, b, c, X, Some(Len(s)))
    BY <1>6 DEF F
  <1>8. Some(Len(s)) = S /\ S # {}
    <2>1. Some(Len(s)) = Range(s)
      BY <1>1 DEF Range
    <2> QED BY <1>1, <2>1
  <1> QED BY <1>2, <1>7, <1>8 DEF Begun
-----------------------------------------------------------------------------
(* The events of containers are delivered.                                 *)

LEMMA SameEnd ==
    ASSUME NEW u, IsCpu(u), NEW v, v = [u EXCEPT !.end = u.end]
    PROVE  v = u
  <1>1. PICK po, co, l, w, q, wk, e, pn : u = CpuOf(po, co, l, w, q, wk, e, pn)
    BY DEF IsCpu
  <1>2. v = CpuOf(po, co, l, w, q, wk, e, pn)
    BY <1>1 DEF CpuOf
  <1> QED BY <1>1, <1>2

LEMMA StartTaken ==
    ASSUME NEW B, IsABag(B), NEW c, Starts(B, c) = 1,
           NEW D, D = B (-) SetToBag({ContainerStart(c)})
    PROVE  /\ IsABag(D) /\ \A d : Ends(D, d) = Ends(B, d) /\ Answers(D, d) = Answers(B, d)
           /\ Starts(D, c) = 0 /\ \A d : d # c => Starts(D, d) = Starts(B, d)
  <1>1. PICK e : e = ContainerStart(c)
    OBVIOUS
  <1>2. /\ IsABag(D)
        /\ \A f : Copies(f, D) = IF f = e /\ BagIn(f, B) THEN Copies(f, B) - 1 ELSE Copies(f, B)
        /\ \A f : BagIn(f, B) <=> Copies(f, B) > 0
    BY <1>1, CancelledCopies
  <1>3. \A f : Copies(f, B) \in Nat
    BY EmittedCopies
  <1>4. \A d : ContainerEnd(d) # e /\ InvocationEnd(d) # e
    BY <1>1, EventsDiffer
  <1>5. \A d : d # c => ContainerStart(d) # e
    BY <1>1, EventsDiffer
  <1> QED BY <1>1, <1>2, <1>3, <1>4, <1>5 DEF Starts, Ends, Answers

\* The event of a container that was to come is delivered.
LEMMA StartDelivered ==
    ASSUME NEW h, NEW k, NEW b, HostAt(h, k, b, {}), NEW c,
           BagIn(ContainerStart(c), h.pending), NEW X, X = {c},
           NEW g, g = Delivered(h, ContainerStart(c))
    PROVE  /\ HostAt(g, k, b, X) /\ c \in DOMAIN h.containers
           /\ h.containers[c].status = "Deploying" /\ h.containers[c].invocations = {}
           /\ SameBooks(g, h) /\ SameRegistry(g, h)
           /\ Starts(g.pending, c) = 0 /\ Ends(g.pending, c) = 0 /\ Ends(h.pending, c) = 0
  <1>1. /\ IsHost(h) /\ CyclesOf(h.containers, h.reservations, h.pending, {})
        /\ KnowsOf(h.cpu, h.pending, k, b) /\ IsABag(h.pending)
    BY DEF HostAt, CyclesOf
  <1>2. Starts(h.pending, c) # 0
    <2>1. \A f : BagIn(f, h.pending) <=> Copies(f, h.pending) > 0
      BY <1>1, CancelledCopies
    <2> QED BY <2>1 DEF Starts
  <1>3. /\ c \in DOMAIN h.containers
        /\ CycleOf(h.containers[c].status, Starts(h.pending, c), Ends(h.pending, c),
                   h.containers[c].invocations, Reservation(h.reservations, c))
    BY <1>1, <1>2 DEF CyclesOf
  <1>4. /\ h.containers[c].status = "Deploying" /\ h.containers[c].invocations = {}
        /\ Starts(h.pending, c) = 1 /\ Ends(h.pending, c) = 0
    BY <1>2, <1>3 DEF CycleOf
  <1>5. Takes(g, h, ContainerStart(c))
    BY <1>1, DeliveredDoes
  <1>6. /\ IsHost(g) /\ SameBooks(g, h) /\ SameRegistry(g, h)
        /\ g.pending = h.pending (-) SetToBag({ContainerStart(c)})
    BY <1>5 DEF Takes
  <1>7. g.cpu = h.cpu
    <2>1. ContainerStart(c) # InvocationEnd(h.cpu.end)
      BY EventsDiffer
    <2>2. g.cpu = [h.cpu EXCEPT !.end = h.cpu.end]
      BY <1>5, <2>1 DEF Takes
    <2> QED BY <1>1, <2>2, SameEnd DEF KnowsOf
  <1>8. /\ IsABag(g.pending)
        /\ \A d : Ends(g.pending, d) = Ends(h.pending, d) /\ Answers(g.pending, d) = Answers(h.pending, d)
        /\ Starts(g.pending, c) = 0
        /\ \A d : d # c => Starts(g.pending, d) = Starts(h.pending, d)
    BY <1>1, <1>4, <1>6, StartTaken
  <1>9. Sends(g, h, c)
    BY <1>6, <1>7, <1>8 DEF Sends
  <1>10. HostAt(g, k, b, X)
    BY <1>3, <1>9, SendKeeps
  <1> QED BY <1>3, <1>4, <1>6, <1>8, <1>10

LEMMA EndDelivered ==
    ASSUME NEW h, NEW k, NEW b, HostAt(h, k, b, {}), NEW c,
           BagIn(ContainerEnd(c), h.pending), NEW X, X = {c},
           NEW g, g = Delivered(h, ContainerEnd(c))
    PROVE  /\ HostAt(g, k, b, X) /\ c \in DOMAIN h.containers
           /\ CycleOf(h.containers[c].status, 0, 1, h.containers[c].invocations,
                      Reservation(h.reservations, c))
           /\ SameBooks(g, h) /\ SameRegistry(g, h)
           /\ Starts(g.pending, c) = 0 /\ Ends(g.pending, c) = 0
  <1>1. /\ IsHost(h) /\ CyclesOf(h.containers, h.reservations, h.pending, {})
        /\ KnowsOf(h.cpu, h.pending, k, b) /\ IsABag(h.pending)
    BY DEF HostAt, CyclesOf
  <1>2. Ends(h.pending, c) # 0
    <2>1. \A f : BagIn(f, h.pending) <=> Copies(f, h.pending) > 0
      BY <1>1, CancelledCopies
    <2> QED BY <2>1 DEF Ends
  <1>3. /\ c \in DOMAIN h.containers
        /\ CycleOf(h.containers[c].status, Starts(h.pending, c), Ends(h.pending, c),
                   h.containers[c].invocations, Reservation(h.reservations, c))
    BY <1>1, <1>2 DEF CyclesOf
  <1>4. Starts(h.pending, c) = 0 /\ Ends(h.pending, c) = 1
    BY <1>2, <1>3 DEF CycleOf
  <1>5. Takes(g, h, ContainerEnd(c))
    BY <1>1, DeliveredDoes
  <1>6. /\ IsHost(g) /\ SameBooks(g, h) /\ SameRegistry(g, h)
        /\ g.pending = h.pending (-) SetToBag({ContainerEnd(c)})
    BY <1>5 DEF Takes
  <1>7. g.cpu = h.cpu
    <2>1. ContainerEnd(c) # InvocationEnd(h.cpu.end)
      BY EventsDiffer
    <2>2. g.cpu = [h.cpu EXCEPT !.end = h.cpu.end]
      BY <1>5, <2>1 DEF Takes
    <2> QED BY <1>1, <2>2, SameEnd DEF KnowsOf
  <1>8. EndsAre(g.pending, h.pending, c, 0)
    BY <1>1, <1>4, <1>6, EndCancelled
  <1>9. Sends(g, h, c) /\ Starts(g.pending, c) = 0 /\ Ends(g.pending, c) = 0
    BY <1>4, <1>6, <1>7, <1>8 DEF Sends, EndsAre
  <1>10. HostAt(g, k, b, X)
    BY <1>3, <1>9, SendKeeps
  <1> QED BY <1>3, <1>4, <1>6, <1>9, <1>10

\* A container deployed for reservations, or to be kept warm, has started.
LEMMA OnStartKeeps ==
    ASSUME NEW h, NEW k, NEW b, HostAt(h, k, b, {}), Settled(h, k), NEW c,
           BagIn(ContainerStart(c), h.pending), NEW d, Decides(h, c, d),
           NEW g, g = OnContainerStart(Delivered(h, ContainerStart(c)), c, d)
    PROVE  \E k2 : /\ HostAt(g, k2, b, {}) /\ Settled(g, k2) /\ DOMAIN k2 = DOMAIN k
                  /\ g.invoker = h.invoker
  <1>1. PICK m, X : m = Delivered(h, ContainerStart(c)) /\ X = {c}
    OBVIOUS
  <1>2. /\ HostAt(m, k, b, X) /\ c \in DOMAIN h.containers
        /\ h.containers[c].status = "Deploying" /\ h.containers[c].invocations = {}
        /\ SameBooks(m, h) /\ SameRegistry(m, h)
        /\ Starts(m.pending, c) = 0 /\ Ends(m.pending, c) = 0 /\ Ends(h.pending, c) = 0
    BY <1>1, StartDelivered
  <1>3. /\ m.containers = h.containers /\ m.reservations = h.reservations /\ m.queue = h.queue
        /\ m.invoker = h.invoker
    BY <1>2 DEF SameBooks, SameRegistry
  <1>4. /\ h.queue \in Seq(Nat) /\ IsInjective(h.queue)
        /\ \A i \in DOMAIN k : k[i] \notin {"starting", "entered", "ending"}
        /\ Range(h.queue) = {i \in DOMAIN k : k[i] = "nowhere"}
    BY DEF Settled
  <1>5. IsHost(m) /\ ReservedFor(m.reservations, k, b)
    BY <1>2 DEF HostAt
  <1>6. CASE c \in DOMAIN m.reservations
    <2>1. PICK t : t = DropReservations(m, c)
      OBVIOUS
    <2>2. Drops(t, m, c)
      BY <1>5, <2>1, DropDoes
    <2>3. PICK k1 : k1 = [j \in DOMAIN k |->
                            IF k[j] = "reserved" /\ b[j] = c THEN "starting" ELSE k[j]]
      OBVIOUS
    <2>4. Taken(k1, k, b, c)
      BY <2>3 DEF Taken
    <2>5. HostAt(t, k1, b, X) /\ Reservation(t.reservations, c) = <<>>
      BY <1>1, <1>2, <2>2, <2>4, DropKeeps
    <2>6. /\ t.containers = h.containers /\ t.pending = m.pending /\ t.queue = h.queue
          /\ t.invoker = h.invoker
      BY <1>3, <2>2 DEF Drops, SameRegistry
    <2>7. Startable(t, c)
      BY <1>2, <2>5, <2>6 DEF Startable
    <2>8. PICK S, s : S = Held(k, b, {"reserved"}, c) /\ s = m.reservations[c]
      OBVIOUS
    <2>9. ListHolds(s, S) /\ s # <<>>
      BY <1>5, <1>6, <2>8 DEF ReservedFor, Reservation
    <2>10. \A j \in S : j \in DOMAIN k1 /\ k1[j] = "starting" /\ b[j] = c
      BY <2>3, <2>8 DEF Held
    <2>11. g = StartAll(t, c, s)
      BY <1>1, <1>6, <2>1, <2>8 DEF OnContainerStart, StartAll
    <2>12. SameQueue(g, t) /\ \E k2 : NowTold(k2, k1, S) /\ HostAt(g, k2, b, {})
      BY <1>1, <1>2, <2>5, <2>6, <2>7, <2>9, <2>10, <2>11, StartAllKeeps
    <2>13. PICK k2 : NowTold(k2, k1, S) /\ HostAt(g, k2, b, {})
      BY <2>12
    <2>14. /\ DOMAIN k2 = DOMAIN k
           /\ \A j \in DOMAIN k :
                k2[j] = IF k[j] = "reserved" /\ b[j] = c THEN "told" ELSE k[j]
      BY <2>3, <2>8, <2>13 DEF NowTold, Held
    <2>15. Settled(g, k2)
      BY <1>4, <2>6, <2>12, <2>14 DEF Settled, SameQueue
    <2>16. g.invoker = h.invoker
      BY <2>6, <2>12 DEF SameQueue
    <2> QED BY <2>13, <2>14, <2>15, <2>16
  <1>7. CASE c \notin DOMAIN m.reservations
    <2>1. PICK t : t = Marked(m, c, "Idle")
      OBVIOUS
    <2>2. PICK v : v = WithStatus(m.containers[c], "Idle")
      OBVIOUS
    <2>3. Changes(t, m, c, v)
      BY <1>5, <2>1, <2>2, MarkDoes
    <2>4. Restates(v, m, c, "Idle")
      <3>1. IsContainer(m.containers[c]) /\ c \in DOMAIN m.containers
        BY <1>2, <1>3 DEF HostAt, StockOf
      <3> QED BY <2>2, <3>1, ChangedIs DEF Restates
    <2>5. HostAt(t, k, b, X) /\ Restated(t, m, c, "Idle")
      BY <1>1, <1>2, <2>3, <2>4, ChangeKeeps
    <2>6. SameRegistry(t, m) /\ t.pending = m.pending /\ t.reservations = m.reservations
      BY <2>3 DEF Changes
    <2>7. Resting(t, c) /\ t.containers[c].status = "Idle"
      BY <1>2, <1>3, <1>7, <2>5, <2>6 DEF Resting, Restated, Reservation
    <2>8. Decides(t, c, d)
      BY <1>2, <2>6 DEF Decides
    <2>9. g = KeepAlive(t, c, d)
      BY <1>1, <1>7, <2>1 DEF OnContainerStart, Marked
    <2>10. HostAt(g, k, b, {}) /\ SameRegistry(g, t)
      BY <1>1, <2>5, <2>7, <2>8, <2>9, KeepAliveKeeps
    <2>11. g.queue = h.queue /\ g.invoker = h.invoker
      BY <1>3, <2>6, <2>10 DEF SameRegistry
    <2>12. Settled(g, k)
      BY <1>4, <2>11 DEF Settled
    <2> QED BY <2>10, <2>11, <2>12
  <1> QED BY <1>6, <1>7

LEMMA OnEndKeeps ==
    ASSUME NEW h, NEW k, NEW b, HostAt(h, k, b, {}), Settled(h, k), NEW c,
           BagIn(ContainerEnd(c), h.pending),
           NEW g, g = OnContainerEnd(Delivered(h, ContainerEnd(c)), c)
    PROVE  HostAt(g, k, b, {}) /\ Settled(g, k) /\ g.invoker = h.invoker
  <1>1. PICK m, X : m = Delivered(h, ContainerEnd(c)) /\ X = {c}
    OBVIOUS
  <1>2. /\ HostAt(m, k, b, X) /\ c \in DOMAIN h.containers
        /\ CycleOf(h.containers[c].status, 0, 1, h.containers[c].invocations,
                   Reservation(h.reservations, c))
        /\ SameBooks(m, h) /\ SameRegistry(m, h)
        /\ Starts(m.pending, c) = 0 /\ Ends(m.pending, c) = 0
    BY <1>1, EndDelivered
  <1>3. /\ m.containers = h.containers /\ m.reservations = h.reservations /\ m.queue = h.queue
        /\ m.invoker = h.invoker
    BY <1>2 DEF SameBooks, SameRegistry
  <1>4. IsHost(m) /\ ReservedFor(m.reservations, k, b) /\ Inside(m.containers, k, b)
    BY <1>2 DEF HostAt
  <1>5. CASE h.containers[c].status \in {"Idle", "Terminated"}
    <2>1. g = DeleteContainer(m, c)
      BY <1>1, <1>2, <1>3, <1>5 DEF OnContainerEnd
    <2>2. PICK a : a = m.containers[c].app
      OBVIOUS
    <2>3. Deletes(g, m, c, a)
      BY <1>4, <2>1, <2>2, DeleteDoes
    <2>4. h.containers[c].invocations = {} /\ Reservation(h.reservations, c) = <<>>
      BY <1>2, <1>5 DEF CycleOf
    <2>5. Held(k, b, In, c) = {} /\ Held(k, b, {"reserved"}, c) = {}
      <3>1. Held(k, b, In, c) = {}
        BY <1>2, <1>3, <1>4, <2>4 DEF Inside
      <3>2. ListHolds(<<>>, Held(k, b, {"reserved"}, c))
        BY <1>3, <1>4, <2>4 DEF ReservedFor
      <3> QED BY <3>1, <3>2, ListNonEmpty
    <2>6. Held(k, b, Holding, c) = {}
      <3>1. \A j \in DOMAIN k : k[j] # "starting"
        BY DEF Settled
      <3> QED BY <2>5, <3>1 DEF Held, Holding
    <2>7. HostAt(g, k, b, X)
      BY <1>2, <1>3, <2>2, <2>3, <2>6, DeleteKeeps
    <2>8. c \notin DOMAIN g.containers /\ g.queue = h.queue /\ g.invoker = h.invoker
      BY <1>3, <2>3 DEF Deletes, Without, SameRegistry
    <2>9. CyclesOf(g.containers, g.reservations, g.pending, {})
      BY <1>1, <2>7, <2>8 DEF CyclesOf, HostAt
    <2> QED BY <2>7, <2>8, <2>9 DEF HostAt, Settled
  <1>6. CASE h.containers[c].status \notin {"Idle", "Terminated"}
    <2>1. g = m
      BY <1>1, <1>3, <1>6 DEF OnContainerEnd
    <2>2. CycleOf(m.containers[c].status, Starts(m.pending, c), Ends(m.pending, c),
                  m.containers[c].invocations, Reservation(m.reservations, c))
      BY <1>2, <1>3, <1>6 DEF CycleOf
    <2>3. HostAt(m, k, b, {})
      BY <1>1, <1>2, <2>2, CycleRestored
    <2> QED BY <1>3, <2>1, <2>3 DEF Settled
  <1> QED BY <1>5, <1>6
-----------------------------------------------------------------------------
(* What the cpu does when an invocation has ended.                         *)

Leaves(h, i, x) == [h EXCEPT !.cpu.panicked = @ \/ x, !.cpu.work = @ \ {i}]

Woken(h, c) ==
    [h EXCEPT !.cpu.load = @ + ShareOf(h, c), !.cpu.queue = Tail(@),
              !.cpu.waiting = Without(@, c)]

LEMMA DropLoadDoes ==
    ASSUME NEW h, IsHost(h), IsCpu(h.cpu), NEW c
    PROVE  CpuChanges(DropLoad(h, c), h,
             CpuOf(h.cpu.policy, h.cpu.cores, (IF Invocations(h, c) = {} THEN h.cpu.load - ShareOf(h, c) ELSE h.cpu.load), h.cpu.waiting, h.cpu.queue, h.cpu.work, h.cpu.end, h.cpu.panicked))
  <1> SUFFICES ASSUME NEW g, g = DropLoad(h, c)
               PROVE  CpuChanges(g, h,
                        CpuOf(h.cpu.policy, h.cpu.cores, (IF Invocations(h, c) = {} THEN h.cpu.load - ShareOf(h, c) ELSE h.cpu.load), h.cpu.waiting, h.cpu.queue, h.cpu.work, h.cpu.end, h.cpu.panicked))
    OBVIOUS
  <1>1. PICK cs, n, fr, fu, rs, ac, pd, cap, con, u, rg, iv, q :
          h = HostOf(cs, n, fr, fu, rs, ac, pd, cap, con, u, rg, iv, q)
    BY DEF IsHost
  <1>2. h.cpu = u
    BY <1>1 DEF HostOf
  <1>3. PICK po, co, l, w, qu, wk, e, pn : u = CpuOf(po, co, l, w, qu, wk, e, pn)
    BY <1>2 DEF IsCpu
  <1>4.   /\ u.policy = po /\ u.cores = co /\ u.load = l /\ u.waiting = w
        /\ u.queue = qu /\ u.work = wk /\ u.end = e /\ u.panicked = pn
    BY <1>3 DEF CpuOf
  <1>5. PICK u2 : u2 = CpuOf(po, co, (IF Invocations(h, c) = {} THEN l - ShareOf(h, c) ELSE l), w, qu, wk, e, pn)
    OBVIOUS
  <1>6. g = HostOf(cs, n, fr, fu, rs, ac, pd, cap, con, u2, rg, iv, q)
    BY <1>1, <1>2, <1>3, <1>4, <1>5 DEF HostOf, CpuOf, DropLoad
  <1>7. IsHost(g)
    BY <1>6, HostIs
  <1>8.   /\ h.containers = cs /\ h.next = n /\ h.free = fr /\ h.full = fu
        /\ h.reservations = rs /\ h.active = ac /\ h.pending = pd /\ h.capacity = cap
        /\ h.consumed = con /\ h.cpu = u /\ h.registry = rg /\ h.invoker = iv
        /\ h.queue = q
    BY <1>1 DEF HostOf
  <1>9.   /\ g.containers = cs /\ g.next = n /\ g.free = fr /\ g.full = fu
        /\ g.reservations = rs /\ g.active = ac /\ g.pending = pd /\ g.capacity = cap
        /\ g.consumed = con /\ g.cpu = u2 /\ g.registry = rg /\ g.invoker = iv
        /\ g.queue = q
    BY ONLY <1>6 DEF HostOf
  <1>10. u2 = CpuOf(h.cpu.policy, h.cpu.cores, (IF Invocations(h, c) = {} THEN h.cpu.load - ShareOf(h, c) ELSE h.cpu.load), h.cpu.waiting, h.cpu.queue, h.cpu.work, h.cpu.end, h.cpu.panicked)
    BY <1>2, <1>4, <1>5
  <1> QED BY ONLY <1>7, <1>8, <1>9, <1>10 DEF CpuChanges, SameBooks, SameRegistry

LEMMA LeaveDoes ==
    ASSUME NEW h, IsHost(h), IsCpu(h.cpu), NEW i, NEW x
    PROVE  CpuChanges(Leaves(h, i, x), h,
             CpuOf(h.cpu.policy, h.cpu.cores, h.cpu.load, h.cpu.waiting, h.cpu.queue, (h.cpu.work \ {i}), h.cpu.end, (h.cpu.panicked \/ x)))
  <1> SUFFICES ASSUME NEW g, g = Leaves(h, i, x)
               PROVE  CpuChanges(g, h,
                        CpuOf(h.cpu.policy, h.cpu.cores, h.cpu.load, h.cpu.waiting, h.cpu.queue, (h.cpu.work \ {i}), h.cpu.end, (h.cpu.panicked \/ x)))
    OBVIOUS
  <1>1. PICK cs, n, fr, fu, rs, ac, pd, cap, con, u, rg, iv, q :
          h = HostOf(cs, n, fr, fu, rs, ac, pd, cap, con, u, rg, iv, q)
    BY DEF IsHost
  <1>2. h.cpu = u
    BY <1>1 DEF HostOf
  <1>3. PICK po, co, l, w, qu, wk, e, pn : u = CpuOf(po, co, l, w, qu, wk, e, pn)
    BY <1>2 DEF IsCpu
  <1>4.   /\ u.policy = po /\ u.cores = co /\ u.load = l /\ u.waiting = w
        /\ u.queue = qu /\ u.work = wk /\ u.end = e /\ u.panicked = pn
    BY <1>3 DEF CpuOf
  <1>5. PICK u2 : u2 = CpuOf(po, co, l, w, qu, (wk \ {i}), e, (pn \/ x))
    OBVIOUS
  <1>6. g = HostOf(cs, n, fr, fu, rs, ac, pd, cap, con, u2, rg, iv, q)
    <2>1. PICK x1, x2 : x1 = (pn \/ x) /\ x2 = (wk \ {i})
      OBVIOUS
    <2>2. PICK m1 : m1 = [h EXCEPT !.cpu.panicked = x1]
      OBVIOUS
    <2>3. g = [m1 EXCEPT !.cpu.work = x2]
      BY <1>2, <1>4, <2>1, <2>2 DEF Leaves
    <2>4. m1 = HostOf(cs, n, fr, fu, rs, ac, pd, cap, con, CpuOf(po, co, l, w, qu, wk, e, x1), rg, iv, q)
      BY ONLY <1>1, <1>3, <2>2 DEF HostOf, CpuOf
    <2>5. g = HostOf(cs, n, fr, fu, rs, ac, pd, cap, con, CpuOf(po, co, l, w, qu, x2, e, x1), rg, iv, q)
      BY ONLY <2>3, <2>4 DEF HostOf, CpuOf
    <2> QED BY <1>5, <2>1, <2>5
  <1>7. IsHost(g)
    BY <1>6, HostIs
  <1>8.   /\ h.containers = cs /\ h.next = n /\ h.free = fr /\ h.full = fu
        /\ h.reservations = rs /\ h.active = ac /\ h.pending = pd /\ h.capacity = cap
        /\ h.consumed = con /\ h.cpu = u /\ h.registry = rg /\ h.invoker = iv
        /\ h.queue = q
    BY <1>1 DEF HostOf
  <1>9.   /\ g.containers = cs /\ g.next = n /\ g.free = fr /\ g.full = fu
        /\ g.reservations = rs /\ g.active = ac /\ g.pending = pd /\ g.capacity = cap
        /\ g.consumed = con /\ g.cpu = u2 /\ g.registry = rg /\ g.invoker = iv
        /\ g.queue = q
    BY ONLY <1>6 DEF HostOf
  <1>10. u2 = CpuOf(h.cpu.policy, h.cpu.cores, h.cpu.load, h.cpu.waiting, h.cpu.queue, (h.cpu.work \ {i}), h.cpu.end, (h.cpu.panicked \/ x))
    BY <1>2, <1>4, <1>5
  <1> QED BY ONLY <1>7, <1>8, <1>9, <1>10 DEF CpuChanges, SameBooks, SameRegistry

LEMMA WakeDoes ==
    ASSUME NEW h, IsHost(h), IsCpu(h.cpu), NEW c
    PROVE  CpuChanges(Woken(h, c), h,
             CpuOf(h.cpu.policy, h.cpu.cores, (h.cpu.load + ShareOf(h, c)), Without(h.cpu.waiting, c), Tail(h.cpu.queue), h.cpu.work, h.cpu.end, h.cpu.panicked))
  <1> SUFFICES ASSUME NEW g, g = Woken(h, c)
               PROVE  CpuChanges(g, h,
                        CpuOf(h.cpu.policy, h.cpu.cores, (h.cpu.load + ShareOf(h, c)), Without(h.cpu.waiting, c), Tail(h.cpu.queue), h.cpu.work, h.cpu.end, h.cpu.panicked))
    OBVIOUS
  <1>1. PICK cs, n, fr, fu, rs, ac, pd, cap, con, u, rg, iv, q :
          h = HostOf(cs, n, fr, fu, rs, ac, pd, cap, con, u, rg, iv, q)
    BY DEF IsHost
  <1>2. h.cpu = u
    BY <1>1 DEF HostOf
  <1>3. PICK po, co, l, w, qu, wk, e, pn : u = CpuOf(po, co, l, w, qu, wk, e, pn)
    BY <1>2 DEF IsCpu
  <1>4.   /\ u.policy = po /\ u.cores = co /\ u.load = l /\ u.waiting = w
        /\ u.queue = qu /\ u.work = wk /\ u.end = e /\ u.panicked = pn
    BY <1>3 DEF CpuOf
  <1>5. PICK u2 : u2 = CpuOf(po, co, (l + ShareOf(h, c)), Without(w, c), Tail(qu), wk, e, pn)
    OBVIOUS
  <1>6. g = HostOf(cs, n, fr, fu, rs, ac, pd, cap, con, u2, rg, iv, q)
    <2>1. PICK x1, x2, x3 : x1 = (l + ShareOf(h, c)) /\ x2 = Tail(qu) /\ x3 = Without(w, c)
      OBVIOUS
    <2>2. PICK m1 : m1 = [h EXCEPT !.cpu.load = x1]
      OBVIOUS
    <2>3. PICK m2 : m2 = [m1 EXCEPT !.cpu.queue = x2]
      OBVIOUS
    <2>4. g = [m2 EXCEPT !.cpu.waiting = x3]
      BY <1>2, <1>4, <2>1, <2>2, <2>3 DEF Woken
    <2>5. m1 = HostOf(cs, n, fr, fu, rs, ac, pd, cap, con, CpuOf(po, co, x1, w, qu, wk, e, pn), rg, iv, q)
      BY ONLY <1>1, <1>3, <2>2 DEF HostOf, CpuOf
    <2>6. m2 = HostOf(cs, n, fr, fu, rs, ac, pd, cap, con, CpuOf(po, co, x1, w, x2, wk, e, pn), rg, iv, q)
      BY ONLY <2>5, <2>3 DEF HostOf, CpuOf
    <2>7. g = HostOf(cs, n, fr, fu, rs, ac, pd, cap, con, CpuOf(po, co, x1, x3, x2, wk, e, pn), rg, iv, q)
      BY ONLY <2>4, <2>6 DEF HostOf, CpuOf
    <2> QED BY <1>5, <2>1, <2>7
  <1>7. IsHost(g)
    BY <1>6, HostIs
  <1>8.   /\ h.containers = cs /\ h.next = n /\ h.free = fr /\ h.full = fu
        /\ h.reservations = rs /\ h.active = ac /\ h.pending = pd /\ h.capacity = cap
        /\ h.consumed = con /\ h.cpu = u /\ h.registry = rg /\ h.invoker = iv
        /\ h.queue = q
    BY <1>1 DEF HostOf
  <1>9.   /\ g.containers = cs /\ g.next = n /\ g.free = fr /\ g.full = fu
        /\ g.reservations = rs /\ g.active = ac /\ g.pending = pd /\ g.capacity = cap
        /\ g.consumed = con /\ g.cpu = u2 /\ g.registry = rg /\ g.invoker = iv
        /\ g.queue = q
    BY ONLY <1>6 DEF HostOf
  <1>10. u2 = CpuOf(h.cpu.policy, h.cpu.cores, (h.cpu.load + ShareOf(h, c)), Without(h.cpu.waiting, c), Tail(h.cpu.queue), h.cpu.work, h.cpu.end, h.cpu.panicked)
    BY <1>2, <1>4, <1>5
  <1> QED BY ONLY <1>7, <1>8, <1>9, <1>10 DEF CpuChanges, SameBooks, SameRegistry
\* The answers for the invocations S are to come as well.
Answered(g, h, S) ==
    /\ Working(g, h) /\ g.cpu = h.cpu
    /\ \A j : Answers(g.pending, j) = IF j \in S THEN Answers(h.pending, j) + 1
                                                 ELSE Answers(h.pending, j)

LEMMA AnswerOneMore ==
    ASSUME NEW h, NEW g, NEW S, Answered(g, h, S), NEW i, i \notin S,
           NEW g2, g2 = Emit(g, InvocationEnd(i)), NEW T, T = S \cup {i}
    PROVE  Answered(g2, h, T)
  <1>1. /\ IsHost(g) /\ SameBooks(g, h) /\ SameRegistry(g, h) /\ IsABag(g.pending)
        /\ g.cpu = h.cpu
        /\ \A c : Starts(g.pending, c) = Starts(h.pending, c)
        /\ \A c : Ends(g.pending, c) = Ends(h.pending, c)
        /\ \A j : Answers(g.pending, j) = IF j \in S THEN Answers(h.pending, j) + 1
                                                     ELSE Answers(h.pending, j)
    BY DEF Answered, Working
  <1>2. Emits(g2, g, InvocationEnd(i))
    BY <1>1, EmitDoes
  <1>3. /\ IsHost(g2) /\ SameBooks(g2, g) /\ SameRegistry(g2, g) /\ g2.cpu = g.cpu
        /\ g2.pending = g.pending (+) SetToBag({InvocationEnd(i)})
    BY <1>2 DEF Emits
  <1>4. AnswerAdded(g2.pending, g.pending, i)
    BY <1>1, <1>3, AnswerEmitted
  <1>5. Working(g2, h)
    BY <1>1, <1>3, <1>4 DEF Working, AnswerAdded, SameBooks, SameRegistry
  <1>6. \A j : Answers(g2.pending, j) = IF j \in T THEN Answers(h.pending, j) + 1
                                                  ELSE Answers(h.pending, j)
    BY <1>1, <1>4 DEF AnswerAdded
  <1> QED BY <1>1, <1>3, <1>5, <1>6 DEF Answered

LEMMA EmitAllDoes ==
    ASSUME NEW h, IsHost(h), IsABag(h.pending), NEW S, NEW s, ListHolds(s, S),
           NEW g, g = EmitAll(h, s)
    PROVE  Answered(g, h, S)
  <1>1. s \in Seq(S) /\ IsInjective(s) /\ Range(s) = S /\ Len(s) \in Nat
        /\ DOMAIN s = 1..Len(s) /\ \A n \in 1..Len(s) : s[n] \in S
    BY DEF ListHolds
  <1>2. PICK f : /\ f[0] = h /\ \A n \in 1..Len(s) : f[n] = Emit(f[n - 1], InvocationEnd(s[n]))
                 /\ EmitAll(h, s) = f[Len(s)]
    BY <1>1, EmitAllFolds
  <1> DEFINE Some(n) == {s[m] : m \in 1..n}
             F == {n \in 0..Len(s) : Answered(f[n], h, Some(n))}
  <1>3. 0 \in F
    <2>1. Some(0) = {}
      OBVIOUS
    <2>2. Answered(h, h, {})
      BY DEF Answered, Working, SameBooks, SameRegistry
    <2>3. Answered(f[0], h, Some(0))
      <3> HIDE DEF Some
      <3> QED BY <1>2, <2>1, <2>2
    <2> HIDE DEF Some
    <2> QED BY <1>1, <2>3
  <1>4. ASSUME NEW n \in 1..Len(s), n - 1 \in F PROVE n \in F
    <2>1. Answered(f[n - 1], h, Some(n - 1))
      BY <1>4
    <2>2. s[n] \notin Some(n - 1)
      BY <1>1 DEF IsInjective
    <2>3. Some(n) = Some(n - 1) \cup {s[n]}
      <3>1. 1..n = (1..(n - 1)) \cup {n}
        BY <1>1
      <3> QED BY <3>1
    <2>4. f[n] = Emit(f[n - 1], InvocationEnd(s[n]))
      BY <1>2
    <2> HIDE DEF Some
    <2>5. Answered(f[n], h, Some(n))
      BY <2>1, <2>2, <2>3, <2>4, AnswerOneMore
    <2> QED BY <1>4, <2>5
  <1> HIDE DEF F
  <1>5. \A n \in 0..Len(s) : n \in F
    BY <1>1, <1>3, <1>4, PrefixInduction
  <1>6. Len(s) \in F
    BY <1>1, <1>5
  <1>7. Answered(f[Len(s)], h, Some(Len(s)))
    BY <1>6 DEF F
  <1>8. Some(Len(s)) = S
    <2>1. Some(Len(s)) = Range(s)
      BY <1>1 DEF Range
    <2> QED BY <1>1, <2>1
  <1> QED BY <1>2, <1>7, <1>8

\* Isolated: what the cpu knows is true whenever it wakes a container.
Isolates(h, k, b) ==
    /\ IsHost(h) /\ IsABag(h.pending)
    /\ KnowsOf(h.cpu, h.pending, k, b) /\ h.cpu.policy = "Isolated"

Wakes(g, h, k, b) == Working(g, h) /\ Isolates(g, k, b)

LEMMA WakeOne ==
    ASSUME NEW h, NEW k, NEW b, Isolates(h, k, b), NEW c, NEW g, g = StartWaiting(h, c)
    PROVE  Wakes(g, h, k, b)
  <1> DEFINE u == h.cpu
             fits == /\ u.queue # <<>> /\ Head(u.queue) = c
                     /\ u.load + ShareOf(h, c) <= u.cores
  <1>1. /\ IsHost(h) /\ IsABag(h.pending) /\ IsCpu(u) /\ u.policy = "Isolated"
        /\ u.end = 0 /\ u.work = {} /\ WaitingOf(u.waiting, u.queue, k, b)
        /\ \A j : Answers(h.pending, j) =
             IF j \in DOMAIN k /\ k[j] = "told" /\ b[j] \notin DOMAIN u.waiting THEN 1 ELSE 0
    BY DEF Isolates, KnowsOf, Told
  <1>2. CASE ~ fits
    <2>1. g = h
      BY <1>2 DEF StartWaiting
    <2> QED BY <2>1 DEF Wakes, Working, Isolates, SameBooks, SameRegistry
  <1>3. CASE fits
    <2>1. PICK m : m = Woken(h, c)
      OBVIOUS
    <2>2. PICK s : s = u.waiting[c]
      OBVIOUS
    <2>3. g = EmitAll(m, s)
      BY <1>3, <2>1, <2>2 DEF StartWaiting, Woken, EmitAll
    <2>4. PICK l, q, w : /\ l = u.load + ShareOf(h, c) /\ q = Tail(u.queue)
                         /\ w = Without(u.waiting, c)
      OBVIOUS
    <2>5. PICK u2 : u2 = CpuOf(u.policy, u.cores, l, w, q, u.work, u.end, u.panicked)
      OBVIOUS
    <2>6. CpuChanges(m, h, u2)
      BY <1>1, <2>1, <2>4, <2>5, WakeDoes
    <2>7. /\ u2.policy = u.policy /\ u2.waiting = w /\ u2.queue = q /\ u2.work = u.work
          /\ u2.end = u.end
      BY <2>5 DEF CpuOf
    <2>8. IsCpu(u2)
      BY <2>5, Zenon DEF IsCpu
    <2>9. /\ u.queue \in Seq(Nat) /\ IsInjective(u.queue) /\ Range(u.queue) = DOMAIN u.waiting
          /\ \A d \in DOMAIN u.waiting : u.waiting[d] # <<>>
          /\ \A d \in DOMAIN u.waiting : ListHolds(u.waiting[d], Held(k, b, {"told"}, d))
      BY <1>1 DEF WaitingOf
    <2>10. /\ Tail(u.queue) \in Seq(Nat) /\ IsInjective(Tail(u.queue))
           /\ Head(u.queue) \in Range(u.queue)
           /\ Range(Tail(u.queue)) = Range(u.queue) \ {Head(u.queue)}
      BY <1>3, <2>9, TailDistinct
    <2>11. c \in DOMAIN u.waiting /\ q \in Seq(Nat) /\ IsInjective(q)
           /\ Range(q) = DOMAIN u.waiting \ {c}
      BY <1>3, <2>4, <2>9, <2>10
    <2>12. DOMAIN w = DOMAIN u.waiting \ {c} /\ \A d \in DOMAIN w : w[d] = u.waiting[d]
      BY <2>4 DEF Without
    <2>13. WaitingOf(w, q, k, b)
      BY <2>9, <2>11, <2>12 DEF WaitingOf
    <2>14. /\ IsHost(m) /\ m.cpu = u2 /\ m.pending = h.pending /\ SameBooks(m, h)
           /\ SameRegistry(m, h)
      BY <2>6 DEF CpuChanges
    <2>15. PICK S : S = Held(k, b, {"told"}, c)
      OBVIOUS
    <2>16. Answered(g, m, S)
      BY <1>1, <2>2, <2>3, <2>9, <2>11, <2>14, <2>15, EmitAllDoes
    <2>17. /\ Working(g, h) /\ g.cpu = u2 /\ IsABag(g.pending) /\ IsHost(g)
           /\ \A j : Answers(g.pending, j) = IF j \in S THEN Answers(h.pending, j) + 1
                                                        ELSE Answers(h.pending, j)
      BY <2>14, <2>16 DEF Answered, Working, SameBooks, SameRegistry
    <2>18. ASSUME NEW j
           PROVE  Answers(g.pending, j) =
                    IF j \in DOMAIN k /\ k[j] = "told" /\ b[j] \notin DOMAIN w THEN 1 ELSE 0
      <3>1. CASE j \in S
        <4>1. j \in DOMAIN k /\ k[j] = "told" /\ b[j] = c
          BY <2>15, <3>1 DEF Held
        <4> QED BY <1>1, <2>11, <2>12, <2>17, <3>1, <4>1
      <3>2. CASE j \notin S
        <4>1. ~ (j \in DOMAIN k /\ k[j] = "told" /\ b[j] = c)
          BY <2>15, <3>2 DEF Held
        <4> HIDE DEF u
        <4> QED BY <1>1, <2>12, <2>17, <3>2, <4>1
      <3> QED BY <3>1, <3>2
    <2>19. Told(u2, g.pending, k, b)
      BY <1>1, <2>7, <2>13, <2>18 DEF Told
    <2> QED BY <1>1, <2>7, <2>8, <2>17, <2>19 DEF Wakes, Isolates, KnowsOf
  <1> QED BY <1>2, <1>3

LEMMA WakeAllKeeps ==
    ASSUME NEW h, NEW k, NEW b, Isolates(h, k, b), NEW s \in Seq(Nat), NEW g, g = WakeAll(h, s)
    PROVE  Wakes(g, h, k, b)
  <1>1. Len(s) \in Nat
    OBVIOUS
  <1>2. PICK f : /\ f[0] = h /\ \A n \in 1..Len(s) : f[n] = StartWaiting(f[n - 1], s[n])
                 /\ WakeAll(h, s) = f[Len(s)]
    BY WakeAllFolds
  <1> DEFINE F == {n \in 0..Len(s) : Wakes(f[n], h, k, b)}
  <1>3. 0 \in F
    <2>1. Wakes(h, h, k, b)
      BY DEF Wakes, Working, Isolates, SameBooks, SameRegistry
    <2> QED BY <1>1, <1>2, <2>1
  <1>4. ASSUME NEW n \in 1..Len(s), n - 1 \in F PROVE n \in F
    <2>1. Wakes(f[n - 1], h, k, b)
      BY <1>4
    <2>2. Wakes(f[n], f[n - 1], k, b)
      BY <1>2, <2>1, WakeOne DEF Wakes
    <2>3. Wakes(f[n], h, k, b)
      BY <2>1, <2>2 DEF Wakes, Working, SameBooks, SameRegistry
    <2> QED BY <1>4, <2>3
  <1> HIDE DEF F
  <1>5. \A n \in 0..Len(s) : n \in F
    BY <1>1, <1>3, <1>4, PrefixInduction
  <1>6. Len(s) \in F
    BY <1>1, <1>5
  <1> QED BY <1>2, <1>6 DEF F
LEMMA SameKnowledge ==
    ASSUME NEW u, NEW pd, NEW k, NEW b, KnowsOf(u, pd, k, b), NEW v, IsCpu(v),
           v.policy = u.policy, v.waiting = u.waiting, v.queue = u.queue,
           v.work = u.work, v.end = u.end
    PROVE  KnowsOf(v, pd, k, b)
  <1>1. Told(u, pd, k, b)
    BY DEF KnowsOf
  <1>2. Told(v, pd, k, b)
    BY <1>1 DEF Told
  <1> QED BY <1>2 DEF KnowsOf

\* An invocation whose end has been delivered is finished for the cpu as well.
LEMMA CpuEnds ==
    ASSUME NEW h, IsHost(h), IsABag(h.pending), NEW k, NEW b, KnowsOf(h.cpu, h.pending, k, b),
           NEW i \in DOMAIN k, k[i] = "ending", NEW c,
           NEW k2, DOMAIN k2 = DOMAIN k, k2[i] = "finished",
           \A j \in DOMAIN k : j # i => k2[j] = k[j],
           NEW g, g = CpuEnd(h, i, c)
    PROVE  Working(g, h) /\ KnowsOf(g.cpu, g.pending, k2, b)
  <1> DEFINE u == h.cpu
  <1>1. IsCpu(u) /\ Told(u, h.pending, k, b)
    BY DEF KnowsOf
  <1>2. PICK l : l = IF Invocations(h, c) = {} THEN u.load - ShareOf(h, c) ELSE u.load
    OBVIOUS
  <1>3. PICK m : m = DropLoad(h, c)
    OBVIOUS
  <1>4. PICK u1 : u1 = CpuOf(u.policy, u.cores, l, u.waiting, u.queue, u.work, u.end, u.panicked)
    OBVIOUS
  <1>5. CpuChanges(m, h, u1)
    BY <1>1, <1>2, <1>3, <1>4, DropLoadDoes
  <1>6. /\ u1.policy = u.policy /\ u1.waiting = u.waiting /\ u1.queue = u.queue
        /\ u1.work = u.work /\ u1.end = u.end
    BY <1>4 DEF CpuOf
  <1>7. IsCpu(u1)
    BY <1>4, Zenon DEF IsCpu
  <1>8. /\ IsHost(m) /\ SameBooks(m, h) /\ SameRegistry(m, h) /\ m.pending = h.pending
        /\ m.cpu = u1
    BY <1>5 DEF CpuChanges
  <1>9. Working(m, h)
    BY <1>8 DEF Working
  <1>10. /\ \A j \in DOMAIN k : k2[j] = "told" <=> k[j] = "told"
         /\ \A d : Held(k2, b, {"told"}, d) = Held(k, b, {"told"}, d)
    BY DEF Held
  <1>11. CASE u.policy = "Ignored"
    <2>1. g = m
      BY <1>3, <1>11 DEF CpuEnd
    <2>2. Told(u1, m.pending, k2, b)
      BY <1>1, <1>6, <1>8, <1>10, <1>11 DEF Told
    <2> QED BY <1>7, <1>8, <1>9, <2>1, <2>2 DEF KnowsOf
  <1>12. CASE u.policy = "Contended"
    <2>1. PICK x : x = ~ (Invocations(h, c) \cup {i} \subseteq h.cpu.work)
      OBVIOUS
    <2>2. g = Leaves(m, i, x)
      BY <1>3, <1>12, <2>1, <1>6, <1>8 DEF CpuEnd, ContendedEnd, Leaves
    <2>3. PICK y, W : y = (m.cpu.panicked \/ x) /\ W = m.cpu.work \ {i}
      OBVIOUS
    <2>4. PICK u2 : u2 = CpuOf(m.cpu.policy, m.cpu.cores, m.cpu.load, m.cpu.waiting, m.cpu.queue,
                               W, m.cpu.end, y)
      OBVIOUS
    <2>5. CpuChanges(g, m, CpuOf(m.cpu.policy, m.cpu.cores, m.cpu.load, m.cpu.waiting, m.cpu.queue,
                                 (m.cpu.work \ {i}), m.cpu.end, (m.cpu.panicked \/ x)))
      BY <1>7, <1>8, <2>2, LeaveDoes
    <2>6. CpuChanges(g, m, u2)
      BY <2>3, <2>4, <2>5
    <2>7. /\ u2.policy = u.policy /\ u2.waiting = u.waiting /\ u2.work = u.work \ {i}
          /\ u2.end = u.end
      BY <1>6, <1>8, <2>3, <2>4 DEF CpuOf
    <2>8. IsCpu(u2)
      BY <2>4, Zenon DEF IsCpu
    <2>9. g.cpu = u2 /\ g.pending = h.pending /\ Working(g, h)
      BY <1>8, <2>6 DEF CpuChanges, Working, SameBooks, SameRegistry
    <2>10. u2.work = {j \in DOMAIN k2 : k2[j] \in {"told", "ending"}}
      <3>1. u.work = {j \in DOMAIN k : k[j] \in {"told", "ending"}}
        BY <1>1, <1>12 DEF Told
      <3> QED BY <2>7, <3>1
    <2>11. Told(u2, g.pending, k2, b)
      BY <1>1, <1>10, <1>12, <2>7, <2>9, <2>10 DEF Told
    <2> QED BY <2>8, <2>9, <2>11 DEF KnowsOf
  <1>13. CASE u.policy = "Isolated"
    <2>1. Told(u1, m.pending, k2, b)
      <3>1. WaitingOf(u1.waiting, u1.queue, k2, b)
        BY <1>1, <1>6, <1>10, <1>13 DEF Told, WaitingOf
      <3> QED BY <1>1, <1>6, <1>8, <1>10, <1>13, <3>1 DEF Told
    <2>2. Isolates(m, k2, b)
      BY <1>6, <1>7, <1>8, <1>13, <2>1 DEF Isolates, KnowsOf
    <2>3. CASE Invocations(h, c) = {}
      <3>1. g = WakeAll(m, u.queue)
        BY <1>3, <1>13, <2>3 DEF CpuEnd, IsolatedEnd, WakeAll
      <3>2. u.queue \in Seq(Nat)
        BY <1>1, <1>13 DEF Told, WaitingOf
      <3>3. Wakes(g, m, k2, b)
        BY <2>2, <3>1, <3>2, WakeAllKeeps
      <3> QED BY <1>8, <3>3 DEF Wakes, Isolates, Working, SameBooks, SameRegistry
    <2>4. CASE Invocations(h, c) # {}
      <3>1. g = h
        BY <1>13, <2>4 DEF CpuEnd, IsolatedEnd
      <3>2. Told(u, h.pending, k2, b)
        <4>1. WaitingOf(u.waiting, u.queue, k2, b)
          BY <1>1, <1>10, <1>13 DEF Told, WaitingOf
        <4> QED BY <1>1, <1>10, <1>13, <4>1 DEF Told
      <3>3. Working(h, h)
        BY DEF Working, SameBooks, SameRegistry
      <3> QED BY <1>1, <3>1, <3>2, <3>3 DEF KnowsOf
    <2> QED BY <2>3, <2>4
  <1> QED BY <1>1, <1>11, <1>12, <1>13 DEF Told
-----------------------------------------------------------------------------
(* The end of an invocation is delivered.                                  *)

EndSet(u, n) == [u EXCEPT !.end = n]

LEMMA EndSetIs ==
    ASSUME NEW u, IsCpu(u), NEW n, NEW v, v = EndSet(u, n)
    PROVE  /\ IsCpu(v) /\ v.policy = u.policy /\ v.waiting = u.waiting /\ v.queue = u.queue
           /\ v.work = u.work /\ v.end = n
  <1>1. PICK po, co, l, w, q, wk, e, pn : u = CpuOf(po, co, l, w, q, wk, e, pn)
    BY DEF IsCpu
  <1>2. v = CpuOf(po, co, l, w, q, wk, n, pn)
    BY <1>1 DEF CpuOf, EndSet
  <1>3. IsCpu(v)
    BY <1>2, Zenon DEF IsCpu
  <1> QED BY <1>1, <1>2, <1>3 DEF CpuOf

LEMMA AnswerTaken ==
    ASSUME NEW B, IsABag(B), NEW i, NEW D, D = B (-) SetToBag({InvocationEnd(i)})
    PROVE  /\ IsABag(D) /\ \A d : Starts(D, d) = Starts(B, d) /\ Ends(D, d) = Ends(B, d)
           /\ Answers(D, i) = IF Answers(B, i) = 0 THEN 0 ELSE Answers(B, i) - 1
           /\ \A j : j # i => Answers(D, j) = Answers(B, j)
  <1>1. PICK e : e = InvocationEnd(i)
    OBVIOUS
  <1>2. /\ IsABag(D)
        /\ \A f : Copies(f, D) = IF f = e /\ BagIn(f, B) THEN Copies(f, B) - 1 ELSE Copies(f, B)
        /\ \A f : BagIn(f, B) <=> Copies(f, B) > 0
    BY <1>1, CancelledCopies
  <1>3. \A f : Copies(f, B) \in Nat
    BY EmittedCopies
  <1>4. \A d : ContainerStart(d) # e /\ ContainerEnd(d) # e
    BY <1>1, EventsDiffer
  <1>5. \A j : j # i => InvocationEnd(j) # e
    BY <1>1, EventsDiffer
  <1> QED BY <1>1, <1>2, <1>3, <1>4, <1>5 DEF Starts, Ends, Answers

\* The end of invocation i may come.
MayEnd(h, i) == BagIn(InvocationEnd(i), h.pending) \/ h.cpu.end = i

LEMMA AnswerKnown ==
    ASSUME NEW u, NEW pd, NEW k, NEW b, KnowsOf(u, pd, k, b), IsABag(pd), 0 \notin DOMAIN k,
           NEW i \in DOMAIN k, BagIn(InvocationEnd(i), pd) \/ u.end = i,
           NEW pd2, pd2 = pd (-) SetToBag({InvocationEnd(i)}),
           NEW n, n = (IF u.end = i THEN 0 ELSE u.end),
           NEW k2, DOMAIN k2 = DOMAIN k, k2[i] = "ending",
           \A j \in DOMAIN k : j # i => k2[j] = k[j],
           NEW v, v = EndSet(u, n)
    PROVE  k[i] = "told" /\ KnowsOf(v, pd2, k2, b)
  <1>1. IsCpu(u) /\ Told(u, pd, k, b)
    BY DEF KnowsOf
  <1>2. /\ IsCpu(v) /\ v.policy = u.policy /\ v.waiting = u.waiting /\ v.queue = u.queue
        /\ v.work = u.work /\ v.end = n
    BY <1>1, EndSetIs
  <1>3. /\ Answers(pd2, i) = IF Answers(pd, i) = 0 THEN 0 ELSE Answers(pd, i) - 1
        /\ \A j : j # i => Answers(pd2, j) = Answers(pd, j)
    BY AnswerTaken
  <1>4. BagIn(InvocationEnd(i), pd) => Answers(pd, i) # 0
    <2>1. \A f : BagIn(f, pd) <=> Copies(f, pd) > 0
      BY CancelledCopies
    <2> QED BY <2>1 DEF Answers
  <1>5. i # 0
    OBVIOUS
  <1>6. CASE u.policy = "Ignored"
    <2>1. /\ k[i] = "told" /\ Answers(pd, i) = 1 /\ u.end = 0 /\ n = 0 /\ u.work = {}
          /\ DOMAIN u.waiting = {}
          /\ \A j : Answers(pd, j) = IF j \in DOMAIN k /\ k[j] = "told" THEN 1 ELSE 0
      BY <1>1, <1>4, <1>5, <1>6 DEF Told
    <2>3. \A j : Answers(pd2, j) = IF j \in DOMAIN k2 /\ k2[j] = "told" THEN 1 ELSE 0
      BY <1>3, <2>1
    <2>2. Told(v, pd2, k2, b)
      BY <1>2, <1>6, <2>1, <2>3 DEF Told
    <2> QED BY <1>2, <2>1, <2>2 DEF KnowsOf
  <1>7. CASE u.policy = "Isolated"
    <2>1. k[i] = "told" /\ b[i] \notin DOMAIN u.waiting /\ Answers(pd, i) = 1
      BY <1>1, <1>4, <1>5, <1>7 DEF Told
    <2>2. \A d \in DOMAIN u.waiting : Held(k2, b, {"told"}, d) = Held(k, b, {"told"}, d)
      BY <2>1 DEF Held
    <2>3. WaitingOf(v.waiting, v.queue, k2, b)
      BY <1>1, <1>2, <1>7, <2>2 DEF Told, WaitingOf
    <2>4. Told(v, pd2, k2, b)
      BY <1>1, <1>2, <1>3, <1>7, <2>1, <2>3 DEF Told
    <2> QED BY <1>2, <2>1, <2>4 DEF KnowsOf
  <1>8. CASE u.policy = "Contended"
    <2>1. k[i] = "told" /\ u.end = i /\ n = 0
      BY <1>1, <1>4, <1>8 DEF Told
    <2>2. {j \in DOMAIN k2 : k2[j] \in {"told", "ending"}}
            = {j \in DOMAIN k : k[j] \in {"told", "ending"}}
      BY <2>1
    <2>3. Told(v, pd2, k2, b)
      BY <1>1, <1>2, <1>3, <1>8, <2>1, <2>2 DEF Told
    <2> QED BY <1>2, <2>1, <2>3 DEF KnowsOf
  <1> QED BY <1>1, <1>6, <1>7, <1>8 DEF Told

\* Only events and the cpu are different.
LEMMA AnswerDelivered ==
    ASSUME NEW h, NEW k, NEW b, HostAt(h, k, b, {}), NEW i \in DOMAIN k, MayEnd(h, i),
           NEW k2, DOMAIN k2 = DOMAIN k, k2[i] = "ending",
           \A j \in DOMAIN k : j # i => k2[j] = k[j],
           NEW m, m = Delivered(h, InvocationEnd(i))
    PROVE  /\ k[i] = "told" /\ IsHost(m) /\ SameBooks(m, h) /\ SameRegistry(m, h)
           /\ KnowsOf(m.cpu, m.pending, k2, b) /\ IsABag(m.pending)
           /\ \A d : Starts(m.pending, d) = Starts(h.pending, d)
           /\ \A d : Ends(m.pending, d) = Ends(h.pending, d)
  <1>1. /\ IsHost(h) /\ CyclesOf(h.containers, h.reservations, h.pending, {})
        /\ KnowsOf(h.cpu, h.pending, k, b) /\ IsABag(h.pending)
        /\ EntriesOf(h.registry, k, b)
    BY DEF HostAt, CyclesOf
  <1>2. Takes(m, h, InvocationEnd(i))
    BY <1>1, DeliveredDoes
  <1>3. /\ IsHost(m) /\ SameBooks(m, h) /\ SameRegistry(m, h)
        /\ m.pending = h.pending (-) SetToBag({InvocationEnd(i)})
    BY <1>2 DEF Takes
  <1>4. PICK n : n = IF h.cpu.end = i THEN 0 ELSE h.cpu.end
    OBVIOUS
  <1>5. m.cpu = EndSet(h.cpu, n)
    <2>1. InvocationEnd(i) = InvocationEnd(h.cpu.end) <=> h.cpu.end = i
      BY EventsDiffer
    <2>2. n = IF InvocationEnd(i) = InvocationEnd(h.cpu.end) THEN 0 ELSE h.cpu.end
      BY <1>4, <2>1
    <2> QED BY <1>2, <2>2 DEF Takes, EndSet
  <1>6. 0 \notin DOMAIN k
    BY <1>1 DEF EntriesOf
  <1>7. k[i] = "told" /\ KnowsOf(m.cpu, m.pending, k2, b)
    BY <1>1, <1>3, <1>4, <1>5, <1>6, AnswerKnown DEF MayEnd
  <1>8. /\ IsABag(m.pending)
        /\ \A d : Starts(m.pending, d) = Starts(h.pending, d) /\ Ends(m.pending, d) = Ends(h.pending, d)
    BY <1>1, <1>3, AnswerTaken
  <1> QED BY <1>3, <1>7, <1>8
Finish(h, i, c) == [Assign(h, i, "Finished", c) EXCEPT !.active = @ - 1]

Left(v, I, s) == [v EXCEPT !.invocations = I, !.status = s]

Rests(v, i) == v.invocations \ {i} = {}

Finishes(g, h, i, c) ==
    /\ IsHost(g) /\ SameBooks(g, h) /\ g.pending = h.pending
    /\ g.cpu = h.cpu /\ g.invoker = h.invoker /\ g.queue = h.queue
    /\ g.active = h.active - 1
    /\ g.registry = [h.registry EXCEPT ![i] = [h.registry[i] EXCEPT !.status = "Finished", !.container = c]]

LEMMA FinishDoes ==
    ASSUME NEW h, IsHost(h), NEW i, NEW c
    PROVE  Finishes(Finish(h, i, c), h, i, c)
  <1> SUFFICES ASSUME NEW g, g = Finish(h, i, c)
               PROVE  Finishes(g, h, i, c)
    OBVIOUS
  <1>1. PICK cs, n, fr, fu, rs, ac, pd, cap, con, u, rg, iv, q :
          h = HostOf(cs, n, fr, fu, rs, ac, pd, cap, con, u, rg, iv, q)
    BY DEF IsHost
  <1>2. g = HostOf(cs, n, fr, fu, rs, ac - 1, pd, cap, con, u, [rg EXCEPT ![i] = [rg[i] EXCEPT !.status = "Finished", !.container = c]], iv, q)
    BY <1>1 DEF HostOf, Finish, Assign
  <1>3. IsHost(g)
    BY <1>2, HostIs
  <1>4.   /\ h.containers = cs /\ h.next = n /\ h.free = fr /\ h.full = fu
        /\ h.reservations = rs /\ h.active = ac /\ h.pending = pd /\ h.capacity = cap
        /\ h.consumed = con /\ h.cpu = u /\ h.registry = rg /\ h.invoker = iv
        /\ h.queue = q
    BY <1>1 DEF HostOf
  <1>5.   /\ g.containers = cs /\ g.next = n /\ g.free = fr /\ g.full = fu
        /\ g.reservations = rs /\ g.active = ac - 1 /\ g.pending = pd
        /\ g.capacity = cap /\ g.consumed = con /\ g.cpu = u
        /\ g.registry = [rg EXCEPT ![i] = [rg[i] EXCEPT !.status = "Finished", !.container = c]]
        /\ g.invoker = iv /\ g.queue = q
    BY <1>2 DEF HostOf
  <1> QED BY ONLY <1>3, <1>4, <1>5 DEF Finishes, SameBooks, SameRegistry

Vacates(g, h, c, i) ==
    /\ IsHost(g) /\ SameRegistry(g, h) /\ g.next = h.next
    /\ g.free = h.free /\ g.full = h.full
    /\ g.reservations = h.reservations /\ g.pending = h.pending
    /\ g.capacity = h.capacity /\ g.consumed = h.consumed /\ g.cpu = h.cpu
    /\ g.containers = [h.containers EXCEPT ![c] = Left(h.containers[c], h.containers[c].invocations \ {i}, IF Rests(h.containers[c], i) THEN "Idle" ELSE h.containers[c].status)]

LEMMA LeaveContainerDoes ==
    ASSUME NEW h, IsHost(h), NEW c, NEW i
    PROVE  Vacates(LeaveContainer(h, c, i), h, c, i)
  <1> SUFFICES ASSUME NEW g, g = LeaveContainer(h, c, i)
               PROVE  Vacates(g, h, c, i)
    OBVIOUS
  <1>1. PICK cs, n, fr, fu, rs, ac, pd, cap, con, u, rg, iv, q :
          h = HostOf(cs, n, fr, fu, rs, ac, pd, cap, con, u, rg, iv, q)
    BY DEF IsHost
  <1>2. g = HostOf([cs EXCEPT ![c] = Left(cs[c], cs[c].invocations \ {i}, IF Rests(cs[c], i) THEN "Idle" ELSE cs[c].status)], n, fr, fu, rs, ac, pd, cap, con, u, rg, iv, q)
    BY <1>1 DEF HostOf, LeaveContainer, Left, Rests, Invocations
  <1>3. IsHost(g)
    BY <1>2, HostIs
  <1>4.   /\ h.containers = cs /\ h.next = n /\ h.free = fr /\ h.full = fu
        /\ h.reservations = rs /\ h.active = ac /\ h.pending = pd /\ h.capacity = cap
        /\ h.consumed = con /\ h.cpu = u /\ h.registry = rg /\ h.invoker = iv
        /\ h.queue = q
    BY <1>1 DEF HostOf
  <1>5.   /\ g.containers = [cs EXCEPT ![c] = Left(cs[c], cs[c].invocations \ {i}, IF Rests(cs[c], i) THEN "Idle" ELSE cs[c].status)]
        /\ g.next = n /\ g.free = fr /\ g.full = fu /\ g.reservations = rs
        /\ g.active = ac /\ g.pending = pd /\ g.capacity = cap /\ g.consumed = con
        /\ g.cpu = u /\ g.registry = rg /\ g.invoker = iv /\ g.queue = q
    BY <1>2 DEF HostOf
  <1> QED BY ONLY <1>3, <1>4, <1>5 DEF Vacates, SameBooks, SameRegistry
LEMMA LeftIs ==
    ASSUME NEW v, IsContainer(v), NEW I, NEW s
    PROVE  Becomes(Left(v, I, s), v, s, I)
  <1>1. PICK a, t, J, w : v = [app |-> a, status |-> t, invocations |-> J, windowSet |-> w]
    BY DEF IsContainer
  <1>2. PICK m : m = [v EXCEPT !.invocations = I]
    OBVIOUS
  <1>3. m = [app |-> a, status |-> t, invocations |-> I, windowSet |-> w]
    BY <1>1, <1>2
  <1>4. PICK x : x = [m EXCEPT !.status = s]
    OBVIOUS
  <1>5. x = [app |-> a, status |-> s, invocations |-> I, windowSet |-> w]
    BY <1>3, <1>4
  <1>6. Left(v, I, s) = x
    BY <1>2, <1>4, Zenon DEF Left
  <1>7. v.app = a
    BY <1>1
  <1>8. Becomes(x, v, s, I)
    BY <1>5, <1>7 DEF Becomes, IsContainer
  <1> QED BY <1>6, <1>8

\* A container that was full is listed as free when an invocation leaves it.
Freed(fr2, fu2, fr, fu, a, c) ==
    \/ /\ c \in fu[a] /\ fr2 = [fr EXCEPT ![a] = Append(fr[a], c)]
       /\ fu2 = [fu EXCEPT ![a] = fu[a] \ {c}]
    \/ c \notin fu[a] /\ fr2 = fr /\ fu2 = fu

LEMMA ListsLose ==
    ASSUME NEW cs, NEW fr, NEW fu, NEW k, NEW b, ListsOf(cs, fr, fu, k, b),
           IsFiniteSet(DOMAIN k), NEW k2, NEW b2,
           NEW c \in DOMAIN cs, c \in Nat, NEW a \in App, cs[c].app = a,
           \A d \in DOMAIN cs : cs[d].app \in App,
           NEW i, i \in Held(k, b, Holding, c),
           Held(k2, b2, Holding, c) = Held(k, b, Holding, c) \ {i},
           \A d \in DOMAIN cs : d # c => Held(k2, b2, Holding, d) = Held(k, b, Holding, d),
           NEW fr2, NEW fu2, Freed(fr2, fu2, fr, fu, a, c)
    PROVE  ListsOf(cs, fr2, fu2, k2, b2)
  <1> DEFINE H == Held(k, b, Holding, c)
             H2 == Held(k2, b2, Holding, c)
  <1>1. Cardinality(H) \in Nat /\ Cardinality(H2) = Cardinality(H) - 1
    <2>1. IsFiniteSet(H) /\ Cardinality(H) \in Nat
      BY HeldFinite
    <2> QED BY <2>1, FS_RemoveElement
  <1>2. /\ ListedAs(fr, fu, a, c, Cardinality(H)) /\ Limit[a] \in Nat
        /\ fr[a] \in Seq(Nat) /\ IsInjective(fr[a]) /\ DOMAIN fr = App /\ DOMAIN fu = App
    BY AppAssumption DEF ListsOf
  <1>3. c \in fu[a] => c \notin Range(fr[a])
    BY <1>1, <1>2 DEF ListedAs
  <1>4. c \in fu[a] => /\ Append(fr[a], c) \in Seq(Nat) /\ IsInjective(Append(fr[a], c))
                       /\ Range(Append(fr[a], c)) = Range(fr[a]) \cup {c}
    BY <1>2, <1>3, AppendDistinct
  <1>5. DOMAIN fr2 = App /\ DOMAIN fu2 = App
    BY <1>2 DEF Freed
  <1>6. /\ \A e \in App : e # a => fr2[e] = fr[e] /\ fu2[e] = fu[e]
        /\ fr2[a] \in Seq(Nat) /\ IsInjective(fr2[a])
        /\ Range(fr2[a]) = Range(fr[a]) \cup {c}
        /\ fu2[a] = fu[a] \ {c}
    <2>1. CASE c \in fu[a]
      BY <1>2, <1>4, <2>1 DEF Freed
    <2>2. CASE c \notin fu[a]
      <3>1. c \in Range(fr[a])
        BY <1>1, <1>2, <2>2 DEF ListedAs
      <3> QED BY <1>2, <2>2, <3>1 DEF Freed
    <2> QED BY <2>1, <2>2
  <1>7. ASSUME NEW d \in DOMAIN cs
        PROVE  ListedAs(fr2, fu2, cs[d].app, d, Cardinality(Held(k2, b2, Holding, d)))
    <2>1. CASE d = c
      <3>1. ListedAs(fr2, fu2, a, c, Cardinality(H2))
        <4> HIDE DEF H, H2
        <4> QED BY <1>1, <1>2, <1>6 DEF ListedAs
      <3> QED BY <2>1, <3>1
    <2>2. CASE d # c
      <3>1. ListedAs(fr, fu, cs[d].app, d, Cardinality(Held(k, b, Holding, d)))
        BY DEF ListsOf
      <3>2. Held(k2, b2, Holding, d) = Held(k, b, Holding, d)
        BY <2>2
      <3> HIDE DEF H, H2
      <3>3. /\ d \in Range(fr2[cs[d].app]) <=> d \in Range(fr[cs[d].app])
            /\ d \in fu2[cs[d].app] <=> d \in fu[cs[d].app]
        BY <1>6, <2>2
      <3> QED BY <3>1, <3>2, <3>3 DEF ListedAs
    <2> QED BY <2>1, <2>2
  <1>8. ASSUME NEW e \in App
        PROVE  /\ fr2[e] \in Seq(Nat) /\ IsInjective(fr2[e])
               /\ \A d \in Range(fr2[e]) \cup fu2[e] : d \in DOMAIN cs /\ cs[d].app = e
    <2>1. /\ fr[e] \in Seq(Nat) /\ IsInjective(fr[e])
          /\ \A d \in Range(fr[e]) \cup fu[e] : d \in DOMAIN cs /\ cs[d].app = e
      BY DEF ListsOf
    <2> HIDE DEF H, H2
    <2>2. CASE e = a
      BY <1>6, <2>1, <2>2
    <2>3. CASE e # a
      BY <1>6, <2>1, <2>3
    <2> QED BY <2>2, <2>3
  <1> QED BY <1>5, <1>7, <1>8 DEF ListsOf

Frozen(g, h) ==
    /\ IsHost(g) /\ SameRegistry(g, h) /\ g.containers = h.containers /\ g.next = h.next
    /\ g.reservations = h.reservations /\ g.pending = h.pending
    /\ g.capacity = h.capacity /\ g.consumed = h.consumed /\ g.cpu = h.cpu

LEMMA TryFreeDoes ==
    ASSUME NEW h, IsHost(h), NEW c, NEW a, a = h.containers[c].app,
           NEW g, g = TryMoveToFree(h, c)
    PROVE  Frozen(g, h) /\ Freed(g.free, g.full, h.free, h.full, a, c)
  <1>1. CASE c \in h.full[a]
    <2>1. Frees(g, h, c, a)
      BY <1>1, FreeDoes
    <2> QED BY <1>1, <2>1 DEF Frees, Frozen, Freed
  <1>2. CASE c \notin h.full[a]
    <2>1. g = h
      BY <1>2 DEF TryMoveToFree
    <2> QED BY <1>2, <2>1 DEF Frozen, Freed, SameRegistry
  <1> QED BY <1>1, <1>2
\* All of the invariant but what the cpu knows.
HostButCpu(h, k, b, X) ==
    /\ IsHost(h)
    /\ StockOf(h.containers, h.next)
    /\ BudgetOf(h.containers, h.capacity, h.consumed)
    /\ ListsOf(h.containers, h.free, h.full, k, b)
    /\ EntriesOf(h.registry, k, b)
    /\ Inside(h.containers, k, b)
    /\ ReservedFor(h.reservations, k, b)
    /\ CyclesOf(h.containers, h.reservations, h.pending, X)
    /\ ActiveOf(h.active, k)

\* Invocation i is in container c no more: what the containers hold.
HeldLess(k2, k, b, i, c) ==
    /\ \A K, d : K \subseteq Holding /\ d # c => Held(k2, b, K, d) = Held(k, b, K, d)
    /\ Held(k2, b, Holding, c) = Held(k, b, Holding, c) \ {i}
    /\ i \in Held(k, b, Holding, c)
    /\ Held(k2, b, In, c) = Held(k, b, In, c) \ {i} /\ i \in Held(k, b, In, c)
    /\ \A d : Held(k2, b, {"reserved"}, d) = Held(k, b, {"reserved"}, d)

LEMMA HeldEnds ==
    ASSUME NEW k, NEW b, DOMAIN b = DOMAIN k, NEW i \in DOMAIN k, k[i] = "told",
           NEW c, b[i] = c, NEW k2, Moved(k2, b, k, b, i, "finished", c)
    PROVE  HeldLess(k2, k, b, i, c)
  <1>1. HeldAfter(k2, b, k, b, i, "finished", c)
    BY HeldMoved
  <1>2. "finished" \notin Holding /\ "told" \in Holding /\ "told" \in In /\ "finished" \notin In
    BY DEF Holding, In
  <1>3. ASSUME NEW K, K \subseteq Holding, NEW d
        PROVE  Held(k2, b, K, d) = Held(k, b, K, d) \ {i}
    <2>1. "finished" \notin K
      BY <1>2, <1>3
    <2> QED BY <1>1, <2>1 DEF HeldAfter
  <1>4. ASSUME NEW K, NEW d, d # c
        PROVE  i \notin Held(k, b, K, d)
    BY <1>4 DEF Held
  <1>5. i \in Held(k, b, Holding, c) /\ i \in Held(k, b, In, c)
    BY <1>2 DEF Held
  <1>6. Holding \subseteq Holding /\ In \subseteq Holding /\ {"reserved"} \subseteq Holding
    BY DEF Holding
  <1>7. ASSUME NEW K, K \subseteq Holding, NEW d, d # c
        PROVE  Held(k2, b, K, d) = Held(k, b, K, d)
    <2>1. Held(k2, b, K, d) = Held(k, b, K, d) \ {i}
      BY <1>3, <1>7
    <2>2. i \notin Held(k, b, K, d)
      BY <1>4, <1>7
    <2> QED BY <2>1, <2>2
  <1>8. ASSUME NEW d PROVE Held(k2, b, {"reserved"}, d) = Held(k, b, {"reserved"}, d)
    <2>1. Held(k2, b, {"reserved"}, d) = Held(k, b, {"reserved"}, d) \ {i}
      BY <1>3, <1>6
    <2>2. i \notin Held(k, b, {"reserved"}, d)
      BY DEF Held
    <2> QED BY <2>1, <2>2
  <1> QED BY <1>3, <1>5, <1>6, <1>7, <1>8 DEF HeldLess

LEMMA ActiveEnds ==
    ASSUME NEW ac, NEW k, ActiveOf(ac, k), IsFiniteSet(DOMAIN k), NEW i \in DOMAIN k,
           k[i] # "finished", NEW b, NEW c, NEW k2, Moved(k2, b, k, b, i, "finished", c)
    PROVE  ActiveOf(ac - 1, k2)
  <1> DEFINE A == {j \in DOMAIN k : k[j] # "finished"}
             B == {j \in DOMAIN k2 : k2[j] # "finished"}
  <1>1. IsFiniteSet(A) /\ i \in A
    BY FS_Subset
  <1>2. B = A \ {i}
    BY DEF Moved
  <1> HIDE DEF A, B
  <1>3. Cardinality(A \ {i}) = Cardinality(A) - 1
    BY <1>1, FS_RemoveElement
  <1>4. ac = Cardinality(A)
    BY DEF ActiveOf, A
  <1>5. Cardinality(B) = ac - 1
    BY <1>2, <1>3, <1>4
  <1> QED BY <1>5 DEF ActiveOf, B
\* What is left of container c when the books are done.
Vacated(e, c) ==
    /\ c \in DOMAIN e.containers /\ Starts(e.pending, c) = 0 /\ Ends(e.pending, c) \in {0, 1}
    /\ Reservation(e.reservations, c) = <<>>
    /\ \/ e.containers[c].status = "Idle" /\ e.containers[c].invocations = {}
       \/ e.containers[c].status = "Running" /\ e.containers[c].invocations # {}

LEMMA EndBooks ==
    ASSUME NEW h, NEW k, NEW b, HostAt(h, k, b, {}), NEW i \in DOMAIN k, k[i] = "told",
           NEW c, b[i] = c, NEW k2, Moved(k2, b, k, b, i, "finished", c), NEW X, X = {c},
           NEW m, IsHost(m), SameBooks(m, h), SameRegistry(m, h), IsABag(m.pending),
           \A d : Starts(m.pending, d) = Starts(h.pending, d),
           \A d : Ends(m.pending, d) = Ends(h.pending, d),
           NEW e, e = LeaveContainer(TryMoveToFree(Finish(m, i, c), c), c, i)
    PROVE  /\ HostButCpu(e, k2, b, X) /\ Vacated(e, c) /\ c \in Nat
           /\ e.cpu = m.cpu /\ e.pending = m.pending /\ SameQueue(e, h)
  <1> DEFINE cs == h.containers
             v == cs[c]
             s == IF Rests(v, i) THEN "Idle" ELSE v.status
             I == v.invocations \ {i}
             a == v.app
  <1>1. /\ StockOf(cs, h.next) /\ BudgetOf(cs, h.capacity, h.consumed)
        /\ ListsOf(cs, h.free, h.full, k, b)
        /\ EntriesOf(h.registry, k, b) /\ Inside(cs, k, b)
        /\ ReservedFor(h.reservations, k, b)
        /\ CyclesOf(cs, h.reservations, h.pending, {}) /\ ActiveOf(h.active, k)
    BY DEF HostAt
  <1>2. /\ DOMAIN k = DOMAIN h.registry /\ DOMAIN b = DOMAIN k /\ IsFiniteSet(DOMAIN k)
    BY <1>1 DEF EntriesOf
  <1>3. HeldLess(k2, k, b, i, c)
    BY <1>2, HeldEnds
  <1>4. /\ c \in DOMAIN cs /\ c \in Nat /\ IsContainer(v) /\ a \in App
        /\ \A d \in DOMAIN cs : cs[d].app \in App
    <2>1. "told" \in Holding
      BY DEF Holding, In
    <2>2. c \in DOMAIN cs
      BY <1>1, <2>1 DEF Inside
    <2>3. \A d \in 0..(h.next - 1) : d \in Nat
      BY <1>1 DEF StockOf
    <2> QED BY <1>1, <2>2, <2>3 DEF StockOf
  <1>5. PICK f : f = Finish(m, i, c)
    OBVIOUS
  <1>6. PICK g : g = TryMoveToFree(f, c)
    OBVIOUS
  <1>7. Finishes(f, m, i, c)
    BY <1>5, FinishDoes
  <1>8. /\ IsHost(f) /\ f.containers = cs /\ f.next = h.next /\ f.free = h.free
        /\ f.full = h.full /\ f.reservations = h.reservations /\ f.pending = m.pending
        /\ f.capacity = h.capacity /\ f.consumed = h.consumed /\ f.cpu = m.cpu
        /\ f.active = h.active - 1 /\ f.invoker = h.invoker /\ f.queue = h.queue
        /\ f.registry = [h.registry EXCEPT ![i] = [h.registry[i] EXCEPT !.status = "Finished", !.container = c]]
    BY <1>7 DEF Finishes, SameBooks, SameRegistry
  <1>9. Frozen(g, f) /\ Freed(g.free, g.full, f.free, f.full, a, c)
    BY <1>6, <1>8, TryFreeDoes
  <1>10. Vacates(e, g, c, i)
    BY <1>5, <1>6, <1>9, LeaveContainerDoes DEF Frozen
  <1>11. /\ IsHost(e) /\ e.next = h.next /\ e.free = g.free /\ e.full = g.full
         /\ e.reservations = h.reservations /\ e.pending = m.pending
         /\ e.capacity = h.capacity /\ e.consumed = h.consumed /\ e.cpu = m.cpu
         /\ e.active = h.active - 1 /\ e.invoker = h.invoker /\ e.queue = h.queue
         /\ e.registry = f.registry
         /\ e.containers = [cs EXCEPT ![c] = Left(v, I, s)]
    BY <1>8, <1>9, <1>10 DEF Vacates, Frozen, SameRegistry
  <1>12. Becomes(Left(v, I, s), v, s, I)
    <2>1. PICK J, t : J = I /\ t = s
      OBVIOUS
    <2>2. IsContainer(v)
      BY <1>4
    <2> HIDE DEF v, I, s
    <2>3. Becomes(Left(v, J, t), v, t, J)
      BY <2>2, LeftIs
    <2> QED BY <2>1, <2>3
  <1>13. /\ DOMAIN e.containers = DOMAIN cs /\ Becomes(e.containers[c], v, s, I)
         /\ \A d \in DOMAIN cs : d # c => e.containers[d] = cs[d]
    <2> HIDE DEF v, I, s, cs
    <2> QED BY <1>4, <1>11, <1>12
  <1>14. \A d \in DOMAIN cs : e.containers[d].app = cs[d].app
    BY <1>13 DEF Becomes
  <1>15. StockOf(e.containers, e.next) /\ BudgetOf(e.containers, e.capacity, e.consumed)
    <2>1. StockOf(e.containers, e.next)
      <3> HIDE DEF v, I, s, cs
      <3>1. \A d \in DOMAIN cs : IsContainer(e.containers[d]) /\ e.containers[d].app \in App
        BY <1>1, <1>4, <1>13, <1>14 DEF StockOf, Becomes
      <3> QED BY <1>1, <1>11, <1>13, <3>1 DEF StockOf
    <2> QED BY <1>1, <1>11, <1>13, <1>14, <2>1, BudgetSameApps
  <1>16. ListsOf(e.containers, e.free, e.full, k2, b)
    <2>1. /\ i \in Held(k, b, Holding, c)
          /\ Held(k2, b, Holding, c) = Held(k, b, Holding, c) \ {i}
          /\ \A d \in DOMAIN cs : d # c => Held(k2, b, Holding, d) = Held(k, b, Holding, d)
      BY <1>3 DEF HeldLess
    <2>2. Freed(e.free, e.full, h.free, h.full, a, c)
      BY <1>8, <1>9, <1>11
    <2> HIDE DEF v, I, s, cs
    <2>3. cs[c].app = a
      BY DEF v
    <2> HIDE DEF a
    <2>4. ListsOf(cs, e.free, e.full, k2, b)
      BY <1>1, <1>2, <1>4, <2>1, <2>2, <2>3, ListsLose
    <2> QED BY <1>13, <1>14, <2>4, ListsSameApps
  <1>17. EntriesOf(e.registry, k2, b)
    <2> DEFINE rg == h.registry
               rg2 == e.registry
    <2>1. EntryAgrees(rg[i], "told", c)
      BY <1>1, <1>2 DEF EntriesOf
    <2>2. /\ DOMAIN rg2 = DOMAIN rg /\ \A j \in DOMAIN rg : j # i => rg2[j] = rg[j]
          /\ rg2[i] = [rg[i] EXCEPT !.status = "Finished", !.container = c]
      BY <1>2, <1>8, <1>11
    <2> HIDE DEF rg, rg2
    <2>4. EntryAgrees(rg2[i], "finished", c)
      BY <2>1, <2>2, EntryUpdated DEF EntryAgrees
    <2>5. "finished" \in Kinds
      BY DEF Kinds
    <2>6. EntriesOf(rg, k, b)
      BY <1>1 DEF rg
    <2>7. EntriesOf(rg2, k2, b)
      BY <2>2, <2>4, <2>5, <2>6, EntriesMoved
    <2> QED BY <2>7 DEF rg2
  <1>18. Inside(e.containers, k2, b)
    <2>1. v.invocations = Held(k, b, In, c)
      BY <1>1, <1>4 DEF Inside
    <2>2. e.containers[c].invocations = Held(k2, b, In, c)
      BY <1>3, <1>13, <2>1 DEF HeldLess, Becomes
    <2>3. ASSUME NEW d \in DOMAIN cs, d # c
          PROVE  e.containers[d].invocations = Held(k2, b, In, d)
      <3>1. In \subseteq Holding
        BY DEF Holding
      <3>2. Held(k2, b, In, d) = Held(k, b, In, d)
        BY <1>3, <2>3, <3>1 DEF HeldLess
      <3> QED BY <1>1, <1>13, <2>3, <3>2 DEF Inside
    <2>4. \A j \in DOMAIN k2 : k2[j] \in Holding => b[j] \in DOMAIN cs
      BY <1>1, <1>4 DEF Inside, Moved
    <2> HIDE DEF v, I, s, cs
    <2> QED BY <1>13, <2>2, <2>3, <2>4 DEF Inside
  <1>19. ReservedFor(e.reservations, k2, b)
    <2>1. \A d : Held(k2, b, {"reserved"}, d) = Held(k, b, {"reserved"}, d)
      BY <1>3 DEF HeldLess
    <2> QED BY <1>1, <1>11, <2>1, ReservedSame
  <1>20. CyclesOf(e.containers, e.reservations, e.pending, X)
    <2> HIDE DEF v, I, s
    <2> QED BY <1>1, <1>11, <1>13 DEF CyclesOf
  <1>21. ActiveOf(e.active, k2)
    BY <1>1, <1>2, <1>11, ActiveEnds
  <1>22. Vacated(e, c)
    <2>1. /\ v.status = "Running" /\ Starts(h.pending, c) = 0 /\ Ends(h.pending, c) \in {0, 1}
          /\ Reservation(h.reservations, c) = <<>>
      <3>1. v.invocations # {}
        BY <1>1, <1>3, <1>4 DEF Inside, HeldLess
      <3> QED BY <1>1, <1>4, <3>1 DEF CyclesOf, CycleOf
    <2>2. e.containers[c].status = s /\ e.containers[c].invocations = I
      BY <1>13 DEF Becomes
    <2>3. \/ s = "Idle" /\ I = {}
          \/ s = "Running" /\ I # {}
      BY <2>1 DEF Rests
    <2> HIDE DEF s, I
    <2> QED BY <1>4, <1>11, <1>13, <2>1, <2>2, <2>3 DEF Vacated
  <1>23. HostButCpu(e, k2, b, X)
    BY <1>11, <1>15, <1>16, <1>17, <1>18, <1>19, <1>20, <1>21 DEF HostButCpu
  <1> QED BY <1>4, <1>11, <1>22, <1>23 DEF SameQueue
LEMMA WorkedKeeps ==
    ASSUME NEW e, NEW k, NEW b, NEW X, HostButCpu(e, k, b, X), NEW g, Working(g, e),
           KnowsOf(g.cpu, g.pending, k, b)
    PROVE  HostAt(g, k, b, X)
  <1>1. /\ IsHost(g) /\ g.containers = e.containers /\ g.next = e.next /\ g.free = e.free
        /\ g.full = e.full /\ g.reservations = e.reservations /\ g.capacity = e.capacity
        /\ g.consumed = e.consumed /\ g.registry = e.registry /\ g.active = e.active
        /\ IsABag(g.pending)
        /\ \A c : Starts(g.pending, c) = Starts(e.pending, c)
        /\ \A c : Ends(g.pending, c) = Ends(e.pending, c)
    BY DEF Working, SameBooks, SameRegistry
  <1>2. CyclesOf(g.containers, g.reservations, g.pending, X)
    BY <1>1 DEF HostButCpu, CyclesOf
  <1> QED BY <1>1, <1>2 DEF HostButCpu, HostAt

EndAt(m, i, c, d) ==
    Bind(CpuEnd(LeaveContainer(TryMoveToFree(Finish(m, i, c), c), c, i), i, c),
         LAMBDA g : IF g.containers[c].status = "Idle" THEN KeepAlive(g, c, d) ELSE g)

LEMMA OnInvocationEndIs ==
    ASSUME NEW m, NEW i, NEW d, NEW c, c = m.registry[i].container,
           NEW g, g = CpuEnd(LeaveContainer(TryMoveToFree(Finish(m, i, c), c), c, i), i, c)
    PROVE  OnInvocationEnd(m, i, d) =
             IF g.containers[c].status = "Idle" THEN KeepAlive(g, c, d) ELSE g
  <1>1. OnInvocationEnd(m, i, d) = EndAt(m, i, m.registry[i].container, d)
    BY Zenon DEF OnInvocationEnd, Finish, EndAt
  <1>2. EndAt(m, i, c, d)
          = Bind(g, LAMBDA x : IF x.containers[c].status = "Idle" THEN KeepAlive(x, c, d) ELSE x)
    BY Zenon DEF EndAt
  <1>3. Bind(g, LAMBDA x : IF x.containers[c].status = "Idle" THEN KeepAlive(x, c, d) ELSE x)
          = IF g.containers[c].status = "Idle" THEN KeepAlive(g, c, d) ELSE g
    BY DEF Bind
  <1> QED BY <1>1, <1>2, <1>3, Zenon

\* An invocation that has ended leaves its container and the cpu.
LEMMA OnInvocationEndKeeps ==
    ASSUME NEW h, NEW k, NEW b, HostAt(h, k, b, {}), Settled(h, k), NEW i \in DOMAIN k,
           MayEnd(h, i), NEW c, c = h.registry[i].container, NEW d, Decides(h, c, d),
           NEW g, g = OnInvocationEnd(Delivered(h, InvocationEnd(i)), i, d)
    PROVE  \E k2 : /\ HostAt(g, k2, b, {}) /\ Settled(g, k2) /\ DOMAIN k2 = DOMAIN k
                  /\ g.invoker = h.invoker
  <1>1. PICK X : X = {c}
    OBVIOUS
  <1>2. PICK m : m = Delivered(h, InvocationEnd(i))
    OBVIOUS
  <1>3. PICK k1 : DOMAIN k1 = DOMAIN k /\ k1[i] = "ending" /\ \A j \in DOMAIN k : j # i => k1[j] = k[j]
    <2> DEFINE K == [j \in DOMAIN k |-> IF j = i THEN "ending" ELSE k[j]]
    <2>1. DOMAIN K = DOMAIN k /\ K[i] = "ending" /\ \A j \in DOMAIN k : j # i => K[j] = k[j]
      OBVIOUS
    <2> QED BY <2>1
  <1>4. PICK k2 : DOMAIN k2 = DOMAIN k /\ k2[i] = "finished" /\ \A j \in DOMAIN k : j # i => k2[j] = k[j]
    <2> DEFINE K == [j \in DOMAIN k |-> IF j = i THEN "finished" ELSE k[j]]
    <2>1. DOMAIN K = DOMAIN k /\ K[i] = "finished" /\ \A j \in DOMAIN k : j # i => K[j] = k[j]
      OBVIOUS
    <2> QED BY <2>1
  <1>5. /\ k[i] = "told" /\ IsHost(m) /\ SameBooks(m, h) /\ SameRegistry(m, h)
        /\ KnowsOf(m.cpu, m.pending, k1, b) /\ IsABag(m.pending)
        /\ \A e : Starts(m.pending, e) = Starts(h.pending, e)
        /\ \A e : Ends(m.pending, e) = Ends(h.pending, e)
    BY <1>2, <1>3, AnswerDelivered
  <1>6. b[i] = c /\ c = m.registry[i].container
    <2>1. EntriesOf(h.registry, k, b)
      BY DEF HostAt
    <2>2. EntryAgrees(h.registry[i], "told", b[i])
      BY <1>5, <2>1 DEF EntriesOf
    <2> QED BY <1>5, <2>2 DEF EntryAgrees, SameRegistry
  <1>7. Moved(k2, b, k, b, i, "finished", c)
    BY <1>4, <1>6 DEF Moved
  <1>8. PICK e : e = LeaveContainer(TryMoveToFree(Finish(m, i, c), c), c, i)
    OBVIOUS
  <1>9. /\ HostButCpu(e, k2, b, X) /\ Vacated(e, c) /\ c \in Nat
        /\ e.cpu = m.cpu /\ e.pending = m.pending /\ SameQueue(e, h)
    BY <1>1, <1>5, <1>6, <1>7, <1>8, EndBooks
  <1>10. PICK g1 : g1 = CpuEnd(e, i, c)
    OBVIOUS
  <1>11. Working(g1, e) /\ KnowsOf(g1.cpu, g1.pending, k2, b)
    <2>1. IsHost(e) /\ IsABag(e.pending) /\ KnowsOf(e.cpu, e.pending, k1, b)
      BY <1>5, <1>9 DEF HostButCpu
    <2>2. DOMAIN k2 = DOMAIN k1 /\ \A j \in DOMAIN k1 : j # i => k2[j] = k1[j]
      BY <1>3, <1>4
    <2> QED BY <1>3, <1>4, <1>10, <2>1, <2>2, CpuEnds
  <1>12. HostAt(g1, k2, b, X)
    BY ONLY <1>9, <1>11, WorkedKeeps
  <1>13. /\ Vacated(g1, c) /\ SameQueue(g1, h) /\ Ends(g1.pending, c) = Ends(h.pending, c)
    BY ONLY <1>5, <1>9, <1>11 DEF Working, SameBooks, SameRegistry, Vacated, SameQueue
  <1>14. g = IF g1.containers[c].status = "Idle" THEN KeepAlive(g1, c, d) ELSE g1
    <2>1. g1 = CpuEnd(LeaveContainer(TryMoveToFree(Finish(m, i, c), c), c, i), i, c)
      BY <1>8, <1>10
    <2> QED BY <1>2, <1>6, <2>1, OnInvocationEndIs
  <1>15. HostAt(g, k2, b, {}) /\ SameQueue(g, h)
    <2>1. CASE g1.containers[c].status = "Idle"
      <3>1. Resting(g1, c)
        BY <1>13, <2>1 DEF Vacated, Resting
      <3>2. Decides(g1, c, d)
        BY <1>13 DEF Decides
      <3>3. g = KeepAlive(g1, c, d)
        BY <1>14, <2>1
      <3>4. HostAt(g, k2, b, {}) /\ SameRegistry(g, g1)
        BY <1>1, <1>12, <2>1, <3>1, <3>2, <3>3, KeepAliveKeeps
      <3> QED BY <1>13, <3>4 DEF SameRegistry, SameQueue
    <2>2. CASE g1.containers[c].status # "Idle"
      <3>1. g = g1
        BY ONLY <1>14, <2>2
      <3>2. CycleOf(g1.containers[c].status, Starts(g1.pending, c), Ends(g1.pending, c),
                    g1.containers[c].invocations, Reservation(g1.reservations, c))
        BY ONLY <1>13, <2>2 DEF Vacated, CycleOf
      <3>3. HostAt(g1, k2, b, {})
        BY <1>1, <1>12, <3>2, CycleRestored
      <3> QED BY <1>13, <3>1, <3>3
    <2> QED BY <2>1, <2>2
  <1>16. Settled(g, k2)
    BY <1>4, <1>5, <1>15 DEF Settled, SameQueue
  <1> QED BY <1>4, <1>15, <1>16 DEF SameQueue
-----------------------------------------------------------------------------
(* What is hopeless stays so.                                              *)

\* Neither is there a container for an invocation of application a, nor room.
Hopeless(h, a) == ~ CanInvoke(h, a, TRUE) /\ ~ CanAllocate(h, a)

\* Nothing becomes available, but for application a.
Narrows(g, h, a) ==
    /\ \A e \in App : e # a =>
         \A c \in Range(g.free[e]) :
           c \in Range(h.free[e]) /\ g.containers[c].status = h.containers[c].status
    /\ g.capacity = h.capacity
    /\ \A e : CanAllocate(g, e) => CanAllocate(h, e)

Hardens(g, h, a) == \A e \in App : e # a /\ Hopeless(h, e) => Hopeless(g, e)

LEMMA CanInvokeIs ==
    ASSUME NEW h, NEW a
    PROVE  CanInvoke(h, a, TRUE) <=> \E c \in Range(h.free[a]) : h.containers[c].status # "Terminated"
  BY DEF CanInvoke, PossibleContainers, Range

LEMMA NarrowsHardens ==
    ASSUME NEW h, NEW g, NEW a, Narrows(g, h, a)
    PROVE  Hardens(g, h, a)
  <1> SUFFICES ASSUME NEW e \in App, e # a, Hopeless(h, e)
               PROVE  Hopeless(g, e)
    BY DEF Hardens
  <1>1. ~ CanAllocate(g, e)
    BY DEF Narrows, Hopeless
  <1>2. ~ CanInvoke(g, e, TRUE)
    <2>1. \A c \in Range(h.free[e]) : h.containers[c].status = "Terminated"
      BY CanInvokeIs DEF Hopeless
    <2>2. \A c \in Range(g.free[e]) : g.containers[c].status = "Terminated"
      BY <2>1 DEF Narrows
    <2> QED BY <2>2, CanInvokeIs
  <1> QED BY <1>1, <1>2 DEF Hopeless

LEMMA SameRoom ==
    ASSUME NEW g, NEW h, g.capacity = h.capacity, g.consumed = h.consumed
    PROVE  \A e : CanAllocate(g, e) => CanAllocate(h, e)
  BY DEF CanAllocate

LEMMA LessRoom ==
    ASSUME NEW h, BudgetOf(h.containers, h.capacity, h.consumed), NEW a \in App,
           NEW g, g.capacity = h.capacity, g.consumed = Consumed(h, a, 1)
    PROVE  \A e : e \in App /\ CanAllocate(g, e) => CanAllocate(h, e)
  <1> SUFFICES ASSUME NEW e \in App, CanAllocate(g, e), NEW r \in DOMAIN Needs[e]
               PROVE  r \in DOMAIN h.capacity /\ Needs[e][r] + h.consumed[r] <= h.capacity[r]
    BY DEF CanAllocate
  <1>1. r \in DOMAIN h.capacity /\ Needs[e][r] + g.consumed[r] <= h.capacity[r]
    BY DEF CanAllocate
  <1>2. Needs[e][r] \in Nat /\ (r \in DOMAIN Needs[a] => Needs[a][r] \in Nat)
    BY AppAssumption
  <1>3. h.consumed[r] \in Nat /\ h.capacity[r] \in Nat /\ DOMAIN h.consumed = DOMAIN h.capacity
    BY <1>1 DEF BudgetOf
  <1>4. g.consumed[r] = IF r \in DOMAIN Needs[a] THEN h.consumed[r] + 1 * Needs[a][r] ELSE h.consumed[r]
    BY <1>1, <1>3 DEF Consumed
  <1>5. g.consumed[r] \in Nat /\ h.consumed[r] <= g.consumed[r]
    BY <1>2, <1>3, <1>4
  <1> QED BY <1>1, <1>2, <1>3, <1>5

\* A container is deployed for application a, which was not hopeless.
LEMMA DeployHardens ==
    ASSUME NEW h, NEW k, NEW b, NEW X, HostAt(h, k, b, X), NEW a \in App, NEW g, Deploys(g, h, a)
    PROVE  Hardens(g, h, a)
  <1> SUFFICES ASSUME NEW e \in App, e # a, Hopeless(h, e)
               PROVE  Hopeless(g, e)
    BY DEF Hardens
  <1>1. /\ BudgetOf(h.containers, h.capacity, h.consumed)
        /\ StockOf(h.containers, h.next) /\ ListsOf(h.containers, h.free, h.full, k, b)
    BY DEF HostAt
  <1>2. ~ CanAllocate(g, e)
    BY <1>1, LessRoom DEF Deploys, Hopeless
  <1>3. g.free[e] = h.free[e] /\ Range(h.free[e]) \subseteq DOMAIN h.containers
    BY <1>1 DEF Deploys, ListsOf
  <1>4. h.next \notin DOMAIN h.containers
    BY <1>1 DEF StockOf
  <1>5. \A c \in Range(g.free[e]) : g.containers[c] = h.containers[c]
    BY <1>3, <1>4 DEF Deploys, With
  <1>6. \A c \in Range(h.free[e]) : h.containers[c].status = "Terminated"
    BY CanInvokeIs DEF Hopeless
  <1>7. \A c \in Range(g.free[e]) : g.containers[c].status = "Terminated"
    BY <1>3, <1>5, <1>6
  <1>8. ~ CanInvoke(g, e, TRUE)
    BY <1>7, CanInvokeIs
  <1> QED BY <1>2, <1>8 DEF Hopeless

\* A container of application a is taken off the list of free ones, or not.
LEMMA RelistHardens ==
    ASSUME NEW h, NEW k, NEW b, NEW X, HostAt(h, k, b, X),
           NEW c \in DOMAIN h.containers, NEW a, a = h.containers[c].app,
           NEW g, NEW full, Relisted(g.free, g.full, h.free, h.full, a, c, full),
           \A d : d # c => g.containers[d] = h.containers[d],
           g.capacity = h.capacity, g.consumed = h.consumed
    PROVE  Hardens(g, h, a)
  <1>1. ListsOf(h.containers, h.free, h.full, k, b)
    BY DEF HostAt
  <1>2. ASSUME NEW e \in App, e # a
        PROVE  g.free[e] = h.free[e] /\ c \notin Range(h.free[e])
    <2>1. g.free[e] = h.free[e]
      BY <1>1, <1>2 DEF Relisted, ListsOf
    <2>2. c \notin Range(h.free[e])
      BY <1>1, <1>2 DEF ListsOf
    <2> QED BY <2>1, <2>2
  <1>3. \A e : CanAllocate(g, e) => CanAllocate(h, e)
    BY SameRoom
  <1>4. Narrows(g, h, a)
    BY <1>2, <1>3 DEF Narrows
  <1> QED BY <1>4, NarrowsHardens
-----------------------------------------------------------------------------
(* What the invoker finds for an invocation.                               *)

LEMMA FirstInIs ==
    ASSUME NEW S, NEW s \in Seq(S), NEW T, T \cap Range(s) # {}
    PROVE  FirstIn(s, T) \in T \cap Range(s)
  <1> DEFINE D == {k \in DOMAIN s : s[k] \in T}
  <1>1. DOMAIN s \subseteq Nat
    OBVIOUS
  <1>2. D # {} /\ D \in SUBSET Nat
    BY <1>1 DEF Range
  <1>3. PICK n \in D : \A m \in D : n <= m
    BY <1>2, LeastNatural
  <1>4. n \in DOMAIN s /\ s[n] \in T /\ \A j \in 1..n - 1 : s[j] \notin T
    <2>1. n \in Nat /\ n \in 1..Len(s)
      OBVIOUS
    <2>2. ASSUME NEW j \in 1..n - 1 PROVE s[j] \notin T
      <3>1. j \in DOMAIN s /\ ~ n <= j
        BY <2>1
      <3> QED BY <1>3, <3>1
    <2> QED BY <2>2
  <1>5. PICK p : p = CHOOSE k \in DOMAIN s : s[k] \in T /\ \A j \in 1..k - 1 : s[j] \notin T
    OBVIOUS
  <1>6. p \in DOMAIN s /\ s[p] \in T
    BY <1>4, <1>5
  <1>7. FirstIn(s, T) = s[p]
    BY <1>5 DEF FirstIn
  <1> QED BY <1>6, <1>7 DEF Range

LEMMA LeastIs ==
    ASSUME NEW T, T \subseteq Nat, T # {}
    PROVE  (CHOOSE c \in T : \A d \in T : c <= d) \in T
  <1>1. \E c \in T : \A d \in T : c <= d
    BY LeastNatural
  <1> QED BY <1>1

\* What is offered to an invocation of application a: a place in a container, or
\* nothing, and then there is neither a container nor room for one.
Offers(t, h, k, b, a) ==
    /\ HostAt(t.host, k, b, {}) /\ SameRegistry(t.host, h) /\ Hardens(t.host, h, a)
    /\ \/ t.kind = "Rejected" /\ t.host = h /\ Hopeless(h, a)
       \/ /\ t.kind \in {"Warm", "Cold"} /\ ~ Hopeless(h, a)
          /\ t.container \in DOMAIN t.host.containers
          /\ t.host.containers[t.container].app = a
          /\ t.container \in Range(t.host.free[a])
          /\ t.kind = "Warm" => t.host.containers[t.container].status \in {"Idle", "Running"}
          /\ t.kind = "Cold" => t.host.containers[t.container].status = "Deploying"

LEMMA PossibleAre ==
    ASSUME NEW h, NEW k, NEW b, HostAt(h, k, b, {}), NEW a \in App
    PROVE  /\ PossibleContainers(h, a, TRUE) =
                {c \in Range(h.free[a]) : h.containers[c].status \in {"Idle", "Running", "Deploying"}}
           /\ PossibleContainers(h, a, FALSE) =
                {c \in Range(h.free[a]) : h.containers[c].status \in {"Idle", "Running"}}
           /\ Range(h.free[a]) \subseteq DOMAIN h.containers
           /\ Range(h.free[a]) \subseteq Nat
           /\ h.free[a] \in Seq(Nat)
           /\ \A c \in Range(h.free[a]) : h.containers[c].app = a
  <1>1. /\ StockOf(h.containers, h.next) /\ ListsOf(h.containers, h.free, h.full, k, b)
        /\ CyclesOf(h.containers, h.reservations, h.pending, {})
    BY DEF HostAt
  <1>2. /\ h.free[a] \in Seq(Nat)
        /\ \A c \in Range(h.free[a]) : c \in DOMAIN h.containers /\ h.containers[c].app = a
    BY <1>1 DEF ListsOf
  <1>3. \A c \in DOMAIN h.containers : h.containers[c].status \in {"Deploying", "Running", "Idle", "Terminated"}
    BY <1>1 DEF CyclesOf, CycleOf
  <1>4. Range(h.free[a]) \subseteq Nat
    BY <1>2 DEF Range
  <1>5. {h.free[a][j] : j \in DOMAIN h.free[a]} = Range(h.free[a])
    BY DEF Range
  <1>6. PossibleContainers(h, a, TRUE) =
          {c \in Range(h.free[a]) : h.containers[c].status \in {"Idle", "Running", "Deploying"}}
    BY <1>2, <1>3, <1>5 DEF PossibleContainers
  <1>7. PossibleContainers(h, a, FALSE) =
          {c \in Range(h.free[a]) : h.containers[c].status \in {"Idle", "Running"}}
    BY <1>2, <1>3, <1>5 DEF PossibleContainers
  <1> QED BY <1>2, <1>4, <1>6, <1>7

LEMMA TryInvokeKeeps ==
    ASSUME NEW h, NEW k, NEW b, HostAt(h, k, b, {}), NEW a \in App,
           NEW t, t = TryInvoke(h, a)
    PROVE  Offers(t, h, k, b, a)
  <1> DEFINE R == Range(h.free[a])
             ids == PossibleContainers(h, a, TRUE)
             warm == PossibleContainers(h, a, FALSE)
  <1>1. /\ ids = {c \in R : h.containers[c].status \in {"Idle", "Running", "Deploying"}}
        /\ warm = {c \in R : h.containers[c].status \in {"Idle", "Running"}}
        /\ R \subseteq DOMAIN h.containers /\ R \subseteq Nat /\ h.free[a] \in Seq(Nat)
        /\ warm # {} => ids # {}
        /\ \A c \in R : h.containers[c].app = a
    <2>1. /\ ids = {c \in R : h.containers[c].status \in {"Idle", "Running", "Deploying"}}
          /\ warm = {c \in R : h.containers[c].status \in {"Idle", "Running"}}
      BY PossibleAre
    <2>2. /\ R \subseteq DOMAIN h.containers /\ R \subseteq Nat /\ h.free[a] \in Seq(Nat)
          /\ \A c \in R : h.containers[c].app = a
      BY PossibleAre
    <2> HIDE DEF ids, warm, R
    <2> QED BY <2>1, <2>2
  <1>2. SameRegistry(h, h) /\ Hardens(h, h, a)
    BY DEF SameRegistry, Hardens
  <1>3. CASE warm # {}
    <2> DEFINE c == FirstIn(h.free[a], warm)
    <2>1. t = [kind |-> "Warm", container |-> c, host |-> h]
      BY <1>1, <1>3 DEF TryInvoke
    <2>2. warm \cap R = warm
      BY <1>1
    <2>3. c \in warm
      <3> HIDE DEF warm
      <3> QED BY <1>1, <1>3, <2>2, FirstInIs
    <2>5. ~ Hopeless(h, a)
      BY <1>1, <1>3 DEF Hopeless, CanInvoke
    <2> HIDE DEF c, warm
    <2>4. t.kind = "Warm" /\ t.container = c /\ t.host = h
      BY <2>1
    <2> QED BY <1>1, <1>2, <2>3, <2>4, <2>5 DEF Offers
  <1>4. CASE warm = {} /\ ids # {}
    <2> DEFINE c == CHOOSE e \in ids : \A d \in ids : e <= d
    <2>1. t = [kind |-> "Cold", host |-> h, container |-> c]
      BY <1>4 DEF TryInvoke
    <2>2. ids \subseteq Nat
      BY <1>1
    <2>3. c \in ids
      <3> HIDE DEF ids
      <3> QED BY <1>4, <2>2, LeastIs
    <2>4. h.containers[c].status = "Deploying" /\ c \in R
      <3> HIDE DEF c, ids, warm
      <3> QED BY <1>1, <1>4, <2>3
    <2>6. ~ Hopeless(h, a)
      BY <1>4 DEF Hopeless, CanInvoke
    <2> HIDE DEF c, ids, warm
    <2>5. t.kind = "Cold" /\ t.container = c /\ t.host = h
      BY <2>1
    <2> QED BY <1>1, <1>2, <2>4, <2>5, <2>6 DEF Offers
  <1>5. CASE warm = {} /\ ids = {} /\ CanAllocate(h, a)
    <2>1. PICK g : g = DeployContainer(h, a)
      OBVIOUS
    <2>2. t = [kind |-> "Cold", container |-> h.next, host |-> g]
      BY <1>5, <2>1 DEF TryInvoke
    <2>3. t.kind = "Cold" /\ t.container = h.next /\ t.host = g
      BY <2>2
    <2>4. Deploys(g, h, a)
      <3>1. IsHost(h)
        BY DEF HostAt
      <3> QED BY <2>1, <3>1, DeployDoes
    <2>5. /\ HostAt(g, k, b, {}) /\ h.next \in Range(g.free[a])
          /\ g.containers[h.next] = NewContainer(a)
      BY <1>5, <2>4, DeployKeeps
    <2>6. h.next \in DOMAIN g.containers /\ SameRegistry(g, h)
      BY <2>4 DEF Deploys, With
    <2>7. NewContainer(a).app = a /\ NewContainer(a).status = "Deploying"
      BY DEF NewContainer
    <2>8. ~ Hopeless(h, a) /\ Hardens(g, h, a)
      BY <1>5, <2>4, DeployHardens DEF Hopeless
    <2> HIDE DEF ids, warm
    <2> QED BY <2>3, <2>5, <2>6, <2>7, <2>8 DEF Offers
  <1>6. CASE warm = {} /\ ids = {} /\ ~ CanAllocate(h, a)
    <2>1. t = [kind |-> "Rejected", container |-> NoContainer, host |-> h]
      BY <1>6 DEF TryInvoke
    <2>2. t.kind = "Rejected" /\ t.host = h
      BY <2>1
    <2>3. Hopeless(h, a)
      BY <1>6 DEF CanInvoke, Hopeless
    <2> QED BY <1>2, <1>6, <2>2, <2>3 DEF Offers
  <1> QED BY <1>3, <1>4, <1>5, <1>6
\* Of the other applications, what is hopeless stays so.
Admits(g, h, a) == Hardens(g, h, a) /\ SameApps(g, h) /\ SameQueue(g, h)

LEMMA EnterAdmits ==
    ASSUME NEW h, NEW k, NEW b, NEW X, HostAt(h, k, b, X), NEW c \in DOMAIN h.containers,
           NEW a, a = h.containers[c].app, NEW i, NEW n,
           NEW m, m = EnterContainer(h, c, i), NEW g, g = IfFull(m, c, n)
    PROVE  Admits(g, h, a)
  <1>1. IsHost(h) /\ StockOf(h.containers, h.next)
    BY DEF HostAt
  <1>2. Enters(m, h, c, i)
    BY <1>1, EnterDoes
  <1>3. /\ IsHost(m) /\ m.free = h.free /\ m.full = h.full /\ m.registry = h.registry
        /\ m.capacity = h.capacity /\ m.consumed = h.consumed /\ SameQueue(m, h)
    BY <1>2 DEF Enters, SameRegistry, SameQueue
  <1>4. m.containers = [h.containers EXCEPT ![c] = Put(h.containers[c], "Running", h.containers[c].invocations \cup {i})]
    BY <1>2, Zenon DEF Enters, Put
  <1>5. m.containers[c].app = a
    <2>1. PICK I : I = h.containers[c].invocations \cup {i}
      OBVIOUS
    <2>2. IsContainer(h.containers[c])
      BY <1>1 DEF StockOf
    <2>3. Becomes(Put(h.containers[c], "Running", I), h.containers[c], "Running", I)
      BY <2>2, ContainerUpdated
    <2>4. m.containers[c] = Put(h.containers[c], "Running", I)
      BY <1>4, <2>1
    <2> QED BY <2>3, <2>4 DEF Becomes
  <1>6. \A d : d # c => m.containers[d] = h.containers[d]
    BY <1>4
  <1>7. Relists(g, m, c, a, n = Limit[a])
    BY <1>3, <1>5, IfFullDoes
  <1>8. /\ Relisted(g.free, g.full, h.free, h.full, a, c, n = Limit[a])
        /\ g.containers = m.containers /\ g.capacity = h.capacity /\ g.consumed = h.consumed
        /\ g.registry = h.registry /\ SameQueue(g, h)
    BY <1>3, <1>7 DEF Relists, SameRegistry, SameQueue
  <1>9. Hardens(g, h, a)
    BY <1>6, <1>8, RelistHardens
  <1>10. SameApps(g, h)
    BY <1>8 DEF SameApps
  <1> QED BY <1>8, <1>9, <1>10 DEF Admits

LEMMA ReserveAdmits ==
    ASSUME NEW h, NEW k, NEW b, HostAt(h, k, b, {}), NEW c \in DOMAIN h.containers,
           NEW a, a = h.containers[c].app, NEW i \in DOMAIN k,
           NEW g, g = EnterReservation(h, c, i)
    PROVE  Admits(g, h, a)
  <1>1. IsHost(h) /\ EntriesOf(h.registry, k, b)
    BY DEF HostAt
  <1>2. PICK g1 : g1 = Assign(h, i, "WaitingForContainer", c)
    OBVIOUS
  <1>3. PICK g2 : g2 = Reserve(g1, c, i)
    OBVIOUS
  <1>4. PICK n : n = Len(Reserved(g2, c))
    OBVIOUS
  <1>5. g = IfFull(g2, c, n)
    BY <1>2, <1>3, <1>4 DEF EnterReservation, Bind
  <1>6. Assigns(g1, h, i, "WaitingForContainer", c)
    BY <1>1, <1>2, AssignDoes
  <1>7. Reserves(g2, g1, c, i)
    BY <1>3, <1>6, ReserveDoes DEF Assigns
  <1>8. g2.containers = h.containers
    BY <1>6, <1>7 DEF Assigns, Reserves, SameBooks
  <1>9. Relists(g, g2, c, a, n = Limit[a])
    BY <1>5, <1>7, <1>8, IfFullDoes DEF Reserves
  <1>10. /\ g.containers = h.containers
         /\ g.capacity = h.capacity /\ g.consumed = h.consumed /\ g.registry = g1.registry
         /\ Relisted(g.free, g.full, h.free, h.full, a, c, n = Limit[a])
         /\ SameQueue(g, h)
    BY <1>6, <1>7, <1>9 DEF Assigns, Reserves, Relists, SameBooks, SameRegistry, SameQueue
  <1>11. SameApps(g, h)
    <2>1. EntryAgrees(h.registry[i], k[i], b[i]) /\ i \in DOMAIN h.registry
      BY <1>1 DEF EntriesOf
    <2>2. /\ DOMAIN g.registry = DOMAIN h.registry
          /\ \A j \in DOMAIN h.registry : j # i => g.registry[j] = h.registry[j]
          /\ g.registry[i] = [h.registry[i] EXCEPT !.status = "WaitingForContainer", !.container = c]
      BY <1>6, <1>10, <2>1 DEF Assigns
    <2>3. g.registry[i].app = h.registry[i].app
      BY <2>1, <2>2, EntryUpdated DEF EntryAgrees
    <2> QED BY <2>2, <2>3 DEF SameApps
  <1>12. Hardens(g, h, a)
    BY <1>10, RelistHardens
  <1> QED BY <1>10, <1>11, <1>12 DEF Admits

-----------------------------------------------------------------------------
(* The queue is tried.                                                     *)

Trial(H, S, K) == [host |-> H, started |-> S, kept |-> K]

KeepItem(acc, i) == [acc EXCEPT !.kept = Append(@, i)]

Tried(acc, i, t) ==
    CASE t.kind = "Warm" ->
           [acc EXCEPT
             !.host = Bind(EnterContainer(t.host, t.container, i), LAMBDA g :
                        IfFull(g, t.container, Cardinality(Invocations(g, t.container)))),
             !.started = Append(@, <<i, t.container>>)]
      [] t.kind = "Cold" ->
           [acc EXCEPT !.host = EnterReservation(t.host, t.container, i)]
      [] t.kind = "Rejected" ->
           [acc EXCEPT !.kept = Append(@, i)]

LEMMA DequeueItemIs ==
    ASSUME NEW acc, NEW i, NEW t, t = TryInvoke(acc.host, AppOf(acc.host, i))
    PROVE  DequeueItem(acc, i) =
             IF Stopped(acc) THEN KeepItem(acc, i) ELSE Tried(acc, i, t)
  <1>1. DequeueItem(acc, i) =
          IF Stopped(acc) THEN KeepItem(acc, i)
          ELSE Bind(TryInvoke(acc.host, AppOf(acc.host, i)), LAMBDA u : Tried(acc, i, u))
    BY Zenon DEF DequeueItem, Tried, KeepItem
  <1>2. Bind(TryInvoke(acc.host, AppOf(acc.host, i)), LAMBDA u : Tried(acc, i, u)) = Tried(acc, i, t)
    BY DEF Bind
  <1> QED BY <1>1, <1>2

LEMMA TrialIs ==
    ASSUME NEW H, NEW S, NEW K
    PROVE  Trial(H, S, K).host = H /\ Trial(H, S, K).started = S /\ Trial(H, S, K).kept = K
  BY DEF Trial

LEMMA TriedKept ==
    ASSUME NEW H, NEW S, NEW K, NEW acc, acc = Trial(H, S, K), NEW i, NEW t
    PROVE  /\ KeepItem(acc, i) = Trial(H, S, Append(K, i))
           /\ t.kind = "Rejected" => Tried(acc, i, t) = Trial(H, S, Append(K, i))
  <1>1. acc.kept = K /\ acc.host = H /\ acc.started = S
    BY DEF Trial
  <1>2. KeepItem(acc, i) = Trial(H, S, Append(K, i))
    BY <1>1 DEF Trial, KeepItem
  <1>3. ASSUME t.kind = "Rejected" PROVE Tried(acc, i, t) = Trial(H, S, Append(K, i))
    BY <1>1, <1>3 DEF Trial, Tried
  <1> QED BY <1>2, <1>3

LEMMA TriedCold ==
    ASSUME NEW H, NEW S, NEW K, NEW acc, acc = Trial(H, S, K), NEW i, NEW t,
           t.kind = "Cold", NEW g, g = EnterReservation(t.host, t.container, i)
    PROVE  Tried(acc, i, t) = Trial(g, S, K)
  <1>1. acc.kept = K /\ acc.host = H /\ acc.started = S
    BY DEF Trial
  <1> QED BY <1>1 DEF Trial, Tried

LEMMA TriedWarm ==
    ASSUME NEW H, NEW S, NEW K, NEW acc, acc = Trial(H, S, K), NEW i, NEW t,
           t.kind = "Warm", NEW m, m = EnterContainer(t.host, t.container, i),
           NEW g, g = IfFull(m, t.container, Cardinality(Invocations(m, t.container)))
    PROVE  Tried(acc, i, t) = Trial(g, Append(S, <<i, t.container>>), K)
  <1>1. acc.kept = K /\ acc.host = H /\ acc.started = S
    BY DEF Trial
  <1>2. Bind(EnterContainer(t.host, t.container, i), LAMBDA x :
                      IfFull(x, t.container, Cardinality(Invocations(x, t.container)))) = g
    BY DEF Bind
  <1>3. Tried(acc, i, t) = [acc EXCEPT !.host = g, !.started = Append(@, <<i, t.container>>)]
    BY <1>2 DEF Tried
  <1>4. PICK a1 : a1 = [acc EXCEPT !.host = g]
    OBVIOUS
  <1>5. a1 = Trial(g, S, K) /\ a1.started = S
    BY <1>4 DEF Trial
  <1>6. [a1 EXCEPT !.started = Append(@, <<i, t.container>>)] = Trial(g, Append(S, <<i, t.container>>), K)
    <2>1. PICK y : y = Append(S, <<i, t.container>>)
      OBVIOUS
    <2>2. [a1 EXCEPT !.started = y] = Trial(g, y, K)
      BY <1>5 DEF Trial
    <2> QED BY <1>5, <2>1, <2>2
  <1> QED BY <1>3, <1>4, <1>6
\* Those of the queue's first n items that are kept, once each.
KeptOf(K, q, n) ==
    /\ K \in Seq(Nat) /\ IsInjective(K)
    /\ \A x \in Range(K) : \E m \in 1..n : q[m] = x

\* The started invocations have entered the containers noted, and no others have.
StartedAre(S, k, b) ==
    /\ S \in Seq(Nat \X Int)
    /\ \A p \in DOMAIN S : S[p][1] \in DOMAIN k /\ k[S[p][1]] = "entered" /\ b[S[p][1]] = S[p][2]
    /\ \A p, r \in DOMAIN S : S[p][1] = S[r][1] => p = r
    /\ \A j \in DOMAIN k : k[j] = "entered" => \E p \in DOMAIN S : S[p][1] = j

\* Nothing can be done for what is kept: under FIFO, for the first.
Unserved(g, K, h) ==
    \A p \in DOMAIN K : g.invoker = "Naive" \/ p = 1 => Hopeless(g, AppOf(h, K[p]))

Nowhere(k) == {j \in DOMAIN k : k[j] = "nowhere"}

Rest(q, n) == {q[m] : m \in n + 1..Len(q)}

\* The first n items of the queue q of host h have been tried.
Tries(H, S, K, k, b, h, q, n) ==
    /\ HostAt(H, k, b, {}) /\ SameApps(H, h) /\ H.invoker = h.invoker
    /\ \A j \in DOMAIN k : k[j] \notin {"starting", "ending"}
    /\ KeptOf(K, q, n)
    /\ Nowhere(k) = Range(K) \cup Rest(q, n)
    /\ StartedAre(S, k, b)
    /\ Unserved(H, K, h)

Trying(acc, h, q, n) ==
    \E k, b, H, S, K : acc = Trial(H, S, K) /\ Tries(H, S, K, k, b, h, q, n)

LEMMA ItemTaken ==
    ASSUME NEW q \in Seq(Nat), IsInjective(q), NEW n \in Nat, n < Len(q),
           NEW i, i = q[n + 1], NEW K, KeptOf(K, q, n)
    PROVE  /\ i \in Nat /\ i \notin Range(K) /\ i \in Rest(q, n)
           /\ Rest(q, n + 1) = Rest(q, n) \ {i}
           /\ KeptOf(K, q, n + 1) /\ KeptOf(Append(K, i), q, n + 1)
           /\ Range(Append(K, i)) = Range(K) \cup {i}
  <1>1. DOMAIN q = 1..Len(q) /\ Len(q) \in Nat /\ n + 1 \in 1..Len(q)
    OBVIOUS
  <1>2. \A m, l \in 1..Len(q) : q[m] = q[l] => m = l
    BY <1>1 DEF IsInjective
  <1>3. i \in Nat /\ i \in Rest(q, n)
    BY <1>1 DEF Rest
  <1>4. i \notin Range(K)
    <2> SUFFICES ASSUME i \in Range(K) PROVE FALSE
      OBVIOUS
    <2>1. PICK m \in 1..n : q[m] = i
      BY DEF KeptOf
    <2>2. m \in 1..Len(q) /\ m # n + 1
      BY <1>1
    <2> QED BY <1>1, <1>2, <2>1, <2>2
  <1>5. Rest(q, n + 1) = Rest(q, n) \ {i}
    <2>1. \A m \in (n + 1) + 1..Len(q) : m \in n + 1..Len(q) /\ m # n + 1 /\ m \in 1..Len(q)
      BY <1>1
    <2>2. \A m \in n + 1..Len(q) : m # n + 1 => m \in (n + 1) + 1..Len(q)
      BY <1>1
    <2>3. \A m \in n + 1..Len(q) : q[m] = q[n + 1] => m = n + 1
      BY <1>1, <1>2
    <2> QED BY <2>1, <2>2, <2>3 DEF Rest
  <1>6. KeptOf(K, q, n + 1)
    <2>1. \A m \in 1..n : m \in 1..n + 1
      OBVIOUS
    <2> QED BY <2>1 DEF KeptOf
  <1>7. /\ Append(K, i) \in Seq(Nat) /\ IsInjective(Append(K, i))
        /\ Range(Append(K, i)) = Range(K) \cup {i}
    BY <1>3, <1>4, AppendDistinct DEF KeptOf
  <1>8. KeptOf(Append(K, i), q, n + 1)
    <2>1. n + 1 \in 1..n + 1 /\ \A m \in 1..n : m \in 1..n + 1
      OBVIOUS
    <2> QED BY <1>7, <2>1 DEF KeptOf
  <1> QED BY <1>3, <1>4, <1>5, <1>6, <1>7, <1>8

LEMMA StartedSame ==
    ASSUME NEW S, NEW k, NEW b, StartedAre(S, k, b), NEW i \in DOMAIN k, k[i] = "nowhere",
           NEW q, q # "entered", NEW c, NEW k2, NEW b2, Moved(k2, b2, k, b, i, q, c)
    PROVE  StartedAre(S, k2, b2)
  <1>1. DOMAIN k2 = DOMAIN k /\ k2[i] = q /\ \A j \in DOMAIN k : j # i => k2[j] = k[j] /\ b2[j] = b[j]
    BY DEF Moved
  <1>2. \A p \in DOMAIN S : S[p][1] # i
    BY DEF StartedAre
  <1> QED BY <1>1, <1>2 DEF StartedAre

LEMMA StartedLonger ==
    ASSUME NEW S, NEW k, NEW b, StartedAre(S, k, b), NEW i \in DOMAIN k, k[i] = "nowhere",
           i \in Nat, NEW c \in Int, NEW k2, NEW b2, Moved(k2, b2, k, b, i, "entered", c)
    PROVE  StartedAre(Append(S, <<i, c>>), k2, b2)
  <1>1. DOMAIN k2 = DOMAIN k /\ k2[i] = "entered" /\ b2[i] = c
        /\ \A j \in DOMAIN k : j # i => k2[j] = k[j] /\ b2[j] = b[j]
    BY DEF Moved
  <1>2. \A p \in DOMAIN S : S[p][1] # i
    BY DEF StartedAre
  <1> DEFINE n == Len(S)
             T == Append(S, <<i, c>>)
  <1>3. /\ T \in Seq(Nat \X Int) /\ n \in Nat /\ DOMAIN S = 1..n /\ DOMAIN T = 1..n + 1
        /\ \A p \in 1..n : T[p] = S[p]
    BY DEF StartedAre
  <1>4. T[n + 1][1] = i /\ T[n + 1][2] = c
    BY DEF StartedAre
  <1>5. \A p \in 1..n + 1 : p \in 1..n \/ p = n + 1
    BY <1>3
  <1>6. n + 1 \in 1..n + 1 /\ \A p \in 1..n : p \in 1..n + 1
    BY <1>3
  <1> HIDE DEF n, T
  <1>7. \A p \in DOMAIN T : T[p][1] \in DOMAIN k2 /\ k2[T[p][1]] = "entered" /\ b2[T[p][1]] = T[p][2]
    <2> SUFFICES ASSUME NEW p \in DOMAIN T
                 PROVE  T[p][1] \in DOMAIN k2 /\ k2[T[p][1]] = "entered" /\ b2[T[p][1]] = T[p][2]
      OBVIOUS
    <2>1. CASE p = n + 1
      BY <1>1, <1>4, <2>1
    <2>2. CASE p \in 1..n
      <3>1. T[p] = S[p] /\ S[p][1] # i /\ p \in DOMAIN S
        BY <1>2, <1>3, <2>2
      <3>2. S[p][1] \in DOMAIN k /\ k[S[p][1]] = "entered" /\ b[S[p][1]] = S[p][2]
        BY <3>1 DEF StartedAre
      <3> QED BY <1>1, <3>1, <3>2
    <2> QED BY <1>3, <1>5, <2>1, <2>2
  <1>8. \A p, r \in DOMAIN T : T[p][1] = T[r][1] => p = r
    <2>1. \A p, r \in 1..n : S[p][1] = S[r][1] => p = r
      BY <1>3 DEF StartedAre
    <2> QED BY <1>2, <1>3, <1>4, <1>5, <2>1
  <1>9. \A j \in DOMAIN k2 : k2[j] = "entered" => \E p \in DOMAIN T : T[p][1] = j
    <2> SUFFICES ASSUME NEW j \in DOMAIN k2, k2[j] = "entered"
                 PROVE  \E p \in DOMAIN T : T[p][1] = j
      OBVIOUS
    <2>1. CASE j = i
      BY <1>3, <1>4, <1>6, <2>1
    <2>2. CASE j # i
      <3>1. PICK p \in DOMAIN S : S[p][1] = j
        BY <1>1, <2>2 DEF StartedAre
      <3> QED BY <1>3, <1>6, <3>1
    <2> QED BY <2>1, <2>2
  <1>10. StartedAre(T, k2, b2)
    BY <1>3, <1>7, <1>8, <1>9 DEF StartedAre
  <1> QED BY <1>10 DEF T
LEMMA NowhereMoved ==
    ASSUME NEW k, NEW b, NEW i \in DOMAIN k, NEW q, q # "nowhere", NEW c,
           NEW k2, NEW b2, Moved(k2, b2, k, b, i, q, c)
    PROVE  Nowhere(k2) = Nowhere(k) \ {i}
  BY DEF Nowhere, Moved

LEMMA UnservedStill ==
    ASSUME NEW H, NEW h, NEW K, Unserved(H, K, h), NEW a \in App, ~ Hopeless(H, a),
           \A p \in DOMAIN K : AppOf(h, K[p]) \in App,
           NEW t, Hardens(t, H, a), NEW g, Hardens(g, t, a), g.invoker = H.invoker
    PROVE  Unserved(g, K, h)
  <1> SUFFICES ASSUME NEW p \in DOMAIN K, g.invoker = "Naive" \/ p = 1
               PROVE  Hopeless(g, AppOf(h, K[p]))
    BY DEF Unserved
  <1>1. Hopeless(H, AppOf(h, K[p]))
    BY DEF Unserved
  <1>2. AppOf(h, K[p]) \in App /\ AppOf(h, K[p]) # a
    BY <1>1
  <1> QED BY <1>1, <1>2 DEF Hardens

\* The apps of the invocations are apps.
LEMMA AppsKnown ==
    ASSUME NEW H, NEW k, NEW b, NEW X, HostAt(H, k, b, X), NEW h, SameApps(H, h)
    PROVE  \A j \in DOMAIN k : AppOf(h, j) = AppOf(H, j) /\ AppOf(h, j) \in App
  <1>1. EntriesOf(H.registry, k, b)
    BY DEF HostAt
  <1>2. DOMAIN k = DOMAIN H.registry /\ \A j \in DOMAIN k : H.registry[j].app \in App
    BY <1>1 DEF EntriesOf, EntryAgrees
  <1> QED BY <1>2 DEF AppOf, SameApps

LEMMA MoveExists ==
    ASSUME NEW k, NEW b, DOMAIN b = DOMAIN k, NEW i \in DOMAIN k, NEW q, NEW c
    PROVE  \E k2, b2 : Moved(k2, b2, k, b, i, q, c)
  <1> DEFINE K == [j \in DOMAIN k |-> IF j = i THEN q ELSE k[j]]
             B == [j \in DOMAIN k |-> IF j = i THEN c ELSE b[j]]
  <1>1. Moved(K, B, k, b, i, q, c)
    BY DEF Moved
  <1> HIDE DEF K, B
  <1> QED BY <1>1

\* The item is kept.
LEMMA KeepOne ==
    ASSUME NEW H, NEW S, NEW K, NEW k, NEW b, NEW h, NEW q \in Seq(Nat), IsInjective(q),
           NEW n \in Nat, n < Len(q), Tries(H, S, K, k, b, h, q, n), NEW i, i = q[n + 1],
           \/ H.invoker = "FIFO" /\ K # <<>>
           \/ Hopeless(H, AppOf(h, i))
    PROVE  Tries(H, S, Append(K, i), k, b, h, q, n + 1)
  <1>1. /\ i \in Nat /\ i \notin Range(K) /\ i \in Rest(q, n)
        /\ Rest(q, n + 1) = Rest(q, n) \ {i}
        /\ KeptOf(Append(K, i), q, n + 1)
        /\ Range(Append(K, i)) = Range(K) \cup {i}
    BY ItemTaken DEF Tries
  <1>2. Nowhere(k) = Range(Append(K, i)) \cup Rest(q, n + 1)
    <2>1. Nowhere(k) = Range(K) \cup Rest(q, n)
      BY DEF Tries
    <2> QED BY <1>1, <2>1
  <1>3. Unserved(H, Append(K, i), h)
    <2>1. K \in Seq(Nat) /\ Unserved(H, K, h)
      BY DEF Tries, KeptOf
    <2> SUFFICES ASSUME NEW p \in DOMAIN Append(K, i), H.invoker = "Naive" \/ p = 1
                 PROVE  Hopeless(H, AppOf(h, Append(K, i)[p]))
      BY DEF Unserved
    <2>2. CASE p \in DOMAIN K
      <3>1. Append(K, i)[p] = K[p]
        BY <2>1, <2>2
      <3>2. Hopeless(H, AppOf(h, K[p]))
        BY <2>1, <2>2 DEF Unserved
      <3> QED BY <3>1, <3>2
    <2>3. CASE p \notin DOMAIN K
      <3>1. p = Len(K) + 1 /\ Append(K, i)[p] = i /\ (K # <<>> => p # 1)
        BY <1>1, <2>1, <2>3
      <3>2. ~ (H.invoker = "FIFO" /\ K # <<>>)
        BY <3>1
      <3> QED BY <3>1, <3>2
    <2> QED BY <2>2, <2>3
  <1> QED BY <1>1, <1>2, <1>3 DEF Tries

LEMMA TryOne ==
    ASSUME NEW h, NEW q \in Seq(Nat), IsInjective(q), NEW n \in Nat, n < Len(q),
           NEW acc, Trying(acc, h, q, n), NEW i, i = q[n + 1]
    PROVE  Trying(DequeueItem(acc, i), h, q, n + 1)
  <1>1. PICK k, b, H, S, K : acc = Trial(H, S, K) /\ Tries(H, S, K, k, b, h, q, n)
    BY DEF Trying
  <1>2. acc.host = H /\ acc.kept = K
    BY <1>1 DEF Trial
  <1>3. PICK a : a = AppOf(H, i)
    OBVIOUS
  <1>4. PICK t : t = TryInvoke(H, a)
    OBVIOUS
  <1>5. DequeueItem(acc, i) =
          IF Stopped(acc) THEN KeepItem(acc, i) ELSE Tried(acc, i, t)
    BY <1>2, <1>3, <1>4, DequeueItemIs
  <1>6. /\ i \in Nat /\ i \notin Range(K) /\ i \in Rest(q, n)
        /\ Rest(q, n + 1) = Rest(q, n) \ {i} /\ KeptOf(K, q, n + 1)
    BY <1>1, ItemTaken DEF Tries
  <1>7. i \in DOMAIN k /\ k[i] = "nowhere"
    BY <1>1, <1>6 DEF Tries, Nowhere
  <1>8. /\ HostAt(H, k, b, {}) /\ SameApps(H, h) /\ H.invoker = h.invoker
        /\ \A j \in DOMAIN k : k[j] \notin {"starting", "ending"}
        /\ Nowhere(k) = Range(K) \cup Rest(q, n) /\ StartedAre(S, k, b) /\ Unserved(H, K, h)
        /\ K \in Seq(Nat)
    BY <1>1 DEF Tries, KeptOf
  <1>9. \A j \in DOMAIN k : AppOf(h, j) = AppOf(H, j) /\ AppOf(h, j) \in App
    BY <1>8, AppsKnown
  <1>10. a \in App /\ a = AppOf(h, i) /\ \A p \in DOMAIN K : AppOf(h, K[p]) \in App
    <2>1. \A p \in DOMAIN K : K[p] \in DOMAIN k
      BY <1>8 DEF Nowhere, Range
    <2> QED BY <1>3, <1>7, <1>9, <2>1
  <1>11. Offers(t, H, k, b, a)
    BY <1>4, <1>8, <1>10, TryInvokeKeeps
  <1>12. CASE Stopped(acc) \/ t.kind = "Rejected"
    <2>1. DequeueItem(acc, i) = Trial(H, S, Append(K, i))
      BY <1>1, <1>5, <1>12, TriedKept
    <2>2. \/ H.invoker = "FIFO" /\ K # <<>>
          \/ Hopeless(H, AppOf(h, i))
      BY <1>2, <1>10, <1>11, <1>12 DEF Stopped, Offers
    <2>3. Tries(H, S, Append(K, i), k, b, h, q, n + 1)
      BY <1>1, <2>2, KeepOne
    <2> QED BY <2>1, <2>3 DEF Trying
  <1>13. CASE ~ Stopped(acc) /\ t.kind # "Rejected"
    <2> DEFINE c == t.container
               G == t.host
    <2>1. /\ HostAt(G, k, b, {}) /\ SameRegistry(G, H) /\ Hardens(G, H, a) /\ ~ Hopeless(H, a)
          /\ t.kind \in {"Warm", "Cold"} /\ c \in DOMAIN G.containers
          /\ G.containers[c].app = a /\ c \in Range(G.free[a])
          /\ t.kind = "Warm" => G.containers[c].status \in {"Idle", "Running"}
          /\ t.kind = "Cold" => G.containers[c].status = "Deploying"
      BY <1>11, <1>13 DEF Offers
    <2> HIDE DEF c, G
    <2>2. DOMAIN b = DOMAIN k /\ c \in Int
      <3>1. EntriesOf(G.registry, k, b) /\ StockOf(G.containers, G.next)
        BY <2>1 DEF HostAt
      <3> QED BY <2>1, <3>1 DEF EntriesOf, StockOf
    <2>3. ASSUME NEW g, Admits(g, G, a), NEW w, w \notin {"nowhere", "starting", "ending"},
                 NEW k2, NEW b2, Moved(k2, b2, k, b, i, w, c), HostAt(g, k2, b2, {}),
                 NEW T, StartedAre(T, k2, b2)
          PROVE  Trying(Trial(g, T, K), h, q, n + 1)
      <3>1. SameApps(g, h) /\ g.invoker = h.invoker
        BY <1>8, <2>1, <2>3 DEF Admits, SameApps, SameRegistry, SameQueue
      <3>2. \A j \in DOMAIN k2 : k2[j] \notin {"starting", "ending"}
        BY <1>7, <1>8, <2>3 DEF Moved
      <3>3. Nowhere(k2) = Range(K) \cup Rest(q, n + 1)
        <4>1. Nowhere(k2) = Nowhere(k) \ {i}
          BY <1>7, <2>3, NowhereMoved
        <4> QED BY <1>6, <1>8, <4>1
      <3>4. Unserved(g, K, h)
        <4>1. Hardens(g, G, a) /\ g.invoker = H.invoker
          BY <1>8, <2>3, <3>1 DEF Admits
        <4> QED BY <1>8, <1>10, <2>1, <4>1, UnservedStill
      <3>5. Tries(g, T, K, k2, b2, h, q, n + 1)
        BY <1>6, <2>3, <3>1, <3>2, <3>3, <3>4 DEF Tries
      <3> QED BY <3>5 DEF Trying
    <2>4. \A j \in DOMAIN k : k[j] # "starting"
      BY <1>8
    <2>5. CASE t.kind = "Warm"
      <3>1. PICK m : m = EnterContainer(G, c, i)
        OBVIOUS
      <3>2. PICK g : g = IfFull(m, c, Cardinality(Invocations(m, c)))
        OBVIOUS
      <3>3. DequeueItem(acc, i) = Trial(g, Append(S, <<i, c>>), K)
        BY <1>1, <1>5, <1>13, <2>5, <3>1, <3>2, TriedWarm DEF c, G
      <3>4. PICK k2, b2 : Moved(k2, b2, k, b, i, "entered", c)
        BY <1>7, <2>2, MoveExists
      <3>5. HostAt(g, k2, b2, {})
        BY <1>7, <2>1, <2>4, <2>5, <3>1, <3>2, <3>4, EnterKeeps
      <3>6. Admits(g, G, a)
        BY <2>1, <3>1, <3>2, EnterAdmits
      <3>7. StartedAre(Append(S, <<i, c>>), k2, b2)
        BY <1>6, <1>7, <1>8, <2>2, <3>4, StartedLonger
      <3> QED BY <2>3, <3>3, <3>4, <3>5, <3>6, <3>7
    <2>6. CASE t.kind = "Cold"
      <3>1. PICK g : g = EnterReservation(G, c, i)
        OBVIOUS
      <3>2. DequeueItem(acc, i) = Trial(g, S, K)
        BY <1>1, <1>5, <1>13, <2>6, <3>1, TriedCold DEF c, G
      <3>3. PICK k2, b2 : Moved(k2, b2, k, b, i, "reserved", c)
        BY <1>7, <2>2, MoveExists
      <3>4. HostAt(g, k2, b2, {})
        BY <1>7, <2>1, <2>4, <2>6, <3>1, <3>3, ReserveKeeps
      <3>5. Admits(g, G, a)
        BY <1>7, <2>1, <3>1, ReserveAdmits
      <3>6. StartedAre(S, k2, b2)
        BY <1>7, <1>8, <3>3, StartedSame
      <3> QED BY <2>3, <3>2, <3>3, <3>4, <3>5, <3>6
    <2> QED BY <2>1, <2>5, <2>6
  <1> QED BY <1>12, <1>13
Requeued(h, K) == [h EXCEPT !.queue = K]

Requeues(g, h, K) ==
    /\ IsHost(g) /\ SameBooks(g, h) /\ g.active = h.active
    /\ g.pending = h.pending /\ g.cpu = h.cpu /\ g.registry = h.registry
    /\ g.invoker = h.invoker
    /\ g.queue = K

LEMMA RequeuedDoes ==
    ASSUME NEW h, IsHost(h), NEW K
    PROVE  Requeues(Requeued(h, K), h, K)
  <1> SUFFICES ASSUME NEW g, g = Requeued(h, K)
               PROVE  Requeues(g, h, K)
    OBVIOUS
  <1>1. PICK cs, n, fr, fu, rs, ac, pd, cap, con, u, rg, iv, q :
          h = HostOf(cs, n, fr, fu, rs, ac, pd, cap, con, u, rg, iv, q)
    BY DEF IsHost
  <1>2. g = HostOf(cs, n, fr, fu, rs, ac, pd, cap, con, u, rg, iv, K)
    BY <1>1 DEF HostOf, Requeued
  <1>3. IsHost(g)
    BY <1>2, HostIs
  <1>4.   /\ h.containers = cs /\ h.next = n /\ h.free = fr /\ h.full = fu
        /\ h.reservations = rs /\ h.active = ac /\ h.pending = pd /\ h.capacity = cap
        /\ h.consumed = con /\ h.cpu = u /\ h.registry = rg /\ h.invoker = iv
        /\ h.queue = q
    BY <1>1 DEF HostOf
  <1>5.   /\ g.containers = cs /\ g.next = n /\ g.free = fr /\ g.full = fu
        /\ g.reservations = rs /\ g.active = ac /\ g.pending = pd /\ g.capacity = cap
        /\ g.consumed = con /\ g.cpu = u /\ g.registry = rg /\ g.invoker = iv
        /\ g.queue = K
    BY <1>2 DEF HostOf
  <1> QED BY ONLY <1>3, <1>4, <1>5 DEF Requeues, SameBooks, SameRegistry

Arrived(h, i, e) == [h EXCEPT !.active = @ + 1, !.registry = With(@, i, e)]

Arrives(g, h, i, e) ==
    /\ IsHost(g) /\ SameBooks(g, h) /\ g.pending = h.pending
    /\ g.cpu = h.cpu /\ g.invoker = h.invoker /\ g.queue = h.queue
    /\ g.active = h.active + 1
    /\ g.registry = With(h.registry, i, e)

LEMMA ArrivedDoes ==
    ASSUME NEW h, IsHost(h), NEW i, NEW e
    PROVE  Arrives(Arrived(h, i, e), h, i, e)
  <1> SUFFICES ASSUME NEW g, g = Arrived(h, i, e)
               PROVE  Arrives(g, h, i, e)
    OBVIOUS
  <1>1. PICK cs, n, fr, fu, rs, ac, pd, cap, con, u, rg, iv, q :
          h = HostOf(cs, n, fr, fu, rs, ac, pd, cap, con, u, rg, iv, q)
    BY DEF IsHost
  <1>2. g = HostOf(cs, n, fr, fu, rs, ac + 1, pd, cap, con, u, With(rg, i, e), iv, q)
    BY <1>1 DEF HostOf, Arrived
  <1>3. IsHost(g)
    BY <1>2, HostIs
  <1>4.   /\ h.containers = cs /\ h.next = n /\ h.free = fr /\ h.full = fu
        /\ h.reservations = rs /\ h.active = ac /\ h.pending = pd /\ h.capacity = cap
        /\ h.consumed = con /\ h.cpu = u /\ h.registry = rg /\ h.invoker = iv
        /\ h.queue = q
    BY <1>1 DEF HostOf
  <1>5.   /\ g.containers = cs /\ g.next = n /\ g.free = fr /\ g.full = fu
        /\ g.reservations = rs /\ g.active = ac + 1 /\ g.pending = pd
        /\ g.capacity = cap /\ g.consumed = con /\ g.cpu = u
        /\ g.registry = With(rg, i, e) /\ g.invoker = iv /\ g.queue = q
    BY <1>2 DEF HostOf
  <1> QED BY ONLY <1>3, <1>4, <1>5 DEF Arrives, SameBooks, SameRegistry

Queues(g, h, i) ==
    /\ IsHost(g) /\ SameBooks(g, h) /\ g.active = h.active
    /\ g.pending = h.pending /\ g.cpu = h.cpu /\ g.registry = h.registry
    /\ g.invoker = h.invoker
    /\ g.queue = Append(h.queue, i)

LEMMA EnqueueDoes ==
    ASSUME NEW h, IsHost(h), NEW i
    PROVE  Queues(Enqueue(h, i), h, i)
  <1> SUFFICES ASSUME NEW g, g = Enqueue(h, i)
               PROVE  Queues(g, h, i)
    OBVIOUS
  <1>1. PICK cs, n, fr, fu, rs, ac, pd, cap, con, u, rg, iv, q :
          h = HostOf(cs, n, fr, fu, rs, ac, pd, cap, con, u, rg, iv, q)
    BY DEF IsHost
  <1>2. g = HostOf(cs, n, fr, fu, rs, ac, pd, cap, con, u, rg, iv, Append(q, i))
    BY <1>1 DEF HostOf, Enqueue
  <1>3. IsHost(g)
    BY <1>2, HostIs
  <1>4.   /\ h.containers = cs /\ h.next = n /\ h.free = fr /\ h.full = fu
        /\ h.reservations = rs /\ h.active = ac /\ h.pending = pd /\ h.capacity = cap
        /\ h.consumed = con /\ h.cpu = u /\ h.registry = rg /\ h.invoker = iv
        /\ h.queue = q
    BY <1>1 DEF HostOf
  <1>5.   /\ g.containers = cs /\ g.next = n /\ g.free = fr /\ g.full = fu
        /\ g.reservations = rs /\ g.active = ac /\ g.pending = pd /\ g.capacity = cap
        /\ g.consumed = con /\ g.cpu = u /\ g.registry = rg /\ g.invoker = iv
        /\ g.queue = Append(q, i)
    BY <1>2 DEF HostOf
  <1> QED BY ONLY <1>3, <1>4, <1>5 DEF Queues, SameBooks, SameRegistry
\* Between two events: nothing can be done for what is in the queue.
Served(h) ==
    \A p \in DOMAIN h.queue : h.invoker = "Naive" \/ p = 1 => Hopeless(h, AppOf(h, h.queue[p]))

LEMMA SameHopes ==
    ASSUME NEW g, NEW h, SameBooks(g, h)
    PROVE  \A a : Hopeless(g, a) <=> Hopeless(h, a)
  <1> SUFFICES ASSUME NEW a PROVE Hopeless(g, a) <=> Hopeless(h, a)
    OBVIOUS
  <1>1. /\ g.containers = h.containers /\ g.free = h.free
        /\ g.capacity = h.capacity /\ g.consumed = h.consumed
    BY DEF SameBooks
  <1>2. CanAllocate(g, a) <=> CanAllocate(h, a)
    BY <1>1 DEF CanAllocate
  <1>3. CanInvoke(g, a, TRUE) <=> CanInvoke(h, a, TRUE)
    BY <1>1 DEF CanInvoke, PossibleContainers
  <1> QED BY <1>2, <1>3 DEF Hopeless

LEMMA TryAllKeeps ==
    ASSUME NEW h, NEW k, NEW b, HostAt(h, k, b, {}), Settled(h, k),
           NEW acc, acc = TryAll(Trial(h, <<>>, <<>>), h.queue)
    PROVE  Trying(acc, h, h.queue, Len(h.queue))
  <1> DEFINE q == h.queue
             base == Trial(h, <<>>, <<>>)
  <1>1. q \in Seq(Nat) /\ IsInjective(q) /\ Range(q) = Nowhere(k) /\ Len(q) \in Nat
        /\ DOMAIN q = 1..Len(q)
        /\ \A j \in DOMAIN k : k[j] \notin {"starting", "entered", "ending"}
    BY DEF Settled, Nowhere
  <1> HIDE DEF base
  <1>2. PICK f : /\ f[0] = base /\ \A n \in 1..Len(q) : f[n] = DequeueItem(f[n - 1], q[n])
                 /\ TryAll(base, q) = f[Len(q)]
    <2> HIDE DEF q
    <2>1. PICK N : N = Nat
      OBVIOUS
    <2>2. q \in Seq(N)
      BY <1>1, <2>1
    <2> QED BY <2>2, TryAllFolds
  <1> DEFINE F == {n \in 0..Len(q) : Trying(f[n], h, q, n)}
  <1>3. 0 \in F
    <2>1. KeptOf(<<>>, q, 0) /\ Range(<<>>) = {}
      BY EmptyDistinct DEF KeptOf
    <2>2. Rest(q, 0) = Range(q)
      <3>1. 0 + 1..Len(q) = 1..Len(q)
        OBVIOUS
      <3> QED BY <1>1, <3>1 DEF Rest, Range
    <2>3. StartedAre(<<>>, k, b)
      BY <1>1 DEF StartedAre
    <2>4. Unserved(h, <<>>, h) /\ SameApps(h, h)
      BY DEF Unserved, SameApps
    <2>5. Nowhere(k) = Range(<<>>) \cup Rest(q, 0)
      BY <1>1, <2>1, <2>2
    <2> HIDE DEF q
    <2>6. Tries(h, <<>>, <<>>, k, b, h, q, 0)
      BY <1>1, <2>1, <2>3, <2>4, <2>5 DEF Tries
    <2>7. Trying(f[0], h, q, 0)
      BY <1>2, <2>6 DEF Trying, base
    <2> QED BY <1>1, <2>7
  <1>4. ASSUME NEW n \in 1..Len(q), n - 1 \in F PROVE n \in F
    <2>1. Trying(f[n - 1], h, q, n - 1)
      BY <1>4
    <2>2. f[n] = DequeueItem(f[n - 1], q[n]) /\ n - 1 \in Nat /\ n - 1 < Len(q) /\ n = (n - 1) + 1
      BY <1>1, <1>2
    <2> HIDE DEF q, F
    <2>3. PICK m : m = n - 1
      OBVIOUS
    <2>4. Trying(DequeueItem(f[m], q[n]), h, q, m + 1)
      BY <1>1, <2>1, <2>2, <2>3, TryOne
    <2>5. Trying(f[n], h, q, n)
      BY <2>2, <2>3, <2>4
    <2> QED BY <1>4, <2>5 DEF F
  <1> HIDE DEF F
  <1>5. \A n \in 0..Len(q) : n \in F
    <2> HIDE DEF q
    <2> QED BY <1>1, <1>3, <1>4, PrefixInduction
  <1>6. Len(q) \in F
    <2> HIDE DEF q
    <2> QED BY <1>1, <1>5
  <1>7. Trying(f[Len(q)], h, q, Len(q))
    BY <1>6 DEF F
  <1> QED BY <1>2, <1>7 DEF base

\* The first n of the started invocations have been told.
ToldSome(k2, k, S, n) ==
    /\ DOMAIN k2 = DOMAIN k
    /\ \A j \in DOMAIN k : IF \E p \in 1..n : S[p][1] = j THEN k2[j] = "told" ELSE k2[j] = k[j]

Telling(g, h, k, b, S, n) ==
    /\ \E k2 : HostAt(g, k2, b, {}) /\ ToldSome(k2, k, S, n)
    /\ SameBooks(g, h) /\ SameApps(g, h) /\ SameQueue(g, h)

LEMMA TellOne ==
    ASSUME NEW h, NEW k, NEW b, NEW S, StartedAre(S, k, b), DOMAIN b = DOMAIN k,
           NEW n \in Nat, n < Len(S), NEW g, Telling(g, h, k, b, S, n), NEW s, s = S[n + 1]
    PROVE  Telling(Tell(g, s), h, k, b, S, n + 1)
  <1>1. PICK k1 : HostAt(g, k1, b, {}) /\ ToldSome(k1, k, S, n)
    BY DEF Telling
  <1>2. PICK i, c : i = s[1] /\ c = s[2]
    OBVIOUS
  <1>3. /\ DOMAIN S = 1..Len(S) /\ Len(S) \in Nat /\ n + 1 \in 1..Len(S)
        /\ \A p \in 1..n : p \in 1..Len(S) /\ p # n + 1
    BY DEF StartedAre
  <1>4. /\ i \in DOMAIN k /\ k[i] = "entered" /\ b[i] = c
        /\ \A p \in 1..n : S[p][1] # i
    <2>1. i \in DOMAIN k /\ k[i] = "entered" /\ b[i] = c
      BY <1>2, <1>3 DEF StartedAre
    <2>2. \A p \in 1..n : S[p][1] # S[n + 1][1]
      BY <1>3 DEF StartedAre
    <2> QED BY <1>2, <2>1, <2>2
  <1>5. i \in DOMAIN k1 /\ k1[i] = "entered" /\ DOMAIN b = DOMAIN k1
    BY <1>1, <1>4 DEF ToldSome
  <1>6. PICK k2, b2 : Moved(k2, b2, k1, b, i, "told", c)
    BY <1>5, MoveExists
  <1>7. Moved(k2, b, k1, b, i, "told", c)
    BY <1>4, <1>6 DEF Moved
  <1>8. PICK m : m = Assign(g, i, "Running", c)
    OBVIOUS
  <1>9. PICK e : e = CpuStart(m, i, c)
    OBVIOUS
  <1>10. Tell(g, s) = e
    BY <1>2, <1>8, <1>9 DEF Tell
  <1>11. HostAt(e, k2, b, {}) /\ Tells(e, g)
    BY <1>1, <1>4, <1>5, <1>7, <1>8, <1>9, TellKeeps
  <1>12. ToldSome(k2, k, S, n + 1)
    <2>1. \A p \in 1..n + 1 : p \in 1..n \/ p = n + 1
      OBVIOUS
    <2>2. n + 1 \in 1..n + 1 /\ \A p \in 1..n : p \in 1..n + 1
      OBVIOUS
    <2>3. S[n + 1][1] = i
      BY <1>2
    <2>4. DOMAIN k1 = DOMAIN k /\ DOMAIN k2 = DOMAIN k
      BY <1>1, <1>7 DEF ToldSome, Moved
    <2> SUFFICES ASSUME NEW j \in DOMAIN k
                 PROVE  IF \E p \in 1..n + 1 : S[p][1] = j THEN k2[j] = "told" ELSE k2[j] = k[j]
      BY <2>4 DEF ToldSome
    <2>5. CASE j = i
      BY <1>7, <2>2, <2>3, <2>5 DEF Moved
    <2>6. CASE j # i
      <3>1. (\E p \in 1..n + 1 : S[p][1] = j) <=> (\E p \in 1..n : S[p][1] = j)
        BY <2>1, <2>2, <2>3, <2>6
      <3>2. k2[j] = k1[j]
        BY <1>7, <2>4, <2>6 DEF Moved
      <3> QED BY <1>1, <3>1, <3>2 DEF ToldSome
    <2> QED BY <2>5, <2>6
  <1>13. SameBooks(e, h) /\ SameApps(e, h) /\ SameQueue(e, h)
    BY <1>11 DEF Telling, Tells, SameBooks, SameApps, SameQueue
  <1> QED BY <1>10, <1>11, <1>12, <1>13 DEF Telling

LEMMA TellAllKeeps ==
    ASSUME NEW h, NEW k, NEW b, HostAt(h, k, b, {}), NEW S, StartedAre(S, k, b),
           NEW g, g = TellAll(h, S)
    PROVE  Telling(g, h, k, b, S, Len(S))
  <1>1. S \in Seq(Nat \X Int) /\ Len(S) \in Nat /\ DOMAIN b = DOMAIN k
    <2>1. EntriesOf(h.registry, k, b)
      BY DEF HostAt
    <2> QED BY <2>1 DEF EntriesOf, StartedAre
  <1>2. PICK f : /\ f[0] = h /\ \A n \in 1..Len(S) : f[n] = Tell(f[n - 1], S[n])
                 /\ TellAll(h, S) = f[Len(S)]
    <2>1. PICK N : N = Nat \X Int
      OBVIOUS
    <2>2. S \in Seq(N)
      BY <1>1, <2>1
    <2> QED BY <2>2, TellAllFolds
  <1> DEFINE F == {n \in 0..Len(S) : Telling(f[n], h, k, b, S, n)}
  <1>3. 0 \in F
    <2>1. ToldSome(k, k, S, 0)
      BY DEF ToldSome
    <2>2. SameBooks(h, h) /\ SameApps(h, h) /\ SameQueue(h, h)
      BY DEF SameBooks, SameApps, SameQueue
    <2>3. Telling(f[0], h, k, b, S, 0)
      BY <1>2, <2>1, <2>2 DEF Telling
    <2> QED BY <1>1, <2>3
  <1>4. ASSUME NEW n \in 1..Len(S), n - 1 \in F PROVE n \in F
    <2>1. Telling(f[n - 1], h, k, b, S, n - 1)
      BY <1>4
    <2>2. f[n] = Tell(f[n - 1], S[n]) /\ n - 1 \in Nat /\ n - 1 < Len(S) /\ n = (n - 1) + 1
      BY <1>1, <1>2
    <2> HIDE DEF F
    <2>3. PICK m : m = n - 1
      OBVIOUS
    <2>4. Telling(Tell(f[m], S[n]), h, k, b, S, m + 1)
      BY <1>1, <2>1, <2>2, <2>3, TellOne
    <2>5. Telling(f[n], h, k, b, S, n)
      BY <2>2, <2>3, <2>4
    <2> QED BY <1>4, <2>5 DEF F
  <1> HIDE DEF F
  <1>5. \A n \in 0..Len(S) : n \in F
    BY <1>1, <1>3, <1>4, PrefixInduction
  <1>6. Len(S) \in F
    BY <1>1, <1>5
  <1> QED BY <1>2, <1>6 DEF F

SameHopesOf(g, h) == \A a : Hopeless(g, a) <=> Hopeless(h, a)

\* After a whole dequeue nothing is left in hand, and nothing can be done for the
\* queue.
LEMMA DequeueKeeps ==
    ASSUME NEW h, NEW k, NEW b, HostAt(h, k, b, {}), Settled(h, k),
           NEW g, g = DequeueRequests(h)
    PROVE  /\ \E k2, b2 : HostAt(g, k2, b2, {}) /\ Settled(g, k2) /\ DOMAIN k2 = DOMAIN k
           /\ Served(g) /\ g.invoker = h.invoker
  <1>1. PICK q : q = h.queue
    OBVIOUS
  <1>2. PICK acc : acc = TryAll(Trial(h, <<>>, <<>>), q)
    OBVIOUS
  <1>3. Trying(acc, h, q, Len(q))
    BY <1>1, <1>2, TryAllKeeps
  <1>4. PICK k1, b1, H, S, K : acc = Trial(H, S, K) /\ Tries(H, S, K, k1, b1, h, q, Len(q))
    BY <1>3 DEF Trying
  <1>5. /\ HostAt(H, k1, b1, {}) /\ SameApps(H, h) /\ H.invoker = h.invoker
        /\ \A j \in DOMAIN k1 : k1[j] \notin {"starting", "ending"}
        /\ K \in Seq(Nat) /\ IsInjective(K)
        /\ Nowhere(k1) = Range(K) \cup Rest(q, Len(q))
        /\ StartedAre(S, k1, b1) /\ Unserved(H, K, h)
    BY <1>4 DEF Tries, KeptOf
  <1>6. PICK t : t = Requeued(H, K)
    OBVIOUS
  <1>7. g = TellAll(t, S)
    <2>1. acc.host = H /\ acc.started = S /\ acc.kept = K
      BY <1>4 DEF Trial
    <2>2. g = TellAll([acc.host EXCEPT !.queue = acc.kept], acc.started)
      BY <1>1, <1>2, DequeueUnbound DEF Trial
    <2> QED BY <1>6, <2>1, <2>2 DEF Requeued
  <1>8. Requeues(t, H, K)
    BY <1>5, <1>6, RequeuedDoes DEF HostAt
  <1>9. HostAt(t, k1, b1, {})
    BY <1>5, <1>8 DEF HostAt, Requeues, SameBooks
  <1>10. Telling(g, t, k1, b1, S, Len(S))
    BY <1>5, <1>7, <1>9, TellAllKeeps
  <1>11. PICK k2 : HostAt(g, k2, b1, {}) /\ ToldSome(k2, k1, S, Len(S))
    BY <1>10 DEF Telling
  <1>12. g.queue = K /\ g.invoker = h.invoker
    BY <1>5, <1>8, <1>10 DEF Telling, SameQueue, Requeues
  <1>13. DOMAIN k2 = DOMAIN k1
         /\ \A j \in DOMAIN k1 : k2[j] = IF k1[j] = "entered" THEN "told" ELSE k1[j]
    <2>1. S \in Seq(Nat \X Int)
      BY <1>5 DEF StartedAre
    <2>2. DOMAIN S = 1..Len(S)
      BY <2>1
    <2>3. \A j \in DOMAIN k1 : k1[j] = "entered" <=> \E p \in 1..Len(S) : S[p][1] = j
      BY <1>5, <2>2 DEF StartedAre
    <2> QED BY <1>11, <2>3 DEF ToldSome
  <1>14. Range(K) = Nowhere(k1)
    <2>1. q \in Seq(Nat)
      BY <1>1 DEF Settled
    <2>2. Rest(q, Len(q)) = {}
      BY <2>1 DEF Rest
    <2> QED BY <1>5, <2>2
  <1>15. Settled(g, k2)
    <2>1. \A j \in DOMAIN k2 : k2[j] \notin {"starting", "entered", "ending"}
      BY <1>5, <1>13
    <2>2. {j \in DOMAIN k2 : k2[j] = "nowhere"} = Nowhere(k1)
      BY <1>13 DEF Nowhere
    <2> QED BY <1>5, <1>12, <1>14, <2>1, <2>2 DEF Settled
  <1>16. SameApps(g, h) /\ SameHopesOf(g, H)
    <2>1. t.registry = H.registry /\ SameBooks(t, H)
      BY <1>8 DEF Requeues
    <2>2. SameApps(g, t) /\ SameBooks(g, t)
      BY <1>10 DEF Telling
    <2>3. SameApps(g, h)
      BY <1>5, <2>1, <2>2 DEF SameApps
    <2>4. SameBooks(g, H)
      BY <2>1, <2>2 DEF SameBooks
    <2> QED BY <2>3, <2>4, SameHopes DEF SameHopesOf
  <1>17. DOMAIN k2 = DOMAIN k
    <2>1. DOMAIN k2 = DOMAIN g.registry
      BY <1>11 DEF HostAt, EntriesOf
    <2>2. DOMAIN k = DOMAIN h.registry
      BY DEF HostAt, EntriesOf
    <2> QED BY <1>16, <2>1, <2>2 DEF SameApps
  <1>18. Served(g)
    <2> SUFFICES ASSUME NEW p \in DOMAIN K, g.invoker = "Naive" \/ p = 1
                 PROVE  Hopeless(g, AppOf(g, K[p]))
      BY <1>12 DEF Served
    <2>1. Hopeless(H, AppOf(h, K[p]))
      BY <1>5, <1>12 DEF Unserved
    <2>2. K[p] \in DOMAIN h.registry
      <3>1. K[p] \in Nowhere(k1)
        BY <1>14 DEF Range
      <3>2. DOMAIN k1 = DOMAIN k /\ DOMAIN k = DOMAIN h.registry
        BY <1>13, <1>17 DEF HostAt, EntriesOf
      <3> QED BY <3>1, <3>2 DEF Nowhere
    <2>3. AppOf(g, K[p]) = AppOf(h, K[p])
      BY <1>16, <2>2 DEF SameApps, AppOf
    <2> QED BY <1>16, <2>1, <2>3 DEF SameHopesOf
  <1> QED BY <1>11, <1>12, <1>15, <1>17, <1>18
-----------------------------------------------------------------------------
(* A new invocation arrives.                                               *)

\* It starts at once in a container that runs.
LEMMA InvokeWarm ==
    ASSUME NEW h, NEW k, NEW b, HostAt(h, k, b, {}), NEW i \in DOMAIN k, k[i] = "nowhere",
           NEW c \in DOMAIN h.containers, NEW a, a = h.containers[c].app,
           h.containers[c].status \in {"Idle", "Running"}, c \in Range(h.free[a]),
           \A j \in DOMAIN k : k[j] # "starting",
           NEW k3, NEW b2, Moved(k3, b2, k, b, i, "told", c),
           NEW m, m = StartInvocation(h, c, i),
           NEW g, g = IfFull(m, c, Cardinality(Invocations(m, c)))
    PROVE  HostAt(g, k3, b2, {}) /\ Admits(g, h, a)
  <1>1. PICK m1 : m1 = EnterContainer(h, c, i)
    OBVIOUS
  <1>2. /\ IsHost(h) /\ StockOf(h.containers, h.next) /\ ListsOf(h.containers, h.free, h.full, k, b)
        /\ EntriesOf(h.registry, k, b) /\ Inside(h.containers, k, b)
        /\ ReservedFor(h.reservations, k, b)
        /\ CyclesOf(h.containers, h.reservations, h.pending, {})
    BY DEF HostAt
  <1>3. DOMAIN b = DOMAIN k /\ IsFiniteSet(DOMAIN k)
    BY <1>2 DEF EntriesOf
  <1>4. PICK k2 : /\ DOMAIN k2 = DOMAIN k /\ k2[i] = "entered"
                  /\ \A j \in DOMAIN k : j # i => k2[j] = k[j]
    <2> DEFINE K == [j \in DOMAIN k |-> IF j = i THEN "entered" ELSE k[j]]
    <2>1. DOMAIN K = DOMAIN k /\ K[i] = "entered" /\ \A j \in DOMAIN k : j # i => K[j] = k[j]
      OBVIOUS
    <2> QED BY <2>1
  <1>5. /\ Moved(k2, b2, k, b, i, "entered", c) /\ Moved(k3, b2, k2, b2, i, "told", c)
        /\ i \in DOMAIN k2 /\ k2[i] = "entered" /\ b2[i] = c
    BY <1>3, <1>4 DEF Moved
  <1>6. Enters(m1, h, c, i)
    BY <1>1, <1>2, EnterDoes
  <1>7. Startable(h, c)
    BY <1>2 DEF CyclesOf, CycleOf, Startable
  <1>8. /\ HostButLists(m1, k2, b2)
        /\ m1.free = h.free /\ m1.full = h.full /\ DOMAIN m1.containers = DOMAIN h.containers
        /\ \A d \in DOMAIN h.containers : m1.containers[d].app = h.containers[d].app
    BY <1>5, <1>6, <1>7, EnterCore
  <1>9. PICK m2 : m2 = Assign(m1, i, "Running", c)
    OBVIOUS
  <1>10. m = CpuStart(m2, i, c)
    BY <1>1, <1>9 DEF StartInvocation
  <1>11. HostButLists(m, k3, b2) /\ Tells(m, m1)
    BY <1>5, <1>8, <1>9, <1>10, TellCore
  <1>12. /\ m.containers = m1.containers /\ m.free = h.free /\ m.full = h.full
         /\ m.capacity = h.capacity /\ m.consumed = h.consumed /\ SameQueue(m, h)
         /\ SameApps(m, h)
    <2>1. SameBooks(m, m1) /\ SameQueue(m, m1) /\ SameApps(m, m1)
      BY <1>11 DEF Tells, SameQueue
    <2>2. m1.capacity = h.capacity /\ m1.consumed = h.consumed /\ SameQueue(m1, h)
          /\ m1.registry = h.registry
      BY <1>6 DEF Enters, SameRegistry, SameQueue
    <2> QED BY <1>8, <2>1, <2>2 DEF SameBooks, SameQueue, SameApps
  <1>13. Relists(g, m, c, a, Cardinality(Invocations(m, c)) = Limit[a])
    BY <1>8, <1>11, <1>12, IfFullDoes DEF HostButLists
  <1>14. "told" \in Holding /\ "told" \in In /\ "told" \notin {"reserved"}
         /\ {"reserved"} \subseteq Holding
    BY DEF Holding, In
  <1>15. Gained(k3, b2, k, b, i, "told", c)
    BY <1>3, <1>14, HeldGained
  <1>16. Cardinality(Invocations(m, c)) = Cardinality(Held(k3, b2, Holding, c))
    <2>1. Invocations(m, c) = Held(k3, b2, In, c)
      BY <1>8, <1>11, <1>12 DEF HostButLists, Inside, Invocations
    <2>2. Held(k, b, {"reserved"}, c) = {}
      BY <1>2, <1>7, EmptyDistinct DEF ReservedFor, ListHolds, Startable
    <2>3. Held(k3, b2, {"reserved"}, c) = {}
      BY <1>14, <1>15, <2>2 DEF Gained
    <2>4. \A j \in DOMAIN k3 : k3[j] # "starting"
      BY <1>15 DEF Gained, HeldAfter
    <2>5. Held(k3, b2, Holding, c) = Held(k3, b2, In, c)
      BY <2>3, <2>4 DEF Held, Holding
    <2> QED BY <2>1, <2>5
  <1>17. Relisted(g.free, g.full, h.free, h.full, a, c,
                  Cardinality(Held(k3, b2, Holding, c)) = Limit[a])
    BY <1>12, <1>13, <1>16 DEF Relists
  <1>18. ListsOf(h.containers, g.free, g.full, k3, b2)
    <2>2. a \in App /\ \A d \in DOMAIN h.containers : h.containers[d].app \in App
      BY <1>2 DEF StockOf
    <2>3. /\ Held(k3, b2, Holding, c) = Held(k, b, Holding, c) \cup {i}
          /\ i \notin Held(k, b, Holding, c)
          /\ \A d \in DOMAIN h.containers : d # c => Held(k3, b2, Holding, d) = Held(k, b, Holding, d)
      BY <1>15 DEF Gained
    <2> QED BY <1>2, <1>3, <1>17, <2>2, <2>3, ListsGain
  <1>19. /\ g.containers = m1.containers /\ g.capacity = h.capacity /\ g.consumed = h.consumed
         /\ SameQueue(g, h) /\ SameApps(g, h)
    BY <1>12, <1>13 DEF Relists, SameRegistry, SameQueue, SameApps
  <1>20. ListsOf(g.containers, g.free, g.full, k3, b2)
    BY <1>8, <1>18, <1>19, ListsSameApps
  <1>21. HostAt(g, k3, b2, {})
    BY <1>11, <1>13, <1>20 DEF HostAt, HostButLists, Relists, SameRegistry
  <1>22. Hardens(g, h, a)
    <2>1. \A d : d # c => g.containers[d] = h.containers[d]
      BY <1>6, <1>19 DEF Enters
    <2> QED BY <1>17, <1>19, <2>1, RelistHardens
  <1> QED BY <1>19, <1>21, <1>22 DEF Admits

\* With invocation i, of which nothing is known yet.
Extended(k2, b2, k, b, i) ==
    /\ DOMAIN k2 = DOMAIN k \cup {i} /\ DOMAIN b2 = DOMAIN b \cup {i}
    /\ k2[i] = "nowhere"
    /\ \A j \in DOMAIN k : k2[j] = k[j] /\ b2[j] = b[j]

LEMMA ExtendedExists ==
    ASSUME NEW k, NEW b, DOMAIN b = DOMAIN k, NEW i, i \notin DOMAIN k
    PROVE  \E k2, b2 : Extended(k2, b2, k, b, i)
  <1> DEFINE K == [j \in DOMAIN k \cup {i} |-> IF j = i THEN "nowhere" ELSE k[j]]
             B == [j \in DOMAIN b \cup {i} |-> IF j = i THEN 0 ELSE b[j]]
  <1>1. Extended(K, B, k, b, i)
    BY DEF Extended
  <1> HIDE DEF K, B
  <1> QED BY <1>1

LEMMA KnowsArrived ==
    ASSUME NEW u, NEW pd, NEW k, NEW b, KnowsOf(u, pd, k, b), DOMAIN b = DOMAIN k,
           NEW i, i \notin DOMAIN k, NEW k2, NEW b2, Extended(k2, b2, k, b, i)
    PROVE  KnowsOf(u, pd, k2, b2)
  <1>1. /\ DOMAIN k2 = DOMAIN k \cup {i} /\ k2[i] = "nowhere"
        /\ \A j \in DOMAIN k : k2[j] = k[j] /\ b2[j] = b[j]
    BY DEF Extended
  <1>2. /\ \A j : (j \in DOMAIN k2 /\ k2[j] = "told") <=> (j \in DOMAIN k /\ k[j] = "told")
        /\ \A j \in DOMAIN k : k2[j] = k[j] /\ b2[j] = b[j]
    BY <1>1
  <1>3. \A d : Held(k2, b2, {"told"}, d) = Held(k, b, {"told"}, d)
    BY <1>1 DEF Held
  <1>4. {j \in DOMAIN k2 : k2[j] \in {"told", "ending"}}
          = {j \in DOMAIN k : k[j] \in {"told", "ending"}}
    BY <1>1
  <1>5. ASSUME Told(u, pd, k, b), u.policy = "Ignored" PROVE Told(u, pd, k2, b2)
    BY <1>2, <1>5 DEF Told
  <1>6. ASSUME Told(u, pd, k, b), u.policy = "Isolated" PROVE Told(u, pd, k2, b2)
    <2>1. WaitingOf(u.waiting, u.queue, k2, b2)
      BY <1>3, <1>6 DEF Told, WaitingOf
    <2>2. \A j : (j \in DOMAIN k2 /\ k2[j] = "told" /\ b2[j] \notin DOMAIN u.waiting)
                   <=> (j \in DOMAIN k /\ k[j] = "told" /\ b[j] \notin DOMAIN u.waiting)
      BY <1>2
    <2> QED BY <1>6, <2>1, <2>2 DEF Told
  <1>7. ASSUME Told(u, pd, k, b), u.policy = "Contended" PROVE Told(u, pd, k2, b2)
    BY <1>2, <1>4, <1>7 DEF Told
  <1>8. IsCpu(u) /\ Told(u, pd, k, b)
    BY DEF KnowsOf
  <1> QED BY <1>5, <1>6, <1>7, <1>8 DEF KnowsOf, Told

LEMMA ActiveArrived ==
    ASSUME NEW ac, NEW k, NEW b, ActiveOf(ac, k), IsFiniteSet(DOMAIN k),
           NEW i, i \notin DOMAIN k, NEW k2, NEW b2, Extended(k2, b2, k, b, i)
    PROVE  ActiveOf(ac + 1, k2)
  <1> DEFINE A == {j \in DOMAIN k : k[j] # "finished"}
             B == {j \in DOMAIN k2 : k2[j] # "finished"}
  <1>1. IsFiniteSet(A) /\ i \notin A
    BY FS_Subset
  <1>2. B = A \cup {i}
    BY DEF Extended
  <1> HIDE DEF A, B
  <1>3. Cardinality(A \cup {i}) = Cardinality(A) + 1
    BY <1>1, FS_AddElement
  <1>4. ac = Cardinality(A)
    BY DEF ActiveOf, A
  <1>5. Cardinality(B) = ac + 1
    BY <1>2, <1>3, <1>4
  <1> QED BY <1>5 DEF ActiveOf, B

NewEntry(a) == [app |-> a, status |-> "Queued", container |-> NoContainer]

LEMMA ArriveKeeps ==
    ASSUME NEW h, NEW k, NEW b, HostAt(h, k, b, {}), NEW i \in Nat \ {0}, i \notin DOMAIN k,
           NEW a \in App, NEW k2, NEW b2, Extended(k2, b2, k, b, i),
           NEW e, e = NewEntry(a), NEW m, m = Arrived(h, i, e)
    PROVE  /\ HostAt(m, k2, b2, {}) /\ SameBooks(m, h) /\ SameQueue(m, h)
           /\ AppOf(m, i) = a /\ \A j \in DOMAIN k : AppOf(m, j) = AppOf(h, j)
  <1>1. /\ IsHost(h) /\ StockOf(h.containers, h.next)
        /\ BudgetOf(h.containers, h.capacity, h.consumed)
        /\ ListsOf(h.containers, h.free, h.full, k, b)
        /\ EntriesOf(h.registry, k, b) /\ Inside(h.containers, k, b)
        /\ ReservedFor(h.reservations, k, b)
        /\ CyclesOf(h.containers, h.reservations, h.pending, {})
        /\ KnowsOf(h.cpu, h.pending, k, b) /\ ActiveOf(h.active, k)
    BY DEF HostAt
  <1>2. /\ DOMAIN k = DOMAIN h.registry /\ DOMAIN b = DOMAIN k /\ IsFiniteSet(DOMAIN k)
    BY <1>1 DEF EntriesOf
  <1>3. Arrives(m, h, i, e)
    BY <1>1, ArrivedDoes
  <1>4. /\ IsHost(m) /\ m.containers = h.containers /\ m.next = h.next /\ m.free = h.free
        /\ m.full = h.full /\ m.reservations = h.reservations /\ m.capacity = h.capacity
        /\ m.consumed = h.consumed /\ m.pending = h.pending /\ m.cpu = h.cpu
        /\ m.active = h.active + 1 /\ m.registry = With(h.registry, i, e)
        /\ SameBooks(m, h) /\ SameQueue(m, h)
    BY <1>3 DEF Arrives, SameBooks, SameQueue
  <1>5. /\ DOMAIN k2 = DOMAIN k \cup {i} /\ DOMAIN b2 = DOMAIN k \cup {i} /\ k2[i] = "nowhere"
        /\ \A j \in DOMAIN k : k2[j] = k[j] /\ b2[j] = b[j]
    BY <1>2 DEF Extended
  <1>6. "nowhere" \notin Holding /\ In \subseteq Holding /\ {"reserved"} \subseteq Holding
    BY DEF Holding, In
  <1>7. \A K, d : K \subseteq Holding => Held(k2, b2, K, d) = Held(k, b, K, d)
    BY <1>5, <1>6 DEF Held
  <1>8. ListsOf(m.containers, m.free, m.full, k2, b2)
    <2>1. \A d : Held(k2, b2, Holding, d) = Held(k, b, Holding, d)
      BY <1>7
    <2> QED BY <1>1, <1>4, <2>1 DEF ListsOf
  <1>9. /\ DOMAIN m.registry = DOMAIN h.registry \cup {i} /\ m.registry[i] = e
        /\ \A j \in DOMAIN k : m.registry[j] = h.registry[j]
    BY <1>2, <1>4 DEF With
  <1>10. EntryAgrees(e, "nowhere", b2[i]) /\ e.app = a
    BY DEF NewEntry, EntryAgrees
  <1>11. EntriesOf(m.registry, k2, b2)
    <2>1. IsFiniteSet(DOMAIN k \cup {i})
      BY <1>2, FS_AddElement
    <2>2. "nowhere" \in Kinds
      BY DEF Kinds
    <2>3. ASSUME NEW j \in DOMAIN k
          PROVE  j \in Nat \ {0} /\ k2[j] \in Kinds /\ EntryAgrees(m.registry[j], k2[j], b2[j])
      BY <1>1, <1>2, <1>5, <1>9 DEF EntriesOf
    <2> QED BY <1>2, <1>5, <1>9, <1>10, <2>1, <2>2, <2>3 DEF EntriesOf
  <1>12. Inside(m.containers, k2, b2)
    <2>1. \A d : Held(k2, b2, In, d) = Held(k, b, In, d)
      BY <1>6, <1>7
    <2> QED BY <1>1, <1>4, <1>5, <1>6, <2>1 DEF Inside
  <1>13. ReservedFor(m.reservations, k2, b2)
    <2>1. \A d : Held(k2, b2, {"reserved"}, d) = Held(k, b, {"reserved"}, d)
      BY <1>6, <1>7
    <2> QED BY <1>1, <1>4, <2>1, ReservedSame
  <1>14. KnowsOf(m.cpu, m.pending, k2, b2)
    BY <1>1, <1>2, <1>4, KnowsArrived
  <1>15. ActiveOf(m.active, k2)
    BY <1>1, <1>2, <1>4, ActiveArrived
  <1>16. HostAt(m, k2, b2, {})
    BY <1>1, <1>4, <1>8, <1>11, <1>12, <1>13, <1>14, <1>15 DEF HostAt
  <1> QED BY <1>4, <1>9, <1>10, <1>16 DEF AppOf

Decided(t, i) ==
    CASE t.kind = "Warm" ->
           Bind(StartInvocation(t.host, t.container, i), LAMBDA g :
                IfFull(g, t.container, Cardinality(Invocations(g, t.container))))
      [] t.kind = "Cold" -> EnterReservation(t.host, t.container, i)
      [] t.kind = "Rejected" -> Enqueue(t.host, i)

LEMMA HostInvokeIs ==
    ASSUME NEW h, NEW i, NEW a, NEW m, m = Arrived(h, i, NewEntry(a)), NEW t, t = TryInvoke(m, a)
    PROVE  HostInvoke(h, i, a) = Decided(t, i)
  <1>1. HostInvoke(h, i, a) = Bind(TryInvoke(Arrived(h, i, NewEntry(a)), a), LAMBDA u : Decided(u, i))
    BY Zenon DEF HostInvoke, Decided, Arrived, NewEntry
  <1>2. Bind(TryInvoke(m, a), LAMBDA u : Decided(u, i)) = Decided(t, i)
    BY Zenon DEF Bind
  <1> QED BY <1>1, <1>2, Zenon

LEMMA DecidedIs ==
    ASSUME NEW t, NEW i, NEW m, m = StartInvocation(t.host, t.container, i)
    PROVE  /\ t.kind = "Warm" =>
                Decided(t, i) = IfFull(m, t.container, Cardinality(Invocations(m, t.container)))
           /\ t.kind = "Cold" => Decided(t, i) = EnterReservation(t.host, t.container, i)
           /\ t.kind = "Rejected" => Decided(t, i) = Enqueue(t.host, i)
  <1>1. Bind(StartInvocation(t.host, t.container, i), LAMBDA g :
                IfFull(g, t.container, Cardinality(Invocations(g, t.container))))
          = IfFull(m, t.container, Cardinality(Invocations(m, t.container)))
    BY DEF Bind
  <1> QED BY <1>1 DEF Decided

\* What is in the queue cannot be served still.
LEMMA ServedStill ==
    ASSUME NEW h, NEW q, NEW iv, NEW m, NEW g, NEW a, SameHopesOf(m, h), ~ Hopeless(m, a),
           Hardens(g, m, a), \A p \in DOMAIN q : AppOf(h, q[p]) \in App,
           \A p \in DOMAIN q : AppOf(g, q[p]) = AppOf(h, q[p]),
           \A p \in DOMAIN q : iv = "Naive" \/ p = 1 => Hopeless(h, AppOf(h, q[p]))
    PROVE  \A p \in DOMAIN q : iv = "Naive" \/ p = 1 => Hopeless(g, AppOf(g, q[p]))
  BY DEF SameHopesOf, Hardens

LEMMA QueueLonger ==
    ASSUME NEW q \in Seq(Nat), NEW i \in Nat, i \notin Range(q), IsInjective(q)
    PROVE  /\ Append(q, i) \in Seq(Nat) /\ IsInjective(Append(q, i))
           /\ Range(Append(q, i)) = Range(q) \cup {i}
           /\ \A p \in DOMAIN Append(q, i) :
                (p \in DOMAIN q /\ Append(q, i)[p] = q[p]) \/ Append(q, i)[p] = i
  <1>1. /\ IsInjective(Append(q, i)) /\ Range(Append(q, i)) = Range(q) \cup {i}
    BY AppendDistinct
  <1> QED BY <1>1

LEMMA InvokeKeeps ==
    ASSUME NEW h, NEW k, NEW b, HostAt(h, k, b, {}), Settled(h, k), Served(h),
           NEW i \in Nat \ {0}, i \notin DOMAIN k, NEW a \in App, NEW g, g = HostInvoke(h, i, a)
    PROVE  /\ \E k2, b2 : HostAt(g, k2, b2, {}) /\ Settled(g, k2) /\ DOMAIN k2 = DOMAIN k \cup {i}
           /\ Served(g) /\ g.invoker = h.invoker
  <1>1. PICK e, m : e = NewEntry(a) /\ m = Arrived(h, i, e)
    OBVIOUS
  <1>2. PICK t : t = TryInvoke(m, a)
    OBVIOUS
  <1>3. g = Decided(t, i)
    BY <1>1, <1>2, HostInvokeIs
  <1>4. /\ DOMAIN k = DOMAIN h.registry /\ DOMAIN b = DOMAIN k
        /\ \A j \in DOMAIN k : AppOf(h, j) \in App
    BY DEF HostAt, EntriesOf, EntryAgrees, AppOf
  <1>5. PICK k1, b1 : Extended(k1, b1, k, b, i)
    BY <1>4, ExtendedExists
  <1>6. /\ HostAt(m, k1, b1, {}) /\ SameBooks(m, h) /\ SameQueue(m, h)
        /\ AppOf(m, i) = a /\ \A j \in DOMAIN k : AppOf(m, j) = AppOf(h, j)
    BY <1>1, <1>5, ArriveKeeps
  <1>7. Offers(t, m, k1, b1, a)
    BY <1>2, <1>6, TryInvokeKeeps
  <1>8. SameHopesOf(m, h)
    BY <1>6, SameHopes DEF SameHopesOf
  <1>9. PICK q : q = h.queue
    OBVIOUS
  <1>10. /\ q \in Seq(Nat) /\ IsInjective(q) /\ Range(q) = Nowhere(k) /\ i \notin Range(q)
         /\ \A j \in DOMAIN k : k[j] \notin {"starting", "entered", "ending"}
         /\ \A p \in DOMAIN q : q[p] \in DOMAIN k
         /\ m.queue = q /\ m.invoker = h.invoker
    <2>1. /\ q \in Seq(Nat) /\ IsInjective(q) /\ Range(q) = Nowhere(k)
          /\ \A j \in DOMAIN k : k[j] \notin {"starting", "entered", "ending"}
      BY <1>9 DEF Settled, Nowhere
    <2>2. \A p \in DOMAIN q : q[p] \in Range(q)
      BY DEF Range
    <2>3. Nowhere(k) \subseteq DOMAIN k
      BY DEF Nowhere
    <2> QED BY <1>6, <1>9, <2>1, <2>2, <2>3 DEF SameQueue
  <1>11. \A p \in DOMAIN q : h.invoker = "Naive" \/ p = 1 => Hopeless(h, AppOf(h, q[p]))
    BY <1>9 DEF Served
  <1>12. /\ DOMAIN k1 = DOMAIN k \cup {i} /\ DOMAIN b1 = DOMAIN k1 /\ i \in DOMAIN k1
         /\ k1[i] = "nowhere" /\ \A j \in DOMAIN k : k1[j] = k[j]
         /\ \A j \in DOMAIN k1 : k1[j] \notin {"starting", "entered", "ending"}
    BY <1>4, <1>5, <1>10 DEF Extended
  <1>13. \A p \in DOMAIN q : AppOf(h, q[p]) \in App /\ AppOf(m, q[p]) = AppOf(h, q[p])
    BY <1>4, <1>6, <1>10
  <1>14. CASE t.kind = "Rejected"
    <2>1. t.host = m /\ Hopeless(m, a)
      BY <1>7, <1>14 DEF Offers
    <2>2. g = Enqueue(m, i)
      BY <1>3, <1>14, <2>1, DecidedIs
    <2>3. Queues(g, m, i)
      BY <1>6, <2>2, EnqueueDoes DEF HostAt
    <2>4. HostAt(g, k1, b1, {})
      BY <1>6, <2>3 DEF HostAt, Queues, SameBooks
    <2>5. g.queue = Append(q, i) /\ g.invoker = h.invoker /\ g.registry = m.registry /\ SameBooks(g, m)
      BY <1>10, <2>3 DEF Queues
    <2>6. /\ Append(q, i) \in Seq(Nat) /\ IsInjective(Append(q, i))
          /\ Range(Append(q, i)) = Range(q) \cup {i}
          /\ \A p \in DOMAIN Append(q, i) :
                (p \in DOMAIN q /\ Append(q, i)[p] = q[p]) \/ Append(q, i)[p] = i
      BY <1>10, QueueLonger
    <2>7. Settled(g, k1)
      <3>1. {j \in DOMAIN k1 : k1[j] = "nowhere"} = Range(q) \cup {i}
        BY <1>10, <1>12 DEF Nowhere
      <3> QED BY <1>12, <2>5, <2>6, <3>1 DEF Settled
    <2>8. Served(g)
      <3>1. SameHopesOf(g, m)
        BY <2>5, SameHopes DEF SameHopesOf
      <3>2. SameHopesOf(g, h)
        BY <1>8, <3>1 DEF SameHopesOf
      <3> SUFFICES ASSUME NEW p \in DOMAIN Append(q, i), h.invoker = "Naive" \/ p = 1
                   PROVE  Hopeless(g, AppOf(g, Append(q, i)[p]))
        BY <2>5 DEF Served
      <3>3. CASE p \in DOMAIN q /\ Append(q, i)[p] = q[p]
        <4>1. Hopeless(h, AppOf(h, q[p]))
          BY <1>11, <3>3
        <4>2. AppOf(g, q[p]) = AppOf(h, q[p])
          BY <1>13, <2>5, <3>3 DEF AppOf
        <4> QED BY <3>2, <3>3, <4>1, <4>2 DEF SameHopesOf
      <3>4. CASE Append(q, i)[p] = i
        <4>1. AppOf(g, i) = a
          BY <1>6, <2>5 DEF AppOf
        <4> QED BY <2>1, <3>1, <3>4, <4>1 DEF SameHopesOf
      <3> QED BY <2>6, <3>3, <3>4
    <2> QED BY <1>12, <2>4, <2>5, <2>7, <2>8
  <1>15. CASE t.kind # "Rejected"
    <2>1. PICK c, G : c = t.container /\ G = t.host
      OBVIOUS
    <2>2. /\ HostAt(G, k1, b1, {}) /\ SameRegistry(G, m) /\ Hardens(G, m, a) /\ ~ Hopeless(m, a)
          /\ t.kind \in {"Warm", "Cold"} /\ c \in DOMAIN G.containers
          /\ G.containers[c].app = a /\ c \in Range(G.free[a])
          /\ t.kind = "Warm" => G.containers[c].status \in {"Idle", "Running"}
          /\ t.kind = "Cold" => G.containers[c].status = "Deploying"
      BY <1>7, <1>15, <2>1 DEF Offers
    <2>3. ASSUME NEW w, w \in {"told", "reserved"}, NEW k2, NEW b2, Moved(k2, b2, k1, b1, i, w, c),
                 HostAt(g, k2, b2, {}), Admits(g, G, a)
          PROVE  /\ \E k3, b3 : HostAt(g, k3, b3, {}) /\ Settled(g, k3) /\ DOMAIN k3 = DOMAIN k \cup {i}
                 /\ Served(g) /\ g.invoker = h.invoker
      <3>1. g.queue = q /\ g.invoker = h.invoker
        BY <1>10, <2>2, <2>3 DEF Admits, SameQueue, SameRegistry
      <3>2. DOMAIN k2 = DOMAIN k \cup {i} /\ k2[i] = w /\ \A j \in DOMAIN k : k2[j] = k[j]
        BY <1>12, <2>3 DEF Moved
      <3>3. Settled(g, k2)
        <4>1. \A j \in DOMAIN k2 : k2[j] \notin {"starting", "entered", "ending"}
          BY <1>10, <2>3, <3>2
        <4>2. {j \in DOMAIN k2 : k2[j] = "nowhere"} = Range(q)
          BY <1>10, <2>3, <3>2 DEF Nowhere
        <4> QED BY <1>10, <3>1, <4>1, <4>2 DEF Settled
      <3>4. Hardens(g, m, a)
        BY <2>2, <2>3 DEF Admits, Hardens
      <3>5. \A p \in DOMAIN q : AppOf(g, q[p]) = AppOf(h, q[p])
        <4>1. DOMAIN m.registry = DOMAIN k1
          BY <1>6 DEF HostAt, EntriesOf
        <4>2. SameApps(g, G) /\ G.registry = m.registry
          BY <2>2, <2>3 DEF Admits, SameRegistry
        <4>3. \A p \in DOMAIN q : q[p] \in DOMAIN m.registry
          BY <1>10, <1>12, <4>1
        <4>4. \A p \in DOMAIN q : AppOf(g, q[p]) = AppOf(m, q[p])
          BY <4>2, <4>3 DEF SameApps, AppOf
        <4> QED BY <1>13, <4>4
      <3>6. \A p \in DOMAIN q : h.invoker = "Naive" \/ p = 1 => Hopeless(g, AppOf(g, q[p]))
        BY <1>8, <1>11, <1>13, <2>2, <3>4, <3>5, ServedStill
      <3>7. Served(g)
        BY <3>1, <3>6 DEF Served
      <3> QED BY <2>3, <3>1, <3>2, <3>3, <3>7
    <2>4. CASE t.kind = "Warm"
      <3>1. PICK s : s = StartInvocation(G, c, i)
        OBVIOUS
      <3>2. g = IfFull(s, c, Cardinality(Invocations(s, c)))
        BY <1>3, <2>1, <2>4, <3>1, DecidedIs
      <3>3. PICK k2, b2 : Moved(k2, b2, k1, b1, i, "told", c)
        BY <1>12, MoveExists
      <3>4. HostAt(g, k2, b2, {}) /\ Admits(g, G, a)
        BY <1>12, <2>2, <2>4, <3>1, <3>2, <3>3, InvokeWarm
      <3> QED BY <2>3, <3>3, <3>4
    <2>5. CASE t.kind = "Cold"
      <3>1. g = EnterReservation(G, c, i)
        BY <1>3, <2>1, <2>5, DecidedIs
      <3>2. PICK k2, b2 : Moved(k2, b2, k1, b1, i, "reserved", c)
        BY <1>12, MoveExists
      <3>3. HostAt(g, k2, b2, {})
        BY <1>12, <2>2, <2>5, <3>1, <3>2, ReserveKeeps
      <3>4. Admits(g, G, a)
        BY <1>12, <2>2, <3>1, ReserveAdmits
      <3> QED BY <2>3, <3>2, <3>3, <3>4
    <2> QED BY <2>2, <2>4, <2>5
  <1> QED BY <1>14, <1>15
-----------------------------------------------------------------------------
(* A host between two events.                                              *)

Sound(h) == HostInv(h) /\ Served(h)

\* The host is sound, and knows the same invocations.
Follows(g, h) == Sound(g) /\ DOMAIN g.registry = DOMAIN h.registry /\ g.invoker = h.invoker

LEMMA KindsKnown ==
    ASSUME NEW h, NEW k, NEW b, NEW X, HostAt(h, k, b, X)
    PROVE  DOMAIN k = DOMAIN h.registry
  BY DEF HostAt, EntriesOf

LEMMA DequeueSound ==
    ASSUME NEW h, NEW k, NEW b, HostAt(h, k, b, {}), Settled(h, k),
           NEW g, g = DequeueRequests(h)
    PROVE  Follows(g, h)
  <1>1. PICK k2, b2 : /\ HostAt(g, k2, b2, {}) /\ Settled(g, k2) /\ DOMAIN k2 = DOMAIN k
                      /\ Served(g) /\ g.invoker = h.invoker
    BY DequeueKeeps
  <1>2. DOMAIN k2 = DOMAIN g.registry /\ DOMAIN k = DOMAIN h.registry
    BY <1>1, KindsKnown
  <1>3. HostInv(g)
    BY <1>1 DEF HostInv
  <1> QED BY <1>1, <1>2, <1>3 DEF Follows, Sound

LEMMA StartSound ==
    ASSUME NEW h, Sound(h), NEW c, BagIn(ContainerStart(c), h.pending), NEW d, Decides(h, c, d),
           NEW m, m = OnContainerStart(Delivered(h, ContainerStart(c)), c, d),
           NEW g, g = DequeueRequests(m)
    PROVE  Follows(g, h)
  <1>1. PICK k, b : HostAt(h, k, b, {}) /\ Settled(h, k)
    BY DEF Sound, HostInv
  <1>2. PICK k2 : /\ HostAt(m, k2, b, {}) /\ Settled(m, k2) /\ DOMAIN k2 = DOMAIN k
                  /\ m.invoker = h.invoker
    BY <1>1, OnStartKeeps
  <1>3. Follows(g, m)
    BY <1>2, DequeueSound
  <1>4. DOMAIN k2 = DOMAIN m.registry /\ DOMAIN k = DOMAIN h.registry
    BY <1>1, <1>2, KindsKnown
  <1> QED BY <1>2, <1>3, <1>4 DEF Follows

LEMMA EndSound ==
    ASSUME NEW h, Sound(h), NEW c, BagIn(ContainerEnd(c), h.pending),
           NEW m, m = OnContainerEnd(Delivered(h, ContainerEnd(c)), c),
           NEW g, g = DequeueRequests(m)
    PROVE  Follows(g, h)
  <1>1. PICK k, b : HostAt(h, k, b, {}) /\ Settled(h, k)
    BY DEF Sound, HostInv
  <1>2. HostAt(m, k, b, {}) /\ Settled(m, k) /\ m.invoker = h.invoker
    BY <1>1, OnEndKeeps
  <1>3. Follows(g, m)
    BY <1>2, DequeueSound
  <1>4. DOMAIN k = DOMAIN m.registry /\ DOMAIN k = DOMAIN h.registry
    BY <1>1, <1>2, KindsKnown
  <1> QED BY <1>2, <1>3, <1>4 DEF Follows

LEMMA InvocationEndSound ==
    ASSUME NEW h, Sound(h), NEW i \in DOMAIN h.registry, MayEnd(h, i),
           NEW d, Decides(h, h.registry[i].container, d),
           NEW m, m = OnInvocationEnd(Delivered(h, InvocationEnd(i)), i, d),
           NEW g, g = DequeueRequests(m)
    PROVE  Follows(g, h)
  <1>1. PICK k, b : HostAt(h, k, b, {}) /\ Settled(h, k)
    BY DEF Sound, HostInv
  <1>2. DOMAIN k = DOMAIN h.registry
    BY <1>1, KindsKnown
  <1>3. PICK c : c = h.registry[i].container
    OBVIOUS
  <1>4. PICK k2 : /\ HostAt(m, k2, b, {}) /\ Settled(m, k2) /\ DOMAIN k2 = DOMAIN k
                  /\ m.invoker = h.invoker
    BY <1>1, <1>2, <1>3, OnInvocationEndKeeps
  <1>5. Follows(g, m)
    BY <1>4, DequeueSound
  <1>6. DOMAIN k2 = DOMAIN m.registry
    BY <1>4, KindsKnown
  <1> QED BY <1>2, <1>4, <1>5, <1>6 DEF Follows

LEMMA InvokeSound ==
    ASSUME NEW h, Sound(h), NEW i \in Nat \ {0}, i \notin DOMAIN h.registry, NEW a \in App,
           NEW g, g = HostInvoke(h, i, a)
    PROVE  Sound(g) /\ DOMAIN g.registry = DOMAIN h.registry \cup {i} /\ g.invoker = h.invoker
  <1>1. PICK k, b : HostAt(h, k, b, {}) /\ Settled(h, k) /\ Served(h)
    BY DEF Sound, HostInv
  <1>2. DOMAIN k = DOMAIN h.registry
    BY <1>1, KindsKnown
  <1>3. PICK k2, b2 : /\ HostAt(g, k2, b2, {}) /\ Settled(g, k2) /\ DOMAIN k2 = DOMAIN k \cup {i}
                      /\ Served(g) /\ g.invoker = h.invoker
    BY <1>1, <1>2, InvokeKeeps
  <1>4. DOMAIN k2 = DOMAIN g.registry
    BY <1>3, KindsKnown
  <1>5. HostInv(g)
    BY <1>3 DEF HostInv
  <1> QED BY <1>2, <1>3, <1>4, <1>5 DEF Sound

LEMMA DeploySound ==
    ASSUME NEW h, Sound(h), NEW a \in App, NEW g, g = HostTryDeploy(h, a)
    PROVE  Follows(g, h)
  <1>1. PICK k, b : HostAt(h, k, b, {}) /\ Settled(h, k) /\ Served(h)
    BY DEF Sound, HostInv
  <1>2. CASE ~ CanAllocate(h, a)
    <2>1. g = h
      BY <1>2 DEF HostTryDeploy
    <2> QED BY <2>1 DEF Follows
  <1>3. CASE CanAllocate(h, a)
    <2>1. g = DeployContainer(h, a)
      BY <1>3 DEF HostTryDeploy
    <2>2. Deploys(g, h, a)
      BY <1>1, <2>1, DeployDoes DEF HostAt
    <2>3. HostAt(g, k, b, {})
      BY <1>1, <1>3, <2>2, DeployKeeps
    <2>4. Hardens(g, h, a)
      BY <1>1, <2>2, DeployHardens
    <2>5. g.queue = h.queue /\ g.registry = h.registry /\ g.invoker = h.invoker
      BY <2>2 DEF Deploys, SameRegistry
    <2>6. Settled(g, k)
      BY <1>1, <2>5 DEF Settled
    <2>7. Served(g)
      <3>1. ~ Hopeless(h, a) /\ SameHopesOf(h, h)
        BY <1>3 DEF Hopeless, SameHopesOf
      <3>2. PICK q : q = h.queue
        OBVIOUS
      <3>3. \A p \in DOMAIN q : AppOf(h, q[p]) \in App /\ AppOf(g, q[p]) = AppOf(h, q[p])
        <4>1. \A p \in DOMAIN q : q[p] \in DOMAIN k
          BY <1>1, <3>2 DEF Settled, Range
        <4>2. \A j \in DOMAIN k : AppOf(h, j) \in App
          BY <1>1 DEF HostAt, EntriesOf, EntryAgrees, AppOf
        <4> QED BY <2>5, <4>1, <4>2 DEF AppOf
      <3>4. \A p \in DOMAIN q : h.invoker = "Naive" \/ p = 1 => Hopeless(h, AppOf(h, q[p]))
        BY <1>1, <3>2 DEF Served
      <3>5. \A p \in DOMAIN q : h.invoker = "Naive" \/ p = 1 => Hopeless(g, AppOf(g, q[p]))
        BY <2>4, <3>1, <3>3, <3>4, ServedStill
      <3> QED BY <2>5, <3>2, <3>5 DEF Served
    <2>8. HostInv(g)
      BY <2>3, <2>6 DEF HostInv
    <2> QED BY <2>5, <2>7, <2>8 DEF Follows, Sound
  <1> QED BY <1>2, <1>3

\* The end event of the cpu is chosen again.
Reended(h, n) == [h EXCEPT !.cpu.end = n]

Reends(g, h, n) ==
    /\ IsHost(g) /\ SameBooks(g, h) /\ SameRegistry(g, h) /\ g.pending = h.pending
    /\ g.cpu = EndSet(h.cpu, n)

LEMMA ReendedDoes ==
    ASSUME NEW h, IsHost(h), NEW n
    PROVE  Reends(Reended(h, n), h, n)
  <1> SUFFICES ASSUME NEW g, g = Reended(h, n)
               PROVE  Reends(g, h, n)
    OBVIOUS
  <1>1. PICK cs, nx, fr, fu, rs, ac, pd, cap, con, u, rg, iv, q :
          h = HostOf(cs, nx, fr, fu, rs, ac, pd, cap, con, u, rg, iv, q)
    BY DEF IsHost
  <1>2. g = HostOf(cs, nx, fr, fu, rs, ac, pd, cap, con, EndSet(u, n), rg, iv, q)
    BY <1>1 DEF HostOf, Reended, EndSet
  <1>3. IsHost(g)
    BY <1>2, HostIs
  <1>4. /\ h.containers = cs /\ h.next = nx /\ h.free = fr /\ h.full = fu
        /\ h.reservations = rs /\ h.active = ac /\ h.pending = pd /\ h.capacity = cap
        /\ h.consumed = con /\ h.cpu = u /\ h.registry = rg /\ h.invoker = iv
        /\ h.queue = q
    BY <1>1 DEF HostOf
  <1>5. /\ g.containers = cs /\ g.next = nx /\ g.free = fr /\ g.full = fu
        /\ g.reservations = rs /\ g.active = ac /\ g.pending = pd /\ g.capacity = cap
        /\ g.consumed = con /\ g.cpu = EndSet(u, n) /\ g.registry = rg /\ g.invoker = iv
        /\ g.queue = q
    BY <1>2 DEF HostOf
  <1> QED BY ONLY <1>3, <1>4, <1>5 DEF Reends, SameBooks, SameRegistry

LEMMA EndChosen ==
    ASSUME NEW u, NEW pd, NEW k, NEW b, KnowsOf(u, pd, k, b),
           \A j \in DOMAIN k : k[j] # "ending",
           NEW n, n \in (IF u.work = {} THEN {0} ELSE u.work),
           NEW v, v = EndSet(u, n)
    PROVE  KnowsOf(v, pd, k, b)
  <1>1. IsCpu(u) /\ Told(u, pd, k, b)
    BY DEF KnowsOf
  <1>2. /\ IsCpu(v) /\ v.policy = u.policy /\ v.waiting = u.waiting /\ v.queue = u.queue
        /\ v.work = u.work /\ v.end = n
    BY <1>1, EndSetIs
  <1>3. CASE u.policy = "Contended"
    <2>1. u.work = {j \in DOMAIN k : k[j] = "told"}
      BY <1>1, <1>3 DEF Told
    <2>2. n # 0 => n \in DOMAIN k /\ k[n] = "told"
      BY <2>1
    <2> QED BY <1>1, <1>2, <1>3, <2>2 DEF KnowsOf, Told
  <1>4. CASE u.policy = "Isolated"
    <2>1. n = 0
      BY <1>1, <1>4 DEF Told
    <2> QED BY <1>1, <1>2, <1>4, <2>1 DEF KnowsOf, Told
  <1>5. CASE u.policy = "Ignored"
    <2>1. n = 0
      BY <1>1, <1>5 DEF Told
    <2> QED BY <1>1, <1>2, <1>5, <2>1 DEF KnowsOf, Told
  <1> QED BY <1>1, <1>3, <1>4, <1>5 DEF Told

LEMMA RescheduledSound ==
    ASSUME NEW h, NEW m, Sound(m), NEW g, g \in Rescheduled(h, m)
    PROVE  Follows(g, m)
  <1>1. PICK k, b : HostAt(m, k, b, {}) /\ Settled(m, k) /\ Served(m)
    BY DEF Sound, HostInv
  <1>2. CASE g = m
    BY <1>2 DEF Follows
  <1>3. CASE g # m
    <2>1. PICK n : n \in (IF m.cpu.work = {} THEN {0} ELSE m.cpu.work) /\ g = Reended(m, n)
      BY <1>3 DEF Rescheduled, Reended, NoInvocation
    <2>2. Reends(g, m, n)
      BY <1>1, <2>1, ReendedDoes DEF HostAt
    <2>3. PICK u : u = m.cpu
      OBVIOUS
    <2>4. KnowsOf(u, m.pending, k, b) /\ g.cpu = EndSet(u, n)
      BY <1>1, <2>2, <2>3 DEF HostAt, Reends
    <2>5. \A j \in DOMAIN k : k[j] # "ending"
      BY <1>1 DEF Settled
    <2>6. KnowsOf(g.cpu, m.pending, k, b)
      BY <2>1, <2>3, <2>4, <2>5, EndChosen
    <2>7. HostAt(g, k, b, {})
      BY <1>1, <2>2, <2>6 DEF HostAt, Reends, SameBooks, SameRegistry
    <2>8. g.queue = m.queue /\ g.registry = m.registry /\ g.invoker = m.invoker /\ SameBooks(g, m)
      BY <2>2 DEF Reends, SameRegistry
    <2>9. Settled(g, k)
      BY <1>1, <2>8 DEF Settled
    <2>10. SameHopesOf(g, m)
      BY <2>8, SameHopes DEF SameHopesOf
    <2>11. Served(g)
      BY <1>1, <2>8, <2>10 DEF Served, SameHopesOf, AppOf
    <2>12. HostInv(g)
      BY <2>7, <2>9 DEF HostInv
    <2> QED BY <2>8, <2>11, <2>12 DEF Follows, Sound
  <1> QED BY <1>2, <1>3
-----------------------------------------------------------------------------
(* The platform.                                                           *)

PolicyKnown(p) == p.name \in {"Fixed", "Histogram"} /\ (p.name = "Fixed" => p.prewarm \in Int)

\* A window is kept only if its end is to come.
LEMMA NotedDecides ==
    ASSUME NEW h, HostInv(h), NEW c, NEW d, d \in NotedWindow(h, c)
    PROVE  Decides(h, c, d)
  <1>1. CASE d = Keep("TerminateNow", FALSE)
    BY <1>1 DEF Keep, Decides
  <1>2. CASE BagIn(ContainerEnd(c), h.pending) /\ d = Keep("OldWindow", FALSE)
    <2>1. PICK k, b : HostAt(h, k, b, {})
      BY DEF HostInv
    <2>2. CyclesOf(h.containers, h.reservations, h.pending, {})
      BY <2>1 DEF HostAt
    <2>3. Ends(h.pending, c) # 0
      <3>1. IsABag(h.pending)
        BY <2>2 DEF CyclesOf
      <3>2. \A f : BagIn(f, h.pending) <=> Copies(f, h.pending) > 0
        BY <3>1, CancelledCopies
      <3> QED BY <1>2, <3>2 DEF Ends
    <2>4. Ends(h.pending, c) = 1
      BY <2>2, <2>3 DEF CyclesOf, CycleOf
    <2>5. d.keep = "OldWindow"
      BY <1>2 DEF Keep
    <2> QED BY <2>4, <2>5 DEF Decides
  <1> QED BY <1>1, <1>2 DEF NotedWindow

LEMMA WindowDecides ==
    ASSUME NEW h, NEW c, NEW x, NEW y, NEW d, d = Window(x, y)
    PROVE  Decides(h, c, d)
  BY DEF Window, Keep, Decides

LEMMA FixedDecides ==
    ASSUME NEW h, HostInv(h), NEW c, NEW p, NEW d, d \in FixedKeepAlive(h, c, p)
    PROVE  Decides(h, c, d)
  BY NotedDecides, WindowDecides DEF FixedKeepAlive

LEMMA HistogramDecides ==
    ASSUME NEW h, HostInv(h), NEW c, NEW d, d \in HistogramKeepAlive(h, c)
    PROVE  Decides(h, c, d)
  BY NotedDecides, WindowDecides DEF HistogramKeepAlive

LEMMA KeepAliveDecides ==
    ASSUME NEW h, HostInv(h), NEW c, NEW p, PolicyKnown(p), NEW d, d \in KeepAliveDecisions(h, c, p)
    PROVE  Decides(h, c, d)
  <1>1. CASE p.name = "Fixed"
    BY <1>1, FixedDecides DEF KeepAliveDecisions
  <1>2. CASE p.name = "Histogram"
    BY <1>2, HistogramDecides DEF KeepAliveDecisions
  <1> QED BY <1>1, <1>2 DEF PolicyKnown

LEMMA IdleDecides ==
    ASSUME NEW h, HostInv(h), NEW c, NEW p, PolicyKnown(p), NEW d, d \in IdleDecisions(h, c, p)
    PROVE  Decides(h, c, d)
  <1>1. CASE d = Replace
    BY <1>1 DEF Replace, Decides
  <1>2. CASE d # Replace /\ p.name = "Fixed"
    <2>1. d \in FixedKeepAlive(h, c, p)
      BY <1>2 DEF IdleDecisions, PolicyKnown
    <2> QED BY <2>1, FixedDecides
  <1>3. CASE d # Replace /\ p.name = "Histogram"
    <2>1. d \in HistogramKeepAlive(h, c)
      BY <1>3 DEF IdleDecisions
    <2> QED BY <2>1, HistogramDecides
  <1> QED BY <1>1, <1>2, <1>3 DEF PolicyKnown

\* A new host is sound.
LEMMA NewHostSound ==
    ASSUME NEW cap, \A r \in DOMAIN cap : cap[r] \in Nat, NEW co, NEW iv,
           NEW po, po \in {"Ignored", "Isolated", "Contended"},
           NEW h, h = NewHost(cap, co, iv, po)
    PROVE  Sound(h) /\ h.invoker = iv /\ DOMAIN h.registry = {}
  <1>1. PICK e : e = <<>>
    OBVIOUS
  <1>2. DOMAIN e = {} /\ e \in Seq(Nat) /\ Range(e) = {} /\ IsInjective(e) /\ Len(e) = 0
    BY <1>1, EmptyDistinct
  <1>3. PICK u : u = NewCpu(po, co)
    OBVIOUS
  <1>4. PICK fr, fu, con : fr = [a \in App |-> <<>>] /\ fu = [a \in App |-> {}]
                           /\ con = [r \in DOMAIN cap |-> 0]
    OBVIOUS
  <1>5. h = HostOf(e, 0, fr, fu, e, 0, EmptyBag, cap, con, u, e, iv, e)
    BY <1>1, <1>3, <1>4 DEF NewHost, HostOf
  <1>6. /\ IsHost(h) /\ h.containers = e /\ h.next = 0 /\ h.free = fr /\ h.full = fu
        /\ h.reservations = e /\ h.active = 0 /\ h.pending = EmptyBag /\ h.capacity = cap
        /\ h.consumed = con /\ h.cpu = u /\ h.registry = e /\ h.invoker = iv /\ h.queue = e
    <2>1. IsHost(h)
      BY <1>5, HostIs
    <2> QED BY <1>5, <2>1 DEF HostOf
  <1>7. StockOf(e, 0)
    BY <1>2, FS_EmptySet DEF StockOf
  <1>8. BudgetOf(e, cap, con)
    <2>1. \A r : Used(e, r) = 0
      <3> SUFFICES ASSUME NEW r PROVE Used(e, r) = 0
        OBVIOUS
      <3>1. PICK S : S = {}
        OBVIOUS
      <3>2. PICK f : f = [c \in S |-> NeedOf(e[c].app, r)]
        OBVIOUS
      <3>3. f \in [S -> Nat] /\ \A x \in S : f[x] = 0
        BY <3>1, <3>2
      <3>4. IsFiniteSet(S)
        BY <3>1, FS_EmptySet
      <3>5. SumFunction(f) = 0
        BY <3>3, <3>4, SumOfZeros
      <3> QED BY <1>2, <3>1, <3>2, <3>5 DEF Used
    <2> QED BY <1>4, <2>1 DEF BudgetOf
  <1>9. ListsOf(e, fr, fu, e, e)
    <2>1. \A a \in App : fr[a] = e /\ fu[a] = {}
      BY <1>1, <1>4
    <2> QED BY <1>2, <1>4, <2>1 DEF ListsOf
  <1>10. EntriesOf(e, e, e) /\ Inside(e, e, e)
    BY <1>2, FS_EmptySet DEF EntriesOf, Inside
  <1>11. ReservedFor(e, e, e)
    <2>1. \A c : Held(e, e, {"reserved"}, c) = {} /\ Reservation(e, c) = <<>>
      BY <1>2 DEF Held, Reservation
    <2> QED BY <1>2, <2>1, ListEmpty DEF ReservedFor
  <1>12. IsABag(EmptyBag) /\ \A f : Copies(f, EmptyBag) = 0
    BY DEF IsABag, EmptyBag, Copies, BagIn, BagToSet, SetToBag
  <1>13. CyclesOf(e, e, EmptyBag, {})
    BY <1>2, <1>12 DEF CyclesOf, Starts, Ends
  <1>14. KnowsOf(u, EmptyBag, e, e)
    <2>1. u = CpuOf(po, co, 0, e, e, {}, 0, FALSE)
      BY <1>1, <1>3 DEF NewCpu, CpuOf, NoInvocation
    <2>2. IsCpu(u)
      BY <2>1, Zenon DEF IsCpu
    <2>3. u.policy = po /\ u.waiting = e /\ u.queue = e /\ u.work = {} /\ u.end = 0
      BY <2>1 DEF CpuOf
    <2>4. \A i : Answers(EmptyBag, i) = 0
      BY <1>12 DEF Answers
    <2>5. WaitingOf(u.waiting, u.queue, e, e)
      BY <1>2, <2>3 DEF WaitingOf
    <2>6. Told(u, EmptyBag, e, e)
      BY <1>2, <2>3, <2>4, <2>5 DEF Told
    <2> QED BY <2>2, <2>6 DEF KnowsOf
  <1>15. ActiveOf(0, e)
    <2>1. {j \in DOMAIN e : e[j] # "finished"} = {}
      BY <1>2
    <2> QED BY <2>1, FS_EmptySet DEF ActiveOf
  <1>16. HostAt(h, e, e, {})
    BY <1>6, <1>7, <1>8, <1>9, <1>10, <1>11, <1>13, <1>14, <1>15 DEF HostAt
  <1>17. Settled(h, e) /\ Served(h)
    BY <1>2, <1>6 DEF Settled, Served
  <1> QED BY <1>2, <1>6, <1>16, <1>17 DEF Sound, HostInv

\* The inductive invariant.
FaasInv ==
    /\ config \in Scenarios /\ arrived \in Nat
    /\ \A x \in DOMAIN hosts :
         /\ Sound(hosts[x]) /\ hosts[x].invoker = config.invoker
         /\ \A i \in DOMAIN hosts[x].registry : i <= arrived
    /\ \A e \in BagToSet(idleDeploys) : e.app \in App

\* Host x has handled an event.
LEMMA HostSet ==
    ASSUME FaasInv, NEW x \in DOMAIN hosts, NEW m, Follows(m, hosts[x]), SetHost(x, m),
           UNCHANGED <<config, arrived>>, \A e \in BagToSet(idleDeploys') : e.app \in App
    PROVE  FaasInv'
  <1>1. PICK g \in Rescheduled(hosts[x], m) : hosts' = [hosts EXCEPT ![x] = g]
    BY DEF SetHost
  <1>2. Follows(g, m)
    BY RescheduledSound DEF Follows
  <1>3. Follows(g, hosts[x])
    BY <1>2 DEF Follows
  <1>4. DOMAIN hosts' = DOMAIN hosts /\ \A y \in DOMAIN hosts : hosts'[y] = IF y = x THEN g ELSE hosts[y]
    BY <1>1
  <1>5. ASSUME NEW y \in DOMAIN hosts'
        PROVE  /\ Sound(hosts'[y]) /\ hosts'[y].invoker = config'.invoker
               /\ \A i \in DOMAIN hosts'[y].registry : i <= arrived'
    <2>1. CASE y = x
      BY <1>3, <1>4, <2>1 DEF Follows, FaasInv
    <2>2. CASE y # x
      BY <1>4, <1>5, <2>2 DEF FaasInv
    <2> QED BY <2>1, <2>2
  <1> QED BY <1>5 DEF FaasInv

LEMMA PolicyIsKnown ==
    ASSUME FaasInv
    PROVE  PolicyKnown(config.coldstart)
  BY ScenariosAssumption DEF FaasInv, PolicyKnown

LEMMA InitFaas == Init => FaasInv
  <1> SUFFICES ASSUME Init PROVE FaasInv
    OBVIOUS
  <1>1. config \in Scenarios /\ arrived = 0 /\ idleDeploys = EmptyBag
    BY DEF Init
  <1>2. BagToSet(idleDeploys) = {}
    BY <1>1 DEF BagToSet, EmptyBag, SetToBag
  <1>3. ASSUME NEW x \in DOMAIN hosts
        PROVE  /\ Sound(hosts[x]) /\ hosts[x].invoker = config.invoker
               /\ \A i \in DOMAIN hosts[x].registry : i <= arrived
    <2>1. DOMAIN hosts = DOMAIN config.hosts
      BY DEF Init
    <2>2. PICK cap, co, iv, po : /\ cap = config.hosts[x].capacity /\ co = config.hosts[x].cores
                                 /\ iv = config.invoker /\ po = config.cpu
      OBVIOUS
    <2>3. hosts[x] = NewHost(cap, co, iv, po)
      BY <1>3, <2>1, <2>2 DEF Init
    <2>4. (\A r \in DOMAIN cap : cap[r] \in Nat) /\ po \in {"Ignored", "Isolated", "Contended"}
      BY <1>1, <1>3, <2>1, <2>2, ScenariosAssumption
    <2>5. Sound(hosts[x]) /\ hosts[x].invoker = iv /\ DOMAIN hosts[x].registry = {}
      BY <2>3, <2>4, NewHostSound
    <2> QED BY <2>2, <2>5
  <1> QED BY <1>1, <1>2, <1>3 DEF FaasInv

LEMMA InvokeStep == FaasInv /\ Invoke => FaasInv'
  <1> SUFFICES ASSUME FaasInv, Invoke PROVE FaasInv'
    OBVIOUS
  <1>1. PICK i, a : i = arrived + 1 /\ a = config.trace[i]
    OBVIOUS
  <1>2. /\ arrived < Len(config.trace) /\ arrived' = i /\ UNCHANGED <<config, idleDeploys>>
    BY <1>1 DEF Invoke, RequestsLeft
  <1>3. PICK x : SetHost(x, HostInvoke(hosts[x], i, a))
    BY <1>1 DEF Invoke
  <1>4. PICK m : m = HostInvoke(hosts[x], i, a)
    OBVIOUS
  <1>5. PICK g \in Rescheduled(hosts[x], m) : hosts' = [hosts EXCEPT ![x] = g]
    BY <1>3, <1>4 DEF SetHost
  <1>6. arrived \in Nat /\ i \in Nat \ {0} /\ a \in App
    <2>1. arrived \in Nat /\ config \in Scenarios
      BY DEF FaasInv
    <2>2. i \in 1..Len(config.trace)
      BY <1>1, <1>2, <2>1
    <2> QED BY <1>1, <2>1, <2>2, ScenariosAssumption
  <1>7. DOMAIN hosts' = DOMAIN hosts /\ \A y \in DOMAIN hosts : hosts'[y] = IF y = x THEN g ELSE hosts[y]
    BY <1>5
  <1>8. ASSUME NEW y \in DOMAIN hosts'
        PROVE  /\ Sound(hosts'[y]) /\ hosts'[y].invoker = config'.invoker
               /\ \A j \in DOMAIN hosts'[y].registry : j <= arrived'
    <2>1. /\ Sound(hosts[y]) /\ hosts[y].invoker = config.invoker
          /\ \A j \in DOMAIN hosts[y].registry : j <= arrived
      BY <1>7, <1>8 DEF FaasInv
    <2>2. \A j \in DOMAIN hosts[y].registry : j \in Nat
      BY <2>1 DEF Sound, HostInv, HostAt, EntriesOf
    <2>3. CASE y = x
      <3>1. i \notin DOMAIN hosts[x].registry
        BY <1>1, <1>6, <2>1, <2>2, <2>3
      <3>2. Sound(m) /\ DOMAIN m.registry = DOMAIN hosts[x].registry \cup {i} /\ m.invoker = hosts[x].invoker
        BY <1>4, <1>6, <2>1, <2>3, <3>1, InvokeSound
      <3>3. Follows(g, m)
        BY <3>2, RescheduledSound
      <3>4. \A j \in DOMAIN hosts[y].registry : j <= i
        BY <1>1, <1>6, <2>1, <2>2
      <3> QED BY <1>2, <1>6, <1>7, <1>8, <2>1, <2>3, <3>2, <3>3, <3>4 DEF Follows
    <2>4. CASE y # x
      <3>1. hosts'[y] = hosts[y]
        BY <1>7, <1>8, <2>4
      <3>2. \A j \in DOMAIN hosts[y].registry : j <= i
        BY <1>1, <1>6, <2>1, <2>2
      <3> QED BY <1>2, <2>1, <3>1, <3>2
    <2> QED BY <2>3, <2>4
  <1>9. config' \in Scenarios /\ arrived' \in Nat
    BY <1>2, <1>6 DEF FaasInv
  <1>10. \A e \in BagToSet(idleDeploys') : e.app \in App
    BY <1>2 DEF FaasInv
  <1> QED BY <1>8, <1>9, <1>10 DEF FaasInv

LEMMA IdleDeployStep == FaasInv /\ IdleDeploy => FaasInv'
  <1> SUFFICES ASSUME FaasInv, IdleDeploy PROVE FaasInv'
    OBVIOUS
  <1>1. PICK e \in BagToSet(idleDeploys) :
          /\ idleDeploys' = idleDeploys (-) SetToBag({e})
          /\ LET x == IF invocations[e.app] = e.expected
                      THEN DeployerHost(hosts, e.app, config.deployer) ELSE 0
             IN hosts' = IF x = 0 THEN hosts
                         ELSE [hosts EXCEPT ![x] = HostTryDeploy(@, e.app)]
          /\ UNCHANGED <<config, arrived>>
    BY DEF IdleDeploy
  <1>2. PICK a : a = e.app
    OBVIOUS
  <1>3. a \in App
    BY <1>2 DEF FaasInv
  <1>4. \E x : hosts' = hosts \/ hosts' = [hosts EXCEPT ![x] = HostTryDeploy(hosts[x], a)]
    BY <1>1, <1>2
  <1>5. PICK x : hosts' = hosts \/ hosts' = [hosts EXCEPT ![x] = HostTryDeploy(hosts[x], a)]
    BY <1>4
  <1>6. /\ DOMAIN hosts' = DOMAIN hosts
        /\ \A y \in DOMAIN hosts : hosts'[y] = hosts[y] \/ hosts'[y] = HostTryDeploy(hosts[y], a)
    BY <1>5
  <1>7. ASSUME NEW y \in DOMAIN hosts'
        PROVE  /\ Sound(hosts'[y]) /\ hosts'[y].invoker = config'.invoker
               /\ \A i \in DOMAIN hosts'[y].registry : i <= arrived'
    <2>1. /\ Sound(hosts[y]) /\ hosts[y].invoker = config.invoker
          /\ \A i \in DOMAIN hosts[y].registry : i <= arrived
      BY <1>6, <1>7 DEF FaasInv
    <2>2. PICK g : g = HostTryDeploy(hosts[y], a)
      OBVIOUS
    <2>3. Follows(g, hosts[y])
      BY <1>3, <2>1, <2>2, DeploySound
    <2> QED BY <1>1, <1>6, <1>7, <2>1, <2>2, <2>3 DEF Follows
  <1>8. BagToSet(idleDeploys') \subseteq BagToSet(idleDeploys)
    BY <1>1 DEF BagToSet, (-), SetToBag
  <1> QED BY <1>1, <1>7, <1>8 DEF FaasInv

LEMMA ContainerStartStep ==
    ASSUME FaasInv, NEW x \in DOMAIN hosts, NEW c, DeliverContainerStart(x, c)
    PROVE  FaasInv'
  <1>1. PICK h : h = hosts[x]
    OBVIOUS
  <1>2. /\ BagIn(ContainerStart(c), h.pending) /\ UNCHANGED <<config, arrived, idleDeploys>>
    BY <1>1 DEF DeliverContainerStart
  <1>3. PICK d \in KeepAliveDecisions(h, c, config.coldstart) :
          SetHost(x, DequeueRequests(OnContainerStart(Delivered(h, ContainerStart(c)), c, d)))
    BY <1>1 DEF DeliverContainerStart
  <1>4. Sound(h)
    BY <1>1 DEF FaasInv
  <1>5. Decides(h, c, d)
    BY <1>3, <1>4, PolicyIsKnown, KeepAliveDecides DEF Sound
  <1>6. PICK m, g : /\ m = OnContainerStart(Delivered(h, ContainerStart(c)), c, d)
                    /\ g = DequeueRequests(m)
    OBVIOUS
  <1>7. Follows(g, h)
    BY <1>2, <1>4, <1>5, <1>6, StartSound
  <1>8. SetHost(x, g)
    BY <1>3, <1>6
  <1>9. \A e \in BagToSet(idleDeploys') : e.app \in App
    BY <1>2 DEF FaasInv
  <1> QED BY <1>1, <1>2, <1>7, <1>8, <1>9, HostSet

LEMMA ContainerEndStep ==
    ASSUME FaasInv, NEW x \in DOMAIN hosts, NEW c, DeliverContainerEnd(x, c)
    PROVE  FaasInv'
  <1>1. PICK h : h = hosts[x]
    OBVIOUS
  <1>2. /\ BagIn(ContainerEnd(c), h.pending) /\ UNCHANGED <<config, arrived, idleDeploys>>
    BY <1>1 DEF DeliverContainerEnd
  <1>3. SetHost(x, DequeueRequests(OnContainerEnd(Delivered(h, ContainerEnd(c)), c)))
    BY <1>1 DEF DeliverContainerEnd
  <1>4. Sound(h)
    BY <1>1 DEF FaasInv
  <1>6. PICK m, g : /\ m = OnContainerEnd(Delivered(h, ContainerEnd(c)), c)
                    /\ g = DequeueRequests(m)
    OBVIOUS
  <1>7. Follows(g, h)
    BY <1>2, <1>4, <1>6, EndSound
  <1>8. SetHost(x, g)
    BY <1>3, <1>6
  <1>9. \A e \in BagToSet(idleDeploys') : e.app \in App
    BY <1>2 DEF FaasInv
  <1> QED BY <1>1, <1>2, <1>7, <1>8, <1>9, HostSet

LEMMA InvocationEndStep ==
    ASSUME FaasInv, NEW x \in DOMAIN hosts, NEW i \in DOMAIN hosts[x].registry,
           DeliverInvocationEnd(x, i)
    PROVE  FaasInv'
  <1>1. PICK h, a, c : h = hosts[x] /\ a = AppOf(h, i) /\ c = h.registry[i].container
    OBVIOUS
  <1>3. PICK d \in IdleDecisions(h, c, config.coldstart) :
          /\ SetHost(x, DequeueRequests(OnInvocationEnd(Delivered(h, InvocationEnd(i)), i, d)))
          /\ \/ idleDeploys' = idleDeploys
             \/ idleDeploys' = idleDeploys (+) SetToBag({[app |-> a, expected |-> invocations[a]]})
    BY <1>1 DEF DeliverInvocationEnd
  <1>4. Sound(h)
    BY <1>1 DEF FaasInv
  <1>5. Decides(h, c, d)
    BY <1>3, <1>4, PolicyIsKnown, IdleDecides DEF Sound
  <1>6. PICK m, g : /\ m = OnInvocationEnd(Delivered(h, InvocationEnd(i)), i, d)
                    /\ g = DequeueRequests(m)
    OBVIOUS
  <1>7. MayEnd(h, i) /\ UNCHANGED <<config, arrived>>
    BY <1>1 DEF MayEnd, DeliverInvocationEnd
  <1>8. Follows(g, h)
    BY <1>1, <1>4, <1>5, <1>6, <1>7, InvocationEndSound
  <1>9. SetHost(x, g)
    BY <1>3, <1>6
  <1>10. \A e \in BagToSet(idleDeploys') : e.app \in App
    <2>1. a \in App
      BY <1>1, <1>4 DEF Sound, HostInv, HostAt, EntriesOf, EntryAgrees, AppOf
    <2>2. PICK e : e = [app |-> a, expected |-> invocations[a]]
      OBVIOUS
    <2>3. e.app = a
      BY <2>2
    <2>4. \A B : BagToSet(B (+) SetToBag({e})) = BagToSet(B) \cup {e}
      BY DEF BagToSet, (+), SetToBag
    <2>5. \A f \in BagToSet(idleDeploys) : f.app \in App
      BY DEF FaasInv
    <2> QED BY <1>3, <2>1, <2>2, <2>3, <2>4, <2>5
  <1> QED BY <1>1, <1>7, <1>8, <1>9, <1>10, HostSet

LEMMA NextFaas == FaasInv /\ [Next]_vars => FaasInv'
  <1> SUFFICES ASSUME FaasInv, [Next]_vars PROVE FaasInv'
    OBVIOUS
  <1>1. CASE Invoke
    BY <1>1, InvokeStep
  <1>2. CASE IdleDeploy
    BY <1>2, IdleDeployStep
  <1>3. CASE \E x \in DOMAIN hosts : Event(x)
    <2>1. PICK x \in DOMAIN hosts : Event(x)
      BY <1>3
    <2>2. CASE \E c \in Deployed(x) : DeliverContainerStart(x, c)
      BY <2>2, ContainerStartStep
    <2>3. CASE \E c \in Deployed(x) : DeliverContainerEnd(x, c)
      BY <2>3, ContainerEndStep
    <2>4. CASE \E i \in DOMAIN hosts[x].registry : DeliverInvocationEnd(x, i)
      BY <2>4, InvocationEndStep
    <2> QED BY <2>1, <2>2, <2>3, <2>4 DEF Event
  <1>4. CASE UNCHANGED vars
    BY <1>4 DEF vars, FaasInv
  <1> QED BY <1>1, <1>2, <1>3, <1>4 DEF Next

\* Between any two events each host's containers, lists, reservations, registry, cpu,
\* queue and events agree on where every invocation is, and its queue has been served.
\* (host.rs, container.rs, invoker.rs, cpu.rs.)
THEOREM FaasSound == Spec => []FaasInv
  BY InitFaas, NextFaas, PTL DEF Spec
-----------------------------------------------------------------------------
(* Sums over a set, as the model writes them, are sums of functions.       *)

\* How often x is in the lists of F.
Times(F, x) == MapThenSumSet(LAMBDA c : Occurrences(F[c], x), DOMAIN F)

LEMMA TimesIsSum ==
    ASSUME NEW F, NEW x, IsFiniteSet(DOMAIN F), \A c \in DOMAIN F : Occurrences(F[c], x) \in Nat,
           NEW f, f = [c \in DOMAIN F |-> Occurrences(F[c], x)]
    PROVE  Times(F, x) = SumFunction(f)
  <1> DEFINE S == DOMAIN F
             step(g) == [s \in SUBSET S |->
                IF s = {} THEN 0
                ELSE Occurrences(F[CHOOSE y \in s : TRUE], x) + g[s \ {CHOOSE y \in s : TRUE}]]
             iter == CHOOSE g : g = step(g)
  <1>1. Times(F, x) = iter[S]
    BY DEF Times, MapThenSumSet, MapThenFoldSet
  <1>2. f \in [S -> Nat] /\ IsFiniteSet(S)
    OBVIOUS
  <1>3. \A g : step(g) = SumStep(f, S, g)
    BY DEF SumStep
  <1>4. PICK count : count = [s \in SUBSET S |-> Cardinality(UnitsOf(f, s))]
    OBVIOUS
  <1> HIDE DEF S
  <1>5. count = SumStep(f, S, count)
    BY <1>2, <1>4, SumStepCounts
  <1>6. iter = step(iter)
    <2>1. count = step(count)
      BY <1>3, <1>5
    <2> HIDE DEF step
    <2> QED BY <2>1
  <1> HIDE DEF iter, step
  <1>7. iter = SumStep(f, S, iter)
    BY <1>3, <1>6
  <1>8. iter[S] = SumFunction(f)
    BY <1>2, <1>7, SumStepUnique
  <1> QED BY <1>1, <1>8

\* What the containers of the host need of a resource.
Needed(h, r) ==
    MapThenSumSet(LAMBDA c : IF r \in DOMAIN Needs[h.containers[c].app]
                             THEN Needs[h.containers[c].app][r] ELSE 0,
                  Containers(h))

LEMMA NeededIsUsed ==
    ASSUME NEW h, NEW n, StockOf(h.containers, n), NEW r
    PROVE  Needed(h, r) = Used(h.containers, r)
  <1> DEFINE cs == h.containers
             S == DOMAIN cs
             step(g) == [s \in SUBSET S |->
                IF s = {} THEN 0
                ELSE NeedOf(cs[CHOOSE y \in s : TRUE].app, r) + g[s \ {CHOOSE y \in s : TRUE}]]
             iter == CHOOSE g : g = step(g)
  <1>1. Needed(h, r) = iter[S]
    BY DEF Needed, Containers, MapThenSumSet, MapThenFoldSet, NeedOf
  <1>2. PICK f : f = [c \in S |-> NeedOf(cs[c].app, r)]
    OBVIOUS
  <1>3. f \in [S -> Nat] /\ IsFiniteSet(S)
    BY <1>2, AppAssumption DEF StockOf, NeedOf
  <1>4. \A g : step(g) = SumStep(f, S, g)
    BY <1>2 DEF SumStep
  <1>5. PICK count : count = [s \in SUBSET S |-> Cardinality(UnitsOf(f, s))]
    OBVIOUS
  <1>6. Used(cs, r) = SumFunction(f)
    BY <1>2 DEF Used
  <1> HIDE DEF S
  <1>7. count = SumStep(f, S, count)
    BY <1>3, <1>5, SumStepCounts
  <1>8. iter = step(iter)
    <2>1. count = step(count)
      BY <1>4, <1>7
    <2> HIDE DEF step
    <2> QED BY <2>1
  <1> HIDE DEF iter, step
  <1>9. iter = SumStep(f, S, iter)
    BY <1>4, <1>8
  <1>10. iter[S] = SumFunction(f)
    BY <1>3, <1>9, SumStepUnique
  <1> QED BY <1>1, <1>6, <1>10
-----------------------------------------------------------------------------
(* Every invocation is in one place.                                       *)

LEMMA OccurrencesOf ==
    ASSUME NEW s, IsInjective(s), NEW x
    PROVE  Occurrences(s, x) = IF x \in Range(s) THEN 1 ELSE 0
  <1>1. CASE x \in Range(s)
    <2>1. PICK p \in DOMAIN s : s[p] = x
      BY <1>1 DEF Range
    <2>2. {j \in DOMAIN s : s[j] = x} = {p}
      BY <2>1 DEF IsInjective
    <2>3. Cardinality({p}) = 1
      BY FS_Singleton
    <2> QED BY <1>1, <2>2, <2>3 DEF Occurrences
  <1>2. CASE x \notin Range(s)
    <2>1. {j \in DOMAIN s : s[j] = x} = {}
      BY <1>2 DEF Range
    <2> QED BY <1>2, <2>1, FS_EmptySet DEF Occurrences
  <1> QED BY <1>1, <1>2

LEMMA TimesNever ==
    ASSUME NEW F, IsFiniteSet(DOMAIN F), \A c \in DOMAIN F : IsInjective(F[c]),
           NEW x, \A c \in DOMAIN F : x \notin Range(F[c])
    PROVE  Times(F, x) = 0
  <1>1. PICK S, f : S = DOMAIN F /\ f = [c \in S |-> Occurrences(F[c], x)]
    OBVIOUS
  <1>2. \A c \in DOMAIN F : Occurrences(F[c], x) = 0
    BY OccurrencesOf
  <1>3. f \in [S -> Nat] /\ \A c \in S : f[c] = 0
    BY <1>1, <1>2
  <1>4. SumFunction(f) = 0
    BY <1>1, <1>3, SumOfZeros
  <1>5. Times(F, x) = SumFunction(f)
    BY <1>1, <1>2, TimesIsSum
  <1> QED BY <1>4, <1>5

LEMMA TimesOnce ==
    ASSUME NEW F, IsFiniteSet(DOMAIN F), \A c \in DOMAIN F : IsInjective(F[c]),
           NEW x, NEW d \in DOMAIN F, \A c \in DOMAIN F : x \in Range(F[c]) <=> c = d
    PROVE  Times(F, x) = 1
  <1>1. PICK S, f, z : /\ S = DOMAIN F /\ f = [c \in S |-> Occurrences(F[c], x)]
                       /\ z = [c \in S |-> 0]
    OBVIOUS
  <1>2. \A c \in DOMAIN F : Occurrences(F[c], x) = IF c = d THEN 1 ELSE 0
    BY OccurrencesOf
  <1>3. f \in [S -> Nat] /\ f[d] = 1 /\ \A c \in S \ {d} : f[c] = 0
    BY <1>1, <1>2
  <1>4. z \in [S -> Nat] /\ z[d] = 0 /\ \A c \in S : z[c] = 0
    BY <1>1
  <1>5. SumFunction(z) = 0
    BY <1>1, <1>4, SumOfZeros
  <1>6. SumFunction(f) + z[d] = SumFunction(z) + f[d]
    BY <1>1, <1>3, <1>4, SumUpdated
  <1>7. SumFunction(f) \in Nat
    BY <1>1, <1>3, SumTyped
  <1>8. Times(F, x) = SumFunction(f)
    BY <1>1, <1>2, TimesIsSum
  <1> QED BY <1>3, <1>4, <1>5, <1>6, <1>7, <1>8

\* Lists that hold what is of some kinds in a container.
LEMMA TimesHeld ==
    ASSUME NEW F, NEW k, NEW b, NEW K, IsFiniteSet(DOMAIN k),
           \A c \in DOMAIN F : F[c] # <<>> /\ ListHolds(F[c], Held(k, b, K, c)), NEW i
    PROVE  Times(F, i) = IF i \in DOMAIN k /\ k[i] \in K /\ b[i] \in DOMAIN F THEN 1 ELSE 0
  <1>1. PICK B : B = {b[j] : j \in DOMAIN k}
    OBVIOUS
  <1>2. DOMAIN F \subseteq B
    <2> SUFFICES ASSUME NEW c \in DOMAIN F PROVE c \in B
      OBVIOUS
    <2>1. Held(k, b, K, c) # {}
      BY ListNonEmpty
    <2> QED BY <1>1, <2>1 DEF Held
  <1>3. IsFiniteSet(DOMAIN F)
    <2>1. PICK D, f : D = DOMAIN k /\ f = [j \in D |-> b[j]]
      OBVIOUS
    <2>2. f \in Surjection(D, B)
      BY <1>1, <2>1 DEF Surjection
    <2>3. IsFiniteSet(B)
      BY <2>1, <2>2, FS_Surjection
    <2> QED BY <1>2, <2>3, FS_Subset
  <1>4. \A c \in DOMAIN F : IsInjective(F[c]) /\ Range(F[c]) = Held(k, b, K, c)
    BY DEF ListHolds
  <1>5. CASE i \in DOMAIN k /\ k[i] \in K /\ b[i] \in DOMAIN F
    <2>1. \A c \in DOMAIN F : i \in Range(F[c]) <=> c = b[i]
      BY <1>4, <1>5 DEF Held
    <2>2. PICK d : d = b[i]
      OBVIOUS
    <2> QED BY <1>3, <1>4, <1>5, <2>1, <2>2, TimesOnce
  <1>6. CASE ~ (i \in DOMAIN k /\ k[i] \in K /\ b[i] \in DOMAIN F)
    <2>1. \A c \in DOMAIN F : i \notin Range(F[c])
      BY <1>4, <1>6 DEF Held
    <2>2. Times(F, i) = 0
      BY <1>3, <1>4, <2>1, TimesNever
    <2> QED BY <1>6, <2>2
  <1> QED BY <1>5, <1>6

LEMMA PlacesKnown ==
    ASSUME NEW h, NEW k, NEW b, HostAt(h, k, b, {}), Settled(h, k), NEW i \in DOMAIN k
    PROVE  Places(h, i) = IF k[i] = "finished" THEN 0 ELSE 1
  <1>1. /\ EntriesOf(h.registry, k, b) /\ Inside(h.containers, k, b)
        /\ ReservedFor(h.reservations, k, b)
    BY DEF HostAt
  <1>2. IsFiniteSet(DOMAIN k) /\ k[i] \in Kinds
    BY <1>1 DEF EntriesOf
  <1>3. k[i] \in {"nowhere", "reserved", "told", "finished"}
    BY <1>2 DEF Settled, Kinds, Holding, In
  <1>4. Occurrences(h.queue, i) = IF k[i] = "nowhere" THEN 1 ELSE 0
    <2>1. IsInjective(h.queue) /\ Range(h.queue) = {j \in DOMAIN k : k[j] = "nowhere"}
      BY DEF Settled
    <2> QED BY <2>1, OccurrencesOf
  <1>5. Times(h.reservations, i) = IF k[i] = "reserved" THEN 1 ELSE 0
    <2>1. \A c \in DOMAIN h.reservations :
            h.reservations[c] # <<>> /\ ListHolds(h.reservations[c], Held(k, b, {"reserved"}, c))
      BY <1>1 DEF ReservedFor, Reservation
    <2>2. k[i] = "reserved" => b[i] \in DOMAIN h.reservations
      <3> SUFFICES ASSUME k[i] = "reserved", b[i] \notin DOMAIN h.reservations PROVE FALSE
        OBVIOUS
      <3>1. ListHolds(<<>>, Held(k, b, {"reserved"}, b[i]))
        BY <1>1 DEF ReservedFor, Reservation
      <3>2. i \in Held(k, b, {"reserved"}, b[i])
        BY DEF Held
      <3> QED BY <3>1, <3>2, EmptyDistinct DEF ListHolds
    <2>3. PICK K : K = {"reserved"}
      OBVIOUS
    <2>4. Times(h.reservations, i)
            = IF i \in DOMAIN k /\ k[i] \in K /\ b[i] \in DOMAIN h.reservations THEN 1 ELSE 0
      BY <1>2, <2>1, <2>3, TimesHeld
    <2> QED BY <2>2, <2>3, <2>4
  <1>6. Cardinality({c \in Containers(h) : i \in Invocations(h, c)}) = IF k[i] = "told" THEN 1 ELSE 0
    <2>1. \A c \in Containers(h) : i \in Invocations(h, c) <=> (k[i] \in In /\ b[i] = c)
      BY <1>1 DEF Inside, Containers, Invocations, Held
    <2>2. k[i] \in In <=> k[i] = "told"
      BY <1>3 DEF In
    <2>3. k[i] = "told" => b[i] \in Containers(h)
      BY <1>1 DEF Inside, Holding, In, Containers
    <2>4. {c \in Containers(h) : i \in Invocations(h, c)} = IF k[i] = "told" THEN {b[i]} ELSE {}
      BY <2>1, <2>2, <2>3
    <2> QED BY <2>4, FS_Singleton, FS_EmptySet
  <1>7. Places(h, i) = Occurrences(h.queue, i) + Times(h.reservations, i)
                       + Cardinality({c \in Containers(h) : i \in Invocations(h, c)})
    BY DEF Places, Times
  <1> QED BY <1>3, <1>4, <1>5, <1>6, <1>7

LEMMA EndsKnown ==
    ASSUME NEW h, NEW k, NEW b, HostAt(h, k, b, {}), Settled(h, k), NEW i \in DOMAIN k
    PROVE  EndsToCome(h, i) = IF k[i] = "told" THEN 1 ELSE 0
  <1> DEFINE u == h.cpu
             pd == h.pending
  <1>1. Told(u, pd, k, b) /\ IsFiniteSet(DOMAIN k) /\ k[i] # "ending"
    BY DEF HostAt, KnowsOf, EntriesOf, Settled
  <1>2. EndsToCome(h, i) = Answers(pd, i) + Times(u.waiting, i) + (IF i \in u.work THEN 1 ELSE 0)
    BY DEF EndsToCome, Times, Answers
  <1> HIDE DEF u, pd
  <1>3. ASSUME DOMAIN u.waiting = {} PROVE Times(u.waiting, i) = 0
    <2>1. IsFiniteSet(DOMAIN u.waiting)
      BY <1>3, FS_EmptySet
    <2> QED BY <1>3, <2>1, TimesNever
  <1>4. CASE u.policy = "Ignored"
    <2>1. Answers(pd, i) = (IF k[i] = "told" THEN 1 ELSE 0) /\ u.work = {} /\ DOMAIN u.waiting = {}
      BY <1>1, <1>4 DEF Told
    <2> QED BY <1>2, <1>3, <2>1
  <1>5. CASE u.policy = "Contended"
    <2>1. Answers(pd, i) = 0 /\ (i \in u.work <=> k[i] = "told") /\ DOMAIN u.waiting = {}
      BY <1>1, <1>5 DEF Told
    <2> QED BY <1>2, <1>3, <2>1
  <1>6. CASE u.policy = "Isolated"
    <2>1. /\ Answers(pd, i) = (IF k[i] = "told" /\ b[i] \notin DOMAIN u.waiting THEN 1 ELSE 0)
          /\ u.work = {} /\ WaitingOf(u.waiting, u.queue, k, b)
      BY <1>1, <1>6 DEF Told
    <2>2. PICK K : K = {"told"}
      OBVIOUS
    <2>4. PICK w : w = u.waiting
      OBVIOUS
    <2>5. \A c \in DOMAIN w : w[c] # <<>> /\ ListHolds(w[c], Held(k, b, K, c))
      BY <2>1, <2>2, <2>4 DEF WaitingOf
    <2>3. Times(w, i) = IF i \in DOMAIN k /\ k[i] \in K /\ b[i] \in DOMAIN w THEN 1 ELSE 0
      BY <1>1, <2>5, TimesHeld
    <2> QED BY <1>2, <2>1, <2>2, <2>3, <2>4
  <1> QED BY <1>1, <1>4, <1>5, <1>6 DEF Told

LEMMA PlacedWhenSound ==
    ASSUME NEW h, Sound(h)
    PROVE  /\ \A i \in DOMAIN h.registry : InvocationPlaced(h, i)
           /\ h.active = Cardinality({i \in DOMAIN h.registry : h.registry[i].status # "Finished"})
  <1>1. PICK k, b : HostAt(h, k, b, {}) /\ Settled(h, k)
    BY DEF Sound, HostInv
  <1>2. /\ EntriesOf(h.registry, k, b) /\ Inside(h.containers, k, b)
        /\ ReservedFor(h.reservations, k, b) /\ ActiveOf(h.active, k)
    BY <1>1 DEF HostAt
  <1>3. DOMAIN k = DOMAIN h.registry /\ \A i \in DOMAIN k : EntryAgrees(h.registry[i], k[i], b[i])
    BY <1>2 DEF EntriesOf
  <1>4. \A i \in DOMAIN k : k[i] \in {"nowhere", "reserved", "told", "finished"}
    BY <1>1, <1>2 DEF EntriesOf, Settled, Kinds, Holding, In
  <1>5. ASSUME NEW i \in DOMAIN h.registry PROVE InvocationPlaced(h, i)
    <2>1. PICK s, c : s = h.registry[i].status /\ c = h.registry[i].container
      OBVIOUS
    <2>2. /\ s = "Queued" <=> k[i] = "nowhere"
          /\ s = "WaitingForContainer" <=> k[i] = "reserved"
          /\ s = "Running" <=> k[i] = "told"
          /\ s = "Finished" <=> k[i] = "finished"
          /\ k[i] \in {"reserved", "told"} => b[i] = c
      BY <1>3, <1>4, <2>1 DEF EntryAgrees
    <2>3. Places(h, i) = IF s = "Finished" THEN 0 ELSE 1
      BY <1>1, <1>3, <2>2, PlacesKnown
    <2>4. EndsToCome(h, i) = IF s = "Running" THEN 1 ELSE 0
      BY <1>1, <1>3, <2>2, EndsKnown
    <2>5. s = "Queued" => i \in Range(h.queue)
      BY <1>1, <1>3, <2>2 DEF Settled
    <2>6. s = "WaitingForContainer" => c \in Containers(h) /\ i \in Range(Reserved(h, c))
      <3> SUFFICES ASSUME s = "WaitingForContainer"
                   PROVE  c \in Containers(h) /\ i \in Range(Reserved(h, c))
        OBVIOUS
      <3>1. k[i] = "reserved" /\ b[i] = c /\ i \in DOMAIN k
        BY <1>3, <2>2
      <3>2. i \in Held(k, b, {"reserved"}, c)
        BY <3>1 DEF Held
      <3>3. Range(Reservation(h.reservations, c)) = Held(k, b, {"reserved"}, c)
        BY <1>2 DEF ReservedFor, ListHolds
      <3>4. Reserved(h, c) = Reservation(h.reservations, c)
        BY DEF Reserved, Reservation
      <3>5. c \in Containers(h)
        BY <1>2, <3>1 DEF Inside, Holding, Containers
      <3> QED BY <3>2, <3>3, <3>4, <3>5
    <2>7. s = "Running" => c \in Containers(h) /\ i \in Invocations(h, c)
      <3> SUFFICES ASSUME s = "Running"
                   PROVE  c \in Containers(h) /\ i \in Invocations(h, c)
        OBVIOUS
      <3>1. k[i] = "told" /\ b[i] = c /\ i \in DOMAIN k
        BY <1>3, <2>2
      <3>2. c \in Containers(h)
        BY <1>2, <3>1 DEF Inside, Holding, In, Containers
      <3>3. i \in Held(k, b, In, c)
        BY <3>1 DEF Held, In
      <3> QED BY <1>2, <3>2, <3>3 DEF Inside, Invocations, Containers
    <2> QED BY <2>1, <2>3, <2>4, <2>5, <2>6, <2>7 DEF InvocationPlaced
  <1>6. {i \in DOMAIN h.registry : h.registry[i].status # "Finished"}
          = {i \in DOMAIN k : k[i] # "finished"}
    BY <1>3 DEF EntryAgrees
  <1> QED BY <1>2, <1>5, <1>6 DEF ActiveOf

\* Every invocation is where the registry says, once, and those that run have one
\* end to come.  (host.rs, invoker.rs, container.rs.)
THEOREM InvocationsAlwaysPlaced == Spec => []InvocationsPlaced
  <1>1. FaasInv => InvocationsPlaced
    BY PlacedWhenSound DEF FaasInv, InvocationsPlaced
  <1> QED BY <1>1, FaasSound, PTL

-----------------------------------------------------------------------------
(* The containers are accounted for.                                       *)

LEMMA OccupancyIsHeld ==
    ASSUME NEW h, NEW k, NEW b, HostAt(h, k, b, {}), Settled(h, k), NEW c \in Containers(h)
    PROVE  Occupancy(h, c) = Cardinality(Held(k, b, Holding, c))
  <1>1. /\ EntriesOf(h.registry, k, b) /\ Inside(h.containers, k, b)
        /\ ReservedFor(h.reservations, k, b)
    BY DEF HostAt
  <1>2. PICK I, R : I = Held(k, b, In, c) /\ R = Held(k, b, {"reserved"}, c)
    OBVIOUS
  <1>3. Invocations(h, c) = I
    BY <1>1, <1>2 DEF Inside, Invocations, Containers
  <1>4. Len(Reserved(h, c)) = Cardinality(R)
    BY <1>1, <1>2 DEF ReservedFor, ListHolds, Reservation, Reserved
  <1>5. IsFiniteSet(I) /\ IsFiniteSet(R)
    <2>1. IsFiniteSet(DOMAIN k)
      BY <1>1 DEF EntriesOf
    <2>2. I \subseteq DOMAIN k /\ R \subseteq DOMAIN k
      BY <1>2 DEF Held
    <2> QED BY <2>1, <2>2, FS_Subset
  <1>6. Held(k, b, Holding, c) = I \cup R
    <2>1. \A j \in DOMAIN k : k[j] \in Holding <=> (k[j] \in In \/ k[j] = "reserved")
      BY DEF Settled, Holding
    <2> QED BY <1>2, <2>1 DEF Held
  <1>7. I \cap R = {}
    BY <1>2 DEF Held, In
  <1>8. Cardinality(I \cup R) = Cardinality(I) + Cardinality(R) - Cardinality(I \cap R)
    BY <1>5, FS_Union
  <1>9. Cardinality(I \cap R) = 0 /\ Cardinality(I) \in Nat /\ Cardinality(R) \in Nat
    BY <1>5, <1>7, FS_EmptySet, FS_CardinalityType
  <1> QED BY <1>3, <1>4, <1>6, <1>8, <1>9 DEF Occupancy

LEMMA ListedWhenSound ==
    ASSUME NEW h, NEW k, NEW b, HostAt(h, k, b, {}), Settled(h, k), NEW c \in Containers(h)
    PROVE  Listed(h, c)
  <1>1. ListsOf(h.containers, h.free, h.full, k, b) /\ StockOf(h.containers, h.next)
    BY DEF HostAt
  <1>2. PICK a, n : a = h.containers[c].app /\ n = Occupancy(h, c)
    OBVIOUS
  <1>3. a \in App /\ ListedAs(h.free, h.full, a, c, Cardinality(Held(k, b, Holding, c)))
    BY <1>1, <1>2 DEF ListsOf, StockOf, Containers
  <1>4. ListedAs(h.free, h.full, a, c, n)
    BY <1>2, <1>3, OccupancyIsHeld
  <1>5. Occurrences(h.free[a], c) = IF c \in Range(h.free[a]) THEN 1 ELSE 0
    BY <1>1, <1>3, OccurrencesOf DEF ListsOf
  <1> QED BY <1>2, <1>4, <1>5 DEF Listed, ListedAs

LEMMA CycleWhenSound ==
    ASSUME NEW h, NEW k, NEW b, HostAt(h, k, b, {}), NEW c \in Containers(h)
    PROVE  LifeCycle(h, c)
  <1>1. PICK s, e : s = Copies(ContainerStart(c), h.pending) /\ e = Copies(ContainerEnd(c), h.pending)
    OBVIOUS
  <1>2. CycleOf(h.containers[c].status, s, e, Invocations(h, c), Reserved(h, c))
    BY <1>1 DEF HostAt, CyclesOf, Starts, Ends, Containers, Invocations, Reserved, Reservation
  <1>3. PICK v, I, R : v = h.containers[c].status /\ I = Invocations(h, c) /\ R = Reserved(h, c)
    OBVIOUS
  <1>4. CASE v = "Deploying"
    <2>1. s = 1 /\ e = 0 /\ I = {}
      BY <1>2, <1>3, <1>4 DEF CycleOf
    <2> QED BY <1>1, <1>3, <1>4, <2>1 DEF LifeCycle
  <1>5. CASE v = "Running"
    <2>1. s = 0 /\ e <= 1 /\ I # {} /\ R = <<>>
      BY <1>2, <1>3, <1>5 DEF CycleOf
    <2> QED BY <1>1, <1>3, <1>5, <2>1 DEF LifeCycle
  <1>6. CASE v \in {"Idle", "Terminated"}
    <2>1. s = 0 /\ e = 1 /\ I = {} /\ R = <<>>
      BY <1>2, <1>3, <1>6 DEF CycleOf
    <2> QED BY <1>1, <1>3, <1>6, <2>1 DEF LifeCycle
  <1> QED BY <1>2, <1>3, <1>4, <1>5, <1>6 DEF CycleOf

LEMMA ReservationsWhenSound ==
    ASSUME NEW h, NEW k, NEW b, HostAt(h, k, b, {})
    PROVE  DOMAIN h.reservations \subseteq Containers(h)
  <1> SUFFICES ASSUME NEW c \in DOMAIN h.reservations PROVE c \in Containers(h)
    OBVIOUS
  <1>1. ReservedFor(h.reservations, k, b) /\ Inside(h.containers, k, b)
    BY DEF HostAt
  <1>2. PICK s : s = h.reservations[c]
    OBVIOUS
  <1>3. s # <<>> /\ ListHolds(s, Held(k, b, {"reserved"}, c))
    BY <1>1, <1>2 DEF ReservedFor, Reservation
  <1>4. Held(k, b, {"reserved"}, c) # {}
    BY <1>3, ListNonEmpty
  <1>5. PICK j \in DOMAIN k : k[j] = "reserved" /\ b[j] = c
    BY <1>4 DEF Held
  <1> QED BY <1>1, <1>5 DEF Inside, Holding, Containers

LEMMA AccountedWhenSound ==
    ASSUME NEW h, Sound(h)
    PROVE  /\ \A r \in DOMAIN h.capacity :
                h.consumed[r] <= h.capacity[r] /\ h.consumed[r] = Needed(h, r)
           /\ \A c \in Containers(h) : LifeCycle(h, c) /\ Listed(h, c)
           /\ DOMAIN h.reservations \subseteq Containers(h)
  <1>1. PICK k, b : HostAt(h, k, b, {}) /\ Settled(h, k)
    BY DEF Sound, HostInv
  <1>2. BudgetOf(h.containers, h.capacity, h.consumed) /\ StockOf(h.containers, h.next)
    BY <1>1 DEF HostAt
  <1>3. ASSUME NEW r \in DOMAIN h.capacity
        PROVE  h.consumed[r] <= h.capacity[r] /\ h.consumed[r] = Needed(h, r)
    <2>1. PICK n : n = h.next
      OBVIOUS
    <2>2. Needed(h, r) = Used(h.containers, r)
      BY <1>2, <2>1, NeededIsUsed
    <2> QED BY <1>2, <2>2 DEF BudgetOf
  <1>4. \A c \in Containers(h) : LifeCycle(h, c) /\ Listed(h, c)
    BY <1>1, CycleWhenSound, ListedWhenSound
  <1>5. DOMAIN h.reservations \subseteq Containers(h)
    BY <1>1, ReservationsWhenSound
  <1> QED BY <1>3, <1>4, <1>5

\* The containers use what is handed out, within the capacity; each is listed as it
\* is filled, and has the events of its life cycle to come.  (container.rs, host.rs.)
THEOREM ContainersAlwaysAccounted == Spec => []ContainersAccounted
  <1>1. FaasInv => ContainersAccounted
    <2> SUFFICES ASSUME FaasInv PROVE ContainersAccounted
      OBVIOUS
    <2>1. ASSUME NEW x \in DOMAIN hosts
          PROVE  /\ \A r \in DOMAIN hosts[x].capacity :
                      /\ hosts[x].consumed[r] <= hosts[x].capacity[r]
                      /\ hosts[x].consumed[r] = Needed(hosts[x], r)
                 /\ \A c \in Containers(hosts[x]) : LifeCycle(hosts[x], c) /\ Listed(hosts[x], c)
                 /\ DOMAIN hosts[x].reservations \subseteq Containers(hosts[x])
      BY AccountedWhenSound DEF FaasInv
    <2> QED BY <2>1 DEF ContainersAccounted, Needed
  <1> QED BY <1>1, FaasSound, PTL

-----------------------------------------------------------------------------
\* Whatever could be served is not in a queue: every handler that frees room
\* has dequeued before it returns.  (host.rs, invoker.rs.)
THEOREM NothingEverWaitsNeedlessly == Spec => []NothingWaitsNeedlessly
  <1>1. FaasInv => NothingWaitsNeedlessly
    <2> SUFFICES ASSUME FaasInv, NEW x \in DOMAIN hosts, NEW p \in DOMAIN hosts[x].queue,
                        config.invoker = "Naive" \/ p = 1
                 PROVE  Hopeless(hosts[x], AppOf(hosts[x], hosts[x].queue[p]))
      BY DEF NothingWaitsNeedlessly, Hopeless
    <2>1. Served(hosts[x]) /\ hosts[x].invoker = config.invoker
      BY DEF FaasInv, Sound
    <2> QED BY <2>1 DEF Served
  <1> QED BY <1>1, FaasSound, PTL
===============================================================================
