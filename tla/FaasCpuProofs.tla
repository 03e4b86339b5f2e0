---------------------------- MODULE FaasCpuProofs ----------------------------
(***************************************************************************)
(* Functions as a service, for any applications, shares, cores and         *)
(* policies: the books of a host's cpu.                                    *)
(*                                                                         *)
(* The load is the sum of the shares of the containers that execute.       *)
(* Within a handler the sum is over the containers that hold anything but  *)
(* invocations of which the cpu has not been told yet (Busy, Untold), and  *)
(* each turn of a fold changes it by one container or not at all (Fits).   *)
(* That the first one told of is alone in its container is what has to be  *)
(* shown: a dequeue starts no two in one container (Apart), because each   *)
(* takes one only or has at most one place for what is queued (Snug).      *)
(***************************************************************************)
EXTENDS FaasProofs

-----------------------------------------------------------------------------
(* The shares of the containers that execute.  N are the invocations that   *)
(* have entered a container of which the cpu has not been told yet.         *)

ShareIn(cs, c) == Share[cs[c].app]

Shares(cs, T) == SumFunction([c \in T |-> ShareIn(cs, c)])

AppsIn(cs, T) == IsFiniteSet(T) /\ \A c \in T : cs[c].app \in App

LEMMA SharesTyped ==
    ASSUME NEW cs, NEW T, AppsIn(cs, T)
    PROVE  Shares(cs, T) \in Nat
  <1>1. PICK f : f = [c \in T |-> ShareIn(cs, c)]
    OBVIOUS
  <1>2. f \in [T -> Nat] /\ IsFiniteSet(T)
    BY <1>1, AppAssumption DEF ShareIn, AppsIn
  <1>3. SumFunction(f) \in Nat
    BY <1>2, SumTyped
  <1> QED BY <1>1, <1>3 DEF Shares

LEMMA SharesAdded ==
    ASSUME NEW cs, NEW T, AppsIn(cs, T), NEW c, c \notin T, cs[c].app \in App,
           NEW U, U = T \cup {c}
    PROVE  /\ Shares(cs, U) = Shares(cs, T) + ShareIn(cs, c)
           /\ AppsIn(cs, U) /\ ShareIn(cs, c) \in Nat
  <1>1. PICK f : f = [d \in T |-> ShareIn(cs, d)]
    OBVIOUS
  <1>2. PICK g : g = [d \in U |-> ShareIn(cs, d)]
    OBVIOUS
  <1>3. f \in [T -> Nat] /\ IsFiniteSet(T)
    BY <1>1, AppAssumption DEF ShareIn, AppsIn
  <1>4. g \in [T \cup {c} -> Nat] /\ \A d \in T : g[d] = f[d]
    BY <1>1, <1>2, AppAssumption DEF ShareIn, AppsIn
  <1>5. SumFunction(g) = SumFunction(f) + g[c]
    BY ONLY <1>3, <1>4, c \notin T, SumExtended
  <1>6. g[c] = ShareIn(cs, c) /\ ShareIn(cs, c) \in Nat
    BY <1>2, AppAssumption DEF ShareIn
  <1>7. Shares(cs, U) = Shares(cs, T) + ShareIn(cs, c)
    BY <1>1, <1>2, <1>5, <1>6 DEF Shares
  <1>8. AppsIn(cs, U)
    BY FS_AddElement DEF AppsIn
  <1> QED BY <1>6, <1>7, <1>8

LEMMA SharesTaken ==
    ASSUME NEW cs, NEW T, AppsIn(cs, T), NEW c \in T, NEW U, U = T \ {c}
    PROVE  /\ Shares(cs, U) = Shares(cs, T) - ShareIn(cs, c)
           /\ ShareIn(cs, c) \in Nat /\ Shares(cs, U) \in Nat
  <1>1. AppsIn(cs, U)
    BY FS_Subset DEF AppsIn
  <1>2. c \notin U /\ T = U \cup {c} /\ cs[c].app \in App
    BY DEF AppsIn
  <1>3. Shares(cs, T) = Shares(cs, U) + ShareIn(cs, c) /\ ShareIn(cs, c) \in Nat
    BY ONLY <1>1, <1>2, SharesAdded
  <1>4. Shares(cs, U) \in Nat
    BY <1>1, SharesTyped
  <1> QED BY <1>3, <1>4

LEMMA SharesSame ==
    ASSUME NEW cs, NEW cs2, NEW T, \A c \in T : cs2[c].app = cs[c].app
    PROVE  Shares(cs2, T) = Shares(cs, T)
  <1>1. [c \in T |-> ShareIn(cs2, c)] = [c \in T |-> ShareIn(cs, c)]
    BY DEF ShareIn
  <1> QED BY <1>1 DEF Shares

\* The load is that of the containers that execute, and what Isolated keeps to.
Busy(cs, w, N) == {c \in DOMAIN cs \ DOMAIN w : ~ (cs[c].invocations \subseteq N)}

LoadFits(cs, u, N) ==
    /\ u.load = Shares(cs, Busy(cs, u.waiting, N))
    /\ ~ u.panicked /\ u.cores \in Nat
    /\ u.policy = "Isolated" => u.load <= u.cores

\* No container waits that fits.
Crowded(cs, u) ==
    u.policy = "Isolated" /\ u.queue # <<>> => u.load + ShareIn(cs, Head(u.queue)) > u.cores

Fits(cs, u, N) == LoadFits(cs, u, N) /\ Crowded(cs, u)

SameLoad(u, v) ==
    /\ u.policy = v.policy /\ u.cores = v.cores /\ u.load = v.load
    /\ u.waiting = v.waiting /\ u.queue = v.queue /\ u.panicked = v.panicked

HeadIn(cs, u) == u.policy = "Isolated" /\ u.queue # <<>> => Head(u.queue) \in DOMAIN cs

LEMMA FitsSame ==
    ASSUME NEW cs, NEW u, NEW N, Fits(cs, u, N), NEW cs2, NEW v, NEW M, SameLoad(v, u),
           \A c : c \in Busy(cs2, u.waiting, M) <=> c \in Busy(cs, u.waiting, N),
           \A c \in DOMAIN cs \cap DOMAIN cs2 : cs2[c].app = cs[c].app,
           HeadIn(cs, u), HeadIn(cs2, u)
    PROVE  Fits(cs2, v, M)
  <1>1. PICK T : T = Busy(cs, u.waiting, N)
    OBVIOUS
  <1>2. Busy(cs2, u.waiting, M) = T /\ \A c \in T : cs2[c].app = cs[c].app
    BY <1>1 DEF Busy
  <1>3. Shares(cs2, T) = Shares(cs, T)
    BY ONLY <1>2, SharesSame
  <1>4. LoadFits(cs2, v, M)
    BY <1>1, <1>2, <1>3 DEF Fits, LoadFits, SameLoad
  <1>5. u.policy = "Isolated" /\ u.queue # <<>> => ShareIn(cs2, Head(u.queue)) = ShareIn(cs, Head(u.queue))
    BY DEF ShareIn, HeadIn
  <1>6. Crowded(cs2, v)
    BY <1>5 DEF Fits, Crowded, SameLoad
  <1> QED BY <1>4, <1>6 DEF Fits

-----------------------------------------------------------------------------
(* The cpu is told of an invocation: its container's share is added if it   *)
(* is the first.  No other in the container may be one not told yet.        *)

Untold(k) == {j \in DOMAIN k : k[j] = "entered"}

FirstTold(cs, w, k, c, i, N, M) ==
    /\ c \in DOMAIN cs /\ cs[c].app \in App /\ AppsIn(cs, Busy(cs, w, N))
    /\ c \in DOMAIN w => Busy(cs, w, M) = Busy(cs, w, N)
    /\ c \notin DOMAIN w => Busy(cs, w, M) = Busy(cs, w, N) \cup {c}
    /\ c \notin DOMAIN w => (c \in Busy(cs, w, N) <=> cs[c].invocations # {i})
    /\ Cardinality(cs[c].invocations) = 1 <=> cs[c].invocations = {i}
    /\ cs[c].invocations \ {i} \subseteq {j \in DOMAIN k : k[j] \in {"told", "ending"}}

LEMMA BusyTold ==
    ASSUME NEW cs, NEW n, StockOf(cs, n), NEW k, NEW b, IsFiniteSet(DOMAIN k), Inside(cs, k, b),
           NEW i \in DOMAIN k, k[i] = "entered", NEW c, b[i] = c,
           \A j \in DOMAIN k : k[j] = "entered" /\ b[j] = c => j = i,
           NEW N, N = Untold(k), NEW M, M = N \ {i}, NEW w
    PROVE  FirstTold(cs, w, k, c, i, N, M)
  <1>1. c \in DOMAIN cs /\ \A d \in DOMAIN cs : cs[d].invocations = Held(k, b, In, d)
    BY DEF Inside, Holding, In
  <1>2. PICK I : I = cs[c].invocations
    OBVIOUS
  <1>3. I = Held(k, b, In, c) /\ i \in I /\ i \in N /\ I \cap N = {i}
    BY <1>1, <1>2 DEF Held, In, Untold
  <1>4. \A d \in DOMAIN cs : d # c => i \notin cs[d].invocations
    BY <1>1 DEF Held
  <1>5. AppsIn(cs, Busy(cs, w, N)) /\ cs[c].app \in App
    BY <1>1, FS_Subset DEF AppsIn, Busy, StockOf
  <1>6. \A d \in DOMAIN cs : d # c => (cs[d].invocations \subseteq M <=> cs[d].invocations \subseteq N)
    BY <1>4
  <1>7. ~ (I \subseteq M) /\ (I \subseteq N <=> I = {i})
    BY <1>3
  <1>8. Cardinality(I) = 1 <=> I = {i}
    <2>1. IsFiniteSet(I)
      BY <1>3, HeldFinite
    <2>2. Cardinality({i}) = 1
      BY FS_Singleton
    <2>3. ASSUME Cardinality(I) = 1 PROVE I = {i}
      BY <1>3, <2>1, <2>3, FS_Singleton
    <2> QED BY <2>2, <2>3
  <1>9. c \in DOMAIN w => Busy(cs, w, M) = Busy(cs, w, N)
    BY <1>6 DEF Busy
  <1>10. c \notin DOMAIN w => Busy(cs, w, M) = Busy(cs, w, N) \cup {c}
    BY <1>1, <1>2, <1>6, <1>7 DEF Busy
  <1>11. c \notin DOMAIN w => (c \in Busy(cs, w, N) <=> I # {i})
    BY <1>1, <1>2, <1>7 DEF Busy
  <1>12. I \ {i} \subseteq {j \in DOMAIN k : k[j] \in {"told", "ending"}}
    BY <1>3 DEF Held, In
  <1> QED BY <1>1, <1>2, <1>5, <1>8, <1>9, <1>10, <1>11, <1>12 DEF FirstTold

\* The containers that wait are there, and have been told of an invocation.
LEMMA WaitersInside ==
    ASSUME NEW u, NEW pd, NEW k, NEW b, KnowsOf(u, pd, k, b), NEW cs, Inside(cs, k, b)
    PROVE  /\ HeadIn(cs, u)
           /\ \A c \in DOMAIN u.waiting :
                c \in DOMAIN cs /\ ~ (cs[c].invocations \subseteq Untold(k))
  <1>1. \/ DOMAIN u.waiting = {} /\ u.policy # "Isolated"
        \/ WaitingOf(u.waiting, u.queue, k, b)
    BY DEF KnowsOf, Told
  <1>2. CASE WaitingOf(u.waiting, u.queue, k, b)
    <2>1. /\ Range(u.queue) = DOMAIN u.waiting /\ u.queue \in Seq(Nat)
          /\ \A d \in DOMAIN u.waiting :
               u.waiting[d] # <<>> /\ ListHolds(u.waiting[d], Held(k, b, {"told"}, d))
      BY <1>2 DEF WaitingOf
    <2>2. ASSUME NEW d \in DOMAIN u.waiting
          PROVE  d \in DOMAIN cs /\ ~ (cs[d].invocations \subseteq Untold(k))
      <3>1. Held(k, b, {"told"}, d) # {}
        BY <2>1, ListNonEmpty
      <3>2. PICK j : j \in DOMAIN k /\ k[j] = "told" /\ b[j] = d
        BY <3>1 DEF Held
      <3>3. d \in DOMAIN cs
        BY <3>2 DEF Inside, Holding, In
      <3>4. j \in cs[d].invocations /\ j \notin Untold(k)
        BY <3>2, <3>3 DEF Inside, Held, In, Untold
      <3> QED BY <3>3, <3>4
    <2>3. u.queue # <<>> => Head(u.queue) \in DOMAIN u.waiting
      BY <2>1 DEF Range
    <2> QED BY <2>2, <2>3 DEF HeadIn
  <1>3. CASE DOMAIN u.waiting = {} /\ u.policy # "Isolated"
    BY <1>3 DEF HeadIn
  <1> QED BY <1>1, <1>2, <1>3

\* What a handler does to the work of Contended and to its end event.
WorkGrows(v, u, S) ==
    /\ v.policy = u.policy /\ v.end = u.end
    /\ u.work \subseteq v.work /\ v.work \subseteq u.work \cup S

LEMMA CpuTells ==
    ASSUME NEW h, IsHost(h), IsABag(h.pending), NEW k, NEW b, KnowsOf(h.cpu, h.pending, k, b),
           StockOf(h.containers, h.next), IsFiniteSet(DOMAIN k), Inside(h.containers, k, b),
           NEW i \in DOMAIN k, k[i] = "entered", NEW c, b[i] = c,
           \A j \in DOMAIN k : k[j] = "entered" /\ b[j] = c => j = i,
           NEW N, N = Untold(k), NEW M, M = N \ {i}, Fits(h.containers, h.cpu, N),
           NEW g, g = CpuStart(h, i, c), NEW S, S = {i}
    PROVE  g.containers = h.containers /\ Fits(h.containers, g.cpu, M) /\ WorkGrows(g.cpu, h.cpu, S)
  <1>1. PICK u, cs : u = h.cpu /\ cs = h.containers
    OBVIOUS
  <1>2. IsCpu(u) /\ Told(u, h.pending, k, b)
    BY <1>1 DEF KnowsOf
  <1>3. PICK w : w = u.waiting
    OBVIOUS
  <1>4. FirstTold(cs, w, k, c, i, N, M)
    BY <1>1, BusyTold
  <1>5. PICK T, R : T = Busy(cs, w, N) /\ R = Busy(cs, w, M)
    OBVIOUS
  <1>6. PICK s : s = ShareIn(cs, c)
    OBVIOUS
  <1>7. ShareOf(h, c) = s /\ (Alone(h, c) <=> cs[c].invocations = {i})
    BY <1>1, <1>4, <1>6 DEF ShareOf, ShareIn, Alone, Invocations, FirstTold
  <1>8. s \in Nat /\ Shares(cs, T) \in Nat
    BY <1>4, <1>5, <1>6, SharesTyped, AppAssumption DEF FirstTold, ShareIn
  <1>9. /\ u.load = Shares(cs, T) /\ ~ u.panicked /\ u.cores \in Nat
        /\ u.policy = "Isolated" => u.load <= u.cores
        /\ u.policy = "Isolated" /\ u.queue # <<>> => u.load + ShareIn(cs, Head(u.queue)) > u.cores
    BY <1>1, <1>3, <1>5 DEF Fits, LoadFits, Crowded
  <1>10. PICK l : l = IF Alone(h, c) THEN u.load + s ELSE u.load
    OBVIOUS
  <1>11. c \notin DOMAIN w => l = Shares(cs, R)
    <2>1. CASE c \notin DOMAIN w /\ Alone(h, c)
      <3>1. AppsIn(cs, T) /\ c \notin T /\ cs[c].app \in App /\ R = T \cup {c}
        BY <1>4, <1>5, <1>7, <2>1 DEF FirstTold
      <3>2. Shares(cs, R) = Shares(cs, T) + s
        BY <1>6, <3>1, SharesAdded
      <3> QED BY <1>9, <1>10, <2>1, <3>2
    <2>2. CASE c \notin DOMAIN w /\ ~ Alone(h, c)
      <3>1. R = T
        BY <1>4, <1>5, <1>7, <2>2 DEF FirstTold
      <3> QED BY <1>9, <1>10, <2>2, <3>1
    <2> QED BY <2>1, <2>2
  <1>12. PICK m : m = AddLoad(h, c)
    OBVIOUS
  <1>13. PICK u1 : u1 = CpuOf(u.policy, u.cores, l, u.waiting, u.queue, u.work, u.end, u.panicked)
    OBVIOUS
  <1>14. /\ u1.policy = u.policy /\ u1.waiting = w /\ u1.queue = u.queue /\ u1.cores = u.cores
         /\ u1.work = u.work /\ u1.end = u.end /\ u1.load = l /\ u1.panicked = u.panicked
    BY <1>3, <1>13 DEF CpuOf
  <1>15. CpuChanges(m, h, u1)
    BY <1>1, <1>2, <1>7, <1>10, <1>12, <1>13, AddLoadDoes
  <1>16. IsHost(m) /\ m.cpu = u1 /\ m.containers = cs
    BY <1>1, <1>15 DEF CpuChanges, SameBooks
  <1>17. ASSUME g = Emit(m, InvocationEnd(i))
         PROVE  g.cpu = u1 /\ g.containers = cs
    <2>1. PICK e : e = InvocationEnd(i)
      OBVIOUS
    <2>2. g = Emit(m, e)
      BY <1>17, <2>1
    <2>3. Emits(g, m, e)
      BY ONLY <1>16, <2>2, EmitDoes
    <2> QED BY <1>16, <2>3 DEF Emits, SameBooks
  <1>18. CASE u.policy = "Ignored"
    <2>1. g = Emit(m, InvocationEnd(i))
      BY <1>1, <1>12, <1>18 DEF CpuStart
    <2>2. c \notin DOMAIN w
      BY <1>2, <1>3, <1>18 DEF Told
    <2>3. Fits(cs, u1, M)
      BY <1>5, <1>9, <1>11, <1>14, <1>18, <2>2 DEF Fits, LoadFits, Crowded
    <2> QED BY <1>1, <1>14, <1>17, <2>1, <2>3 DEF WorkGrows
  <1>19. CASE u.policy = "Contended"
    <2>1. PICK x : x = ~ (Invocations(h, c) \ {i} \subseteq u.work)
      OBVIOUS
    <2>2. g = Works(m, i, x)
      BY <1>1, <1>12, <1>19, <2>1 DEF CpuStart, ContendedStart, Works
    <2>3. PICK u2 : u2 = CpuOf(u1.policy, u1.cores, u1.load, u1.waiting, u1.queue,
                                 u1.work \cup {i}, u1.end, (u1.panicked \/ x))
      OBVIOUS
    <2>4. IsCpu(u1)
      BY <1>13, Zenon DEF IsCpu
    <2>5. CpuChanges(g, m, u2)
      BY <1>16, <2>2, <2>3, <2>4, WorkDoes
    <2>6. /\ u2.policy = u.policy /\ u2.waiting = w /\ u2.queue = u.queue /\ u2.cores = u.cores
          /\ u2.work = u.work \cup {i} /\ u2.end = u.end /\ u2.load = l
          /\ u2.panicked = (u.panicked \/ x)
      BY <1>14, <2>3 DEF CpuOf
    <2>7. ~ x
      BY <1>1, <1>2, <1>4, <1>19, <2>1 DEF Told, Invocations, FirstTold
    <2>8. c \notin DOMAIN w
      BY <1>2, <1>3, <1>19 DEF Told
    <2>9. Fits(cs, u2, M)
      BY <1>5, <1>9, <1>11, <1>19, <2>6, <2>7, <2>8 DEF Fits, LoadFits, Crowded
    <2>10. g.cpu = u2 /\ g.containers = cs
      BY <1>16, <2>5 DEF CpuChanges, SameBooks
    <2> QED BY <1>1, <2>6, <2>9, <2>10 DEF WorkGrows
  <1>20. CASE u.policy = "Isolated"
    <2>1. g = IsolatedStart(h, i, c) /\ IsHost(h)
      BY <1>1, <1>20 DEF CpuStart
    <2>2. CASE c \in DOMAIN w
      <3>1. g = Joined(h, c, i)
        BY <1>1, <1>3, <2>1, <2>2 DEF IsolatedStart, Joined
      <3>2. PICK w2 : w2 = [w EXCEPT ![c] = Append(w[c], i)]
        OBVIOUS
      <3>3. PICK u2 : u2 = CpuOf(u.policy, u.cores, u.load, w2, u.queue, u.work, u.end, u.panicked)
        OBVIOUS
      <3>4. CpuChanges(g, h, u2)
        BY <1>1, <1>2, <1>3, <3>1, <3>2, <3>3, JoinDoes
      <3>5. /\ u2.policy = u.policy /\ u2.waiting = w2 /\ u2.queue = u.queue /\ u2.cores = u.cores
            /\ u2.work = u.work /\ u2.end = u.end /\ u2.load = u.load /\ u2.panicked = u.panicked
        BY <3>3 DEF CpuOf
      <3>6. DOMAIN w2 = DOMAIN w /\ R = T
        BY <1>4, <1>5, <2>2, <3>2 DEF FirstTold
      <3>7. Busy(cs, w2, M) = T
        BY <1>5, <3>6 DEF Busy
      <3>8. Fits(cs, u2, M)
        BY <1>9, <3>5, <3>7 DEF Fits, LoadFits, Crowded
      <3> QED BY <1>1, <3>4, <3>5, <3>8 DEF WorkGrows, CpuChanges, SameBooks
    <2>3. CASE c \notin DOMAIN w /\ Alone(h, c) /\ u.load + s > u.cores
      <3>1. g = Waits(h, c, i)
        BY <1>1, <1>3, <1>7, <2>1, <2>3 DEF IsolatedStart, Waits
      <3>2. PICK w2, q2 : w2 = With(w, c, <<i>>) /\ q2 = Append(u.queue, c)
        OBVIOUS
      <3>3. PICK u2 : u2 = CpuOf(u.policy, u.cores, u.load, w2, q2, u.work, u.end, u.panicked)
        OBVIOUS
      <3>4. CpuChanges(g, h, u2)
        BY <1>1, <1>2, <1>3, <3>1, <3>2, <3>3, WaitDoes
      <3>5. /\ u2.policy = u.policy /\ u2.waiting = w2 /\ u2.queue = q2 /\ u2.cores = u.cores
            /\ u2.work = u.work /\ u2.end = u.end /\ u2.load = u.load /\ u2.panicked = u.panicked
        BY <3>3 DEF CpuOf
      <3>6. DOMAIN w2 = DOMAIN w \cup {c} /\ R = T \cup {c} /\ c \notin T
        <4>1. DOMAIN w2 = DOMAIN w \cup {c}
          BY <3>2 DEF With
        <4> QED BY <1>4, <1>5, <1>7, <2>3, <4>1 DEF FirstTold
      <3>7. Busy(cs, w2, M) = T
        <4>1. Busy(cs, w2, M) = R \ {c}
          BY <1>5, <3>6 DEF Busy
        <4> QED BY <3>6, <4>1
      <3>8. u.queue \in Seq(Nat)
        BY <1>2, <1>20 DEF Told, WaitingOf
      <3>9. u.load + ShareIn(cs, Head(q2)) > u.cores
        <4>1. CASE u.queue = <<>>
          <5>1. Head(q2) = c
            BY <3>2, <4>1
          <5> QED BY <1>6, <2>3, <5>1
        <4>2. CASE u.queue # <<>>
          <5>1. Head(q2) = Head(u.queue)
            BY <3>2, <3>8, <4>2
          <5> QED BY <1>9, <1>20, <4>2, <5>1
        <4> QED BY <4>1, <4>2
      <3>10. LoadFits(cs, u2, M) /\ Crowded(cs, u2)
        BY <1>9, <3>5, <3>7, <3>9 DEF LoadFits, Crowded
      <3> QED BY <1>1, <3>4, <3>5, <3>10 DEF WorkGrows, CpuChanges, SameBooks, Fits
    <2>4. CASE c \notin DOMAIN w /\ ~ (Alone(h, c) /\ u.load + s > u.cores)
      <3>1. g = Emit(m, InvocationEnd(i))
        BY <1>1, <1>3, <1>7, <1>12, <2>1, <2>4 DEF IsolatedStart
      <3>2. l = Shares(cs, R) /\ l <= u.cores /\ l >= u.load /\ l \in Nat /\ u.load \in Nat
        BY <1>8, <1>9, <1>10, <1>11, <1>20, <2>4
      <3>3. LoadFits(cs, u1, M)
        BY <1>5, <1>9, <1>14, <3>2 DEF LoadFits
      <3>4. Crowded(cs, u1)
        <4>1. CASE u.queue = <<>>
          BY <1>14, <4>1 DEF Crowded
        <4>2. CASE u.queue # <<>>
          <5>1. PICK y : y = ShareIn(cs, Head(u.queue))
            OBVIOUS
          <5>2. y \in Nat
            <6>1. HeadIn(cs, u)
              BY <1>1, WaitersInside
            <6>2. PICK d : d = Head(u.queue) /\ d \in DOMAIN cs
              BY <1>20, <4>2, <6>1 DEF HeadIn
            <6>3. cs[d].app \in App
              BY <1>1, <6>2 DEF StockOf
            <6> QED BY <5>1, <6>2, <6>3, AppAssumption DEF ShareIn
          <5>3. u.load + y > u.cores
            BY <1>9, <1>20, <4>2, <5>1
          <5>4. l + y > u.cores
            BY <1>9, <3>2, <5>2, <5>3
          <5> QED BY <1>14, <5>1, <5>4 DEF Crowded
        <4> QED BY <4>1, <4>2
      <3> QED BY <1>1, <1>14, <1>17, <3>1, <3>3, <3>4 DEF WorkGrows, Fits
    <2> QED BY <2>2, <2>3, <2>4
  <1> QED BY <1>2, <1>18, <1>19, <1>20 DEF Told

-----------------------------------------------------------------------------
(* An invocation is started in a container.                                 *)

\* Only container c may be different, and it is of the same application.
Others(g, h, c) ==
    /\ DOMAIN g.containers = DOMAIN h.containers
    /\ \A d \in DOMAIN h.containers : d # c => g.containers[d] = h.containers[d]
    /\ c \in DOMAIN h.containers => g.containers[c].app = h.containers[c].app

LEMMA EnterChanges ==
    ASSUME NEW h, NEW c \in DOMAIN h.containers, IsContainer(h.containers[c]), NEW i,
           NEW g, Enters(g, h, c, i)
    PROVE  /\ g.cpu = h.cpu /\ Others(g, h, c) /\ g.containers[c].status = "Running"
           /\ g.containers[c].invocations = h.containers[c].invocations \cup {i}
  <1>1. PICK I, cs, ds, w : /\ I = h.containers[c].invocations \cup {i} /\ cs = h.containers
                            /\ ds = g.containers /\ w = Put(cs[c], "Running", I)
    OBVIOUS
  <1>2. ds = [cs EXCEPT ![c] = w] /\ g.cpu = h.cpu
    BY <1>1 DEF Enters, Put
  <1>3. Becomes(w, cs[c], "Running", I)
    BY <1>1, ContainerUpdated
  <1>4. DOMAIN ds = DOMAIN cs /\ ds[c] = w /\ \A d \in DOMAIN cs : d # c => ds[d] = cs[d]
    BY <1>1, <1>2
  <1> QED BY <1>1, <1>2, <1>3, <1>4 DEF Becomes, Others

LEMMA EnterFits ==
    ASSUME NEW h, NEW c \in DOMAIN h.containers, IsContainer(h.containers[c]), NEW i,
           HeadIn(h.containers, h.cpu),
           \A d \in DOMAIN h.containers : i \notin h.containers[d].invocations,
           NEW N, Fits(h.containers, h.cpu, N), NEW M, M = N \cup {i},
           NEW g, Enters(g, h, c, i)
    PROVE  Fits(g.containers, g.cpu, M)
  <1>1. PICK cs, ds, u : cs = h.containers /\ ds = g.containers /\ u = h.cpu
    OBVIOUS
  <1>2. /\ g.cpu = u /\ DOMAIN ds = DOMAIN cs /\ \A d \in DOMAIN cs : d # c => ds[d] = cs[d]
        /\ ds[c].app = cs[c].app /\ ds[c].invocations = cs[c].invocations \cup {i}
    BY <1>1, EnterChanges DEF Others
  <1>3. \A d \in DOMAIN cs : ds[d].invocations \subseteq M <=> cs[d].invocations \subseteq N
    BY <1>1, <1>2
  <1>4. \A d : d \in Busy(ds, u.waiting, M) <=> d \in Busy(cs, u.waiting, N)
    BY <1>2, <1>3 DEF Busy
  <1>5. HeadIn(ds, u) /\ HeadIn(cs, u)
    BY <1>1, <1>2 DEF HeadIn
  <1>6. \A d \in DOMAIN cs \cap DOMAIN ds : ds[d].app = cs[d].app
    BY <1>2
  <1>7. SameLoad(u, u) /\ Fits(cs, u, N)
    BY <1>1 DEF SameLoad
  <1>8. Fits(ds, u, M)
    BY ONLY <1>4, <1>5, <1>6, <1>7, FitsSame
  <1> QED BY <1>1, <1>2, <1>8

LEMMA TellFits ==
    ASSUME NEW h, NEW k, NEW b, HostButLists(h, k, b), NEW i \in DOMAIN k, k[i] = "entered",
           NEW c, b[i] = c, \A j \in DOMAIN k : k[j] = "entered" /\ b[j] = c => j = i,
           NEW N, N = Untold(k), NEW M, M = N \ {i}, Fits(h.containers, h.cpu, N),
           NEW m, m = Assign(h, i, "Running", c), NEW g, g = CpuStart(m, i, c), NEW S, S = {i}
    PROVE  g.containers = h.containers /\ Fits(h.containers, g.cpu, M) /\ WorkGrows(g.cpu, h.cpu, S)
  <1>1. /\ IsHost(h) /\ StockOf(h.containers, h.next) /\ EntriesOf(h.registry, k, b)
        /\ Inside(h.containers, k, b) /\ CyclesOf(h.containers, h.reservations, h.pending, {})
        /\ KnowsOf(h.cpu, h.pending, k, b)
    BY DEF HostButLists
  <1>2. Assigns(m, h, i, "Running", c)
    BY <1>1, AssignDoes
  <1>3. /\ IsHost(m) /\ m.containers = h.containers /\ m.next = h.next /\ m.pending = h.pending
        /\ m.cpu = h.cpu
    BY <1>2 DEF Assigns, SameBooks
  <1>4. /\ IsABag(m.pending) /\ KnowsOf(m.cpu, m.pending, k, b) /\ StockOf(m.containers, m.next)
        /\ IsFiniteSet(DOMAIN k) /\ Inside(m.containers, k, b) /\ Fits(m.containers, m.cpu, N)
    BY <1>1, <1>3 DEF CyclesOf, EntriesOf
  <1>5. g.containers = m.containers /\ Fits(m.containers, g.cpu, M) /\ WorkGrows(g.cpu, m.cpu, S)
    BY <1>3, <1>4, CpuTells
  <1> QED BY <1>3, <1>5

\* What starting invocations S in container c does.
Loads(g, h, c, S) ==
    /\ Fits(g.containers, g.cpu, {}) /\ WorkGrows(g.cpu, h.cpu, S)
    /\ SameApps(g, h) /\ Others(g, h, c)
    /\ g.containers[c].invocations = h.containers[c].invocations \cup S

LEMMA StartFits ==
    ASSUME NEW h, NEW k, NEW b, NEW X, HostAt(h, k, b, X), NEW c \in DOMAIN h.containers,
           X \subseteq {c}, Startable(h, c), NEW i \in DOMAIN k, k[i] \in {"nowhere", "starting"},
           k[i] = "starting" => b[i] = c, Untold(k) = {}, Fits(h.containers, h.cpu, {}),
           NEW g, g = StartInvocation(h, c, i), NEW S, S = {i}
    PROVE  Loads(g, h, c, S) /\ IsHost(g)
  <1>1. /\ IsHost(h) /\ EntriesOf(h.registry, k, b) /\ Inside(h.containers, k, b)
        /\ KnowsOf(h.cpu, h.pending, k, b) /\ StockOf(h.containers, h.next)
    BY DEF HostAt
  <1>2. DOMAIN b = DOMAIN k /\ IsContainer(h.containers[c])
    BY <1>1 DEF EntriesOf, StockOf
  <1>3. PICK k1, b1 : Moved(k1, b1, k, b, i, "entered", c)
    BY <1>2, MoveExists
  <1>4. PICK e, m : e = EnterContainer(h, c, i) /\ m = Assign(e, i, "Running", c)
    OBVIOUS
  <1>5. Enters(e, h, c, i)
    BY <1>1, <1>4, EnterDoes
  <1>6. HostButLists(e, k1, b1)
    BY <1>3, <1>5, EnterCore
  <1>7. g = CpuStart(m, i, c)
    BY <1>4 DEF StartInvocation
  <1>8. /\ DOMAIN k1 = DOMAIN k /\ k1[i] = "entered" /\ b1[i] = c /\ DOMAIN b1 = DOMAIN k
        /\ \A j \in DOMAIN k : j # i => k1[j] # "entered"
    BY <1>2, <1>3 DEF Moved, Untold
  <1>9. Untold(k1) = S
    BY <1>8 DEF Untold
  <1>10. HeadIn(h.containers, h.cpu)
    BY <1>1, WaitersInside
  <1>11. \A d \in DOMAIN h.containers : i \notin h.containers[d].invocations
    BY <1>1 DEF Inside, Held, In
  <1>12. /\ Fits(e.containers, e.cpu, S) /\ e.cpu = h.cpu /\ Others(e, h, c)
         /\ e.containers[c].invocations = h.containers[c].invocations \cup S
    <2>1. PICK N : N = {}
      OBVIOUS
    <2>2. S = N \cup {i} /\ Fits(h.containers, h.cpu, N)
      BY <2>1
    <2>3. Fits(e.containers, e.cpu, S)
      BY <1>2, <1>5, <1>10, <1>11, <2>2, EnterFits
    <2> QED BY <1>2, <1>5, <2>3, EnterChanges
  <1>13. PICK N, M : N = Untold(k1) /\ M = N \ {i}
    OBVIOUS
  <1>14. \A j \in DOMAIN k1 : k1[j] = "entered" /\ b1[j] = c => j = i
    BY <1>8
  <1>15. i \in DOMAIN k1 /\ Fits(e.containers, e.cpu, N)
    BY <1>8, <1>9, <1>12, <1>13
  <1>16. g.containers = e.containers /\ Fits(e.containers, g.cpu, M) /\ WorkGrows(g.cpu, e.cpu, S)
    BY <1>4, <1>6, <1>7, <1>8, <1>13, <1>14, <1>15, TellFits
  <1>17. M = {}
    BY <1>9, <1>13
  <1>18. SameApps(g, e) /\ IsHost(g)
    <2>1. PICK k2 : k2 = [k1 EXCEPT ![i] = "told"]
      OBVIOUS
    <2>2. Moved(k2, b1, k1, b1, i, "told", c)
      BY <1>8, <2>1 DEF Moved
    <2>3. Tells(g, e)
      BY <1>4, <1>6, <1>7, <1>8, <1>15, <2>2, TellCore
    <2> QED BY <2>3 DEF Tells
  <1>19. SameApps(g, h)
    BY <1>5, <1>18 DEF Enters, SameRegistry, SameApps
  <1>20. Others(g, h, c)
    BY <1>12, <1>16 DEF Others
  <1> QED BY <1>12, <1>16, <1>17, <1>18, <1>19, <1>20 DEF Loads

LEMMA LoadsMore ==
    ASSUME NEW f, NEW g, NEW h, NEW c, NEW S, NEW i, NEW T, NEW U,
           Loads(g, h, c, S), T = {i}, Loads(f, g, c, T), U = S \cup {i}
    PROVE  Loads(f, h, c, U)
  <1>1. WorkGrows(f.cpu, h.cpu, U)
    BY DEF Loads, WorkGrows
  <1>2. SameApps(f, h)
    BY DEF Loads, SameApps
  <1>3. Others(f, h, c)
    BY DEF Loads, Others
  <1>4. f.containers[c].invocations = h.containers[c].invocations \cup U
    BY DEF Loads
  <1> QED BY <1>1, <1>2, <1>3, <1>4 DEF Loads

LEMMA StartAllFits ==
    ASSUME NEW h, NEW k, NEW b, NEW c, NEW X, X = {c}, HostAt(h, k, b, X),
           c \in DOMAIN h.containers, Startable(h, c),
           NEW S, NEW s, ListHolds(s, S), s # <<>>,
           \A j \in S : j \in DOMAIN k /\ k[j] = "starting" /\ b[j] = c,
           Untold(k) = {}, Fits(h.containers, h.cpu, {}),
           NEW g, g = StartAll(h, c, s)
    PROVE  Loads(g, h, c, S)
  <1>1. s \in Seq(S) /\ IsInjective(s) /\ Range(s) = S /\ Len(s) \in Nat \ {0}
        /\ DOMAIN s = 1..Len(s) /\ \A n \in 1..Len(s) : s[n] \in S
    BY DEF ListHolds
  <1>2. PICK f : /\ f[0] = h /\ \A n \in 1..Len(s) : f[n] = StartInvocation(f[n - 1], c, s[n])
                 /\ StartAll(h, c, s) = f[Len(s)]
    BY <1>1, StartAllFolds
  <1> DEFINE Some(n) == {s[m] : m \in 1..n}
             F == {n \in 0..Len(s) : Begun(f[n], h, k, b, c, X, Some(n)) /\ Loads(f[n], h, c, Some(n))}
  <1>3. 0 \in F
    <2>1. Some(0) = {}
      OBVIOUS
    <2>2. NowTold(k, k, {})
      BY DEF NowTold
    <2>3. Begun(h, h, k, b, c, X, {})
      BY <2>2 DEF Begun, SameQueue
    <2>4. Loads(h, h, c, {})
      BY DEF Loads, WorkGrows, SameApps, Others
    <2>5. Begun(f[0], h, k, b, c, X, Some(0)) /\ Loads(f[0], h, c, Some(0))
      <3> HIDE DEF Some
      <3> QED BY <1>2, <2>1, <2>3, <2>4
    <2> HIDE DEF Some
    <2> QED BY <1>1, <2>5
  <1>4. ASSUME NEW n \in 1..Len(s), n - 1 \in F PROVE n \in F
    <2>1. Begun(f[n - 1], h, k, b, c, X, Some(n - 1)) /\ Loads(f[n - 1], h, c, Some(n - 1))
      BY <1>4
    <2>2. s[n] \notin Some(n - 1)
      BY <1>1 DEF IsInjective
    <2>3. Some(n) = Some(n - 1) \cup {s[n]}
      <3>1. 1..n = (1..(n - 1)) \cup {n}
        BY <1>1
      <3> QED BY <3>1
    <2>4. PICK T, i, p, g2 : T = Some(n - 1) /\ i = s[n] /\ p = f[n - 1] /\ g2 = f[n]
      OBVIOUS
    <2>5. i \in DOMAIN k /\ k[i] = "starting" /\ b[i] = c
      BY <1>1, <2>4
    <2>6. g2 = StartInvocation(p, c, i)
      BY <1>2, <2>4
    <2> HIDE DEF Some
    <2>7. PICK U : U = T \cup {i}
      OBVIOUS
    <2>8. Begun(p, h, k, b, c, X, T) /\ i \notin T /\ Loads(p, h, c, T) /\ Some(n) = U
      BY <2>1, <2>2, <2>3, <2>4, <2>7
    <2>9. Begun(g2, h, k, b, c, X, U)
      BY <2>5, <2>6, <2>7, <2>8, StartOneMore
    <2>10. PICK k2, Y : /\ NowTold(k2, k, T) /\ HostAt(p, k2, b, Y) /\ Y \subseteq X
                        /\ Startable(p, c) /\ DOMAIN p.containers = DOMAIN h.containers
      BY <2>8 DEF Begun
    <2>11. i \in DOMAIN k2 /\ k2[i] = "starting" /\ Untold(k2) = {}
      BY <2>5, <2>8, <2>10 DEF NowTold, Untold
    <2>12. PICK I : I = {i}
      OBVIOUS
    <2>13. Fits(p.containers, p.cpu, {}) /\ c \in DOMAIN p.containers /\ Y \subseteq {c}
      BY <2>8, <2>10 DEF Loads
    <2>14. Loads(g2, p, c, I)
      BY <2>5, <2>6, <2>10, <2>11, <2>12, <2>13, StartFits
    <2>15. Loads(g2, h, c, U)
      BY <2>7, <2>8, <2>12, <2>14, LoadsMore
    <2> QED BY <1>4, <2>4, <2>8, <2>9, <2>15
  <1> HIDE DEF F
  <1>5. \A n \in 0..Len(s) : n \in F
    BY <1>1, <1>3, <1>4, PrefixInduction
  <1>6. Len(s) \in F
    BY <1>1, <1>5
  <1>7. Loads(f[Len(s)], h, c, Some(Len(s)))
    BY <1>6 DEF F
  <1>8. Some(Len(s)) = S
    <2>1. Some(Len(s)) = Range(s)
      BY <1>1 DEF Range
    <2> QED BY <1>1, <2>1
  <1> QED BY <1>2, <1>7, <1>8

-----------------------------------------------------------------------------
(* The events of containers.                                                *)

\* Only the status and the window of container c may be different.
Calm(g, h, c) ==
    /\ g.cpu = h.cpu /\ SameRegistry(g, h) /\ IsHost(g) /\ Others(g, h, c)
    /\ g.containers[c].invocations = h.containers[c].invocations
    /\ IsContainer(g.containers[c])

LEMMA CalmTwice ==
    ASSUME NEW f, NEW g, NEW h, NEW c, Calm(f, g, c), Calm(g, h, c)
    PROVE  Calm(f, h, c)
  <1>1. Others(f, h, c)
    BY DEF Calm, Others
  <1> QED BY <1>1 DEF Calm, SameRegistry

LEMMA ChangeCalm ==
    ASSUME NEW h, NEW c \in DOMAIN h.containers, NEW v, NEW s, Restates(v, h, c, s),
           NEW g, Changes(g, h, c, v)
    PROVE  Calm(g, h, c)
  <1>1. /\ IsHost(g) /\ SameRegistry(g, h) /\ g.cpu = h.cpu
        /\ g.containers = [h.containers EXCEPT ![c] = v]
    BY DEF Changes
  <1>2. /\ IsContainer(v) /\ v.app = h.containers[c].app
        /\ v.invocations = h.containers[c].invocations
    BY DEF Restates, Becomes
  <1>3. /\ DOMAIN g.containers = DOMAIN h.containers /\ g.containers[c] = v
        /\ \A d \in DOMAIN h.containers : d # c => g.containers[d] = h.containers[d]
    BY <1>1
  <1> QED BY <1>1, <1>2, <1>3 DEF Calm, Others

LEMMA EventCalm ==
    ASSUME NEW h, NEW c \in DOMAIN h.containers, IsContainer(h.containers[c]),
           NEW g, IsHost(g), SameBooks(g, h), SameRegistry(g, h), g.cpu = h.cpu
    PROVE  Calm(g, h, c)
  BY DEF Calm, Others, SameBooks

LEMMA KeepAliveCalm ==
    ASSUME NEW h, IsHost(h), NEW c \in DOMAIN h.containers, IsContainer(h.containers[c]),
           NEW d, Decides(h, c, d), NEW g, g = KeepAlive(h, c, d)
    PROVE  Calm(g, h, c)
  <1>1. PICK x, t, v : /\ x = d.remember /\ t = Remembered(h, c, x)
                       /\ v = WithWindow(h.containers[c], x)
    OBVIOUS
  <1>2. Changes(t, h, c, v)
    BY <1>1, RememberDoes
  <1>3. PICK s : s = h.containers[c].status
    OBVIOUS
  <1>4. Restates(v, h, c, s)
    BY <1>1, <1>3, ChangedIs DEF Restates
  <1>5. Calm(t, h, c)
    BY <1>2, <1>4, ChangeCalm
  <1>6. IsHost(t) /\ c \in DOMAIN t.containers /\ IsContainer(t.containers[c])
    BY <1>5 DEF Calm, Others
  <1>7. ASSUME NEW now, g = NewEndEvent(Cancel(t, ContainerEnd(c)), c, now)
        PROVE  Calm(g, h, c)
    <2>1. PICK e, m : e = ContainerEnd(c) /\ m = Cancel(t, e)
      OBVIOUS
    <2>2. Cancels(m, t, e)
      BY <1>6, <2>1, CancelDoes
    <2>3. Calm(m, t, c)
      BY <1>6, <2>2, EventCalm DEF Cancels
    <2>4. IsHost(m) /\ c \in DOMAIN m.containers /\ IsContainer(m.containers[c])
      BY <1>6, <2>3 DEF Calm, Others
    <2>5. PICK r : r = IF now THEN "Terminated" ELSE m.containers[c].status
      OBVIOUS
    <2>6. PICK n, w : n = Marked(m, c, r) /\ w = WithStatus(m.containers[c], r)
      OBVIOUS
    <2>7. Changes(n, m, c, w)
      BY <2>4, <2>6, MarkDoes
    <2>8. Restates(w, m, c, r)
      BY <2>4, <2>6, ChangedIs DEF Restates
    <2>9. Calm(n, m, c)
      BY <2>4, <2>7, <2>8, ChangeCalm
    <2>10. IsHost(n) /\ c \in DOMAIN n.containers /\ IsContainer(n.containers[c])
      BY <2>4, <2>9 DEF Calm, Others
    <2>11. g = Emit(n, e)
      BY <1>7, <2>1, <2>5, <2>6 DEF NewEndEvent, Marked
    <2>12. Emits(g, n, e)
      BY <2>10, <2>11, EmitDoes
    <2>13. Calm(g, n, c)
      BY <2>10, <2>12, EventCalm DEF Emits
    <2>14. Calm(n, t, c)
      BY <2>3, <2>9, CalmTwice
    <2>15. Calm(g, t, c)
      BY <2>13, <2>14, CalmTwice
    <2> QED BY <1>5, <2>15, CalmTwice
  <1>8. CASE d.keep = "OldWindow"
    <2>1. g = t
      BY <1>1, <1>8 DEF KeepAlive, Remembered
    <2> QED BY <1>5, <2>1
  <1>9. CASE d.keep = "NewWindow"
    <2>1. g = NewEndEvent(Cancel(t, ContainerEnd(c)), c, FALSE)
      BY <1>1, <1>9 DEF KeepAlive, Remembered
    <2> QED BY <1>7, <2>1
  <1>10. CASE d.keep = "TerminateNow"
    <2>1. g = NewEndEvent(Cancel(t, ContainerEnd(c)), c, TRUE)
      BY <1>1, <1>10 DEF KeepAlive, Remembered
    <2> QED BY <1>7, <2>1
  <1> QED BY <1>8, <1>9, <1>10 DEF Decides

LEMMA CalmFits ==
    ASSUME NEW h, NEW c, NEW g, Calm(g, h, c), c \in DOMAIN h.containers,
           HeadIn(h.containers, h.cpu), NEW N, Fits(h.containers, h.cpu, N)
    PROVE  Fits(g.containers, g.cpu, N)
  <1>1. PICK cs, ds, u : cs = h.containers /\ ds = g.containers /\ u = h.cpu
    OBVIOUS
  <1>2. /\ g.cpu = u /\ DOMAIN ds = DOMAIN cs /\ \A d \in DOMAIN cs : d # c => ds[d] = cs[d]
        /\ ds[c].app = cs[c].app /\ ds[c].invocations = cs[c].invocations
    BY <1>1 DEF Calm, Others
  <1>3. \A d : d \in Busy(ds, u.waiting, N) <=> d \in Busy(cs, u.waiting, N)
    BY <1>2 DEF Busy
  <1>4. HeadIn(ds, u) /\ HeadIn(cs, u) /\ SameLoad(u, u) /\ Fits(cs, u, N)
    BY <1>1, <1>2 DEF HeadIn, SameLoad
  <1>5. \A d \in DOMAIN cs \cap DOMAIN ds : ds[d].app = cs[d].app
    BY <1>2
  <1>6. Fits(ds, u, N)
    BY ONLY <1>3, <1>4, <1>5, FitsSame
  <1> QED BY <1>1, <1>2, <1>6

\* What the handler of an event has done to the host before it tries the queue.
Shifts(m, h, c) ==
    /\ Fits(m.containers, m.cpu, {}) /\ SameApps(m, h) /\ m.queue = h.queue
    /\ DOMAIN m.containers \subseteq DOMAIN h.containers
    /\ \A d \in DOMAIN m.containers : d # c => m.containers[d] = h.containers[d]
    /\ c \in DOMAIN m.containers => m.containers[c].app = h.containers[c].app

\* A container that runs after it is short of one invocation of what it held.
Filled(m, h, k, b, c) ==
    c \in DOMAIN m.containers /\ m.containers[c].status \in {"Idle", "Running"} =>
      /\ h.containers[c].status # "Terminated"
      /\ \E x : Held(k, b, Holding, c) \subseteq m.containers[c].invocations \cup {x}

EndKept(v, u) == v.policy = u.policy /\ v.end = u.end

LEMMA DeliveredCalm ==
    ASSUME NEW h, IsHost(h), IsCpu(h.cpu), NEW e, \A n : e # InvocationEnd(n),
           NEW m, m = Delivered(h, e)
    PROVE  m.cpu = h.cpu
  <1>1. PICK u, v : u = h.cpu /\ v = m.cpu
    OBVIOUS
  <1>2. Takes(m, h, e)
    BY DeliveredDoes
  <1>3. v = [u EXCEPT !.end = IF e = InvocationEnd(u.end) THEN 0 ELSE u.end]
    BY <1>1, <1>2 DEF Takes
  <1>4. v = [u EXCEPT !.end = u.end]
    BY <1>3
  <1>5. v = u
    BY <1>1, <1>4, SameEnd
  <1> QED BY <1>1, <1>5

LEMMA OnStartFits ==
    ASSUME NEW h, NEW k, NEW b, HostAt(h, k, b, {}), Settled(h, k), NEW c,
           BagIn(ContainerStart(c), h.pending), NEW d, Decides(h, c, d),
           Fits(h.containers, h.cpu, {}),
           NEW g, g = OnContainerStart(Delivered(h, ContainerStart(c)), c, d)
    PROVE  Shifts(g, h, c) /\ Filled(g, h, k, b, c) /\ EndKept(g.cpu, h.cpu)
  <1>1. PICK m, X : m = Delivered(h, ContainerStart(c)) /\ X = {c}
    OBVIOUS
  <1>2. /\ HostAt(m, k, b, X) /\ c \in DOMAIN h.containers
        /\ h.containers[c].status = "Deploying" /\ h.containers[c].invocations = {}
        /\ SameBooks(m, h) /\ SameRegistry(m, h)
        /\ Starts(m.pending, c) = 0 /\ Ends(m.pending, c) = 0 /\ Ends(h.pending, c) = 0
    BY <1>1, StartDelivered
  <1>3. /\ m.containers = h.containers /\ m.reservations = h.reservations /\ m.queue = h.queue
        /\ SameApps(m, h)
    BY <1>2 DEF SameBooks, SameRegistry, SameApps
  <1>4. /\ IsHost(m) /\ ReservedFor(m.reservations, k, b) /\ Inside(h.containers, k, b)
        /\ IsHost(h) /\ IsCpu(h.cpu) /\ KnowsOf(h.cpu, h.pending, k, b)
        /\ StockOf(h.containers, h.next)
    BY <1>2 DEF HostAt, KnowsOf
  <1>5. m.cpu = h.cpu
    <2>1. PICK e : e = ContainerStart(c)
      OBVIOUS
    <2>2. \A n : e # InvocationEnd(n)
      BY <2>1, EventsDiffer
    <2> QED BY <1>1, <1>4, <2>1, <2>2, DeliveredCalm
  <1>6. Held(k, b, Holding, c) = Held(k, b, {"reserved"}, c)
    <2>1. Held(k, b, In, c) = {}
      BY <1>2, <1>4 DEF Inside
    <2>2. \A j \in DOMAIN k : k[j] # "starting"
      BY DEF Settled
    <2> QED BY <2>1, <2>2 DEF Held, Holding
  <1>7. CASE c \in DOMAIN m.reservations
    <2>1. PICK t : t = DropReservations(m, c)
      OBVIOUS
    <2>2. Drops(t, m, c)
      BY <1>4, <2>1, DropDoes
    <2>3. PICK k1 : k1 = [j \in DOMAIN k |->
                            IF k[j] = "reserved" /\ b[j] = c THEN "starting" ELSE k[j]]
      OBVIOUS
    <2>4. Taken(k1, k, b, c)
      BY <2>3 DEF Taken
    <2>5. HostAt(t, k1, b, X) /\ Reservation(t.reservations, c) = <<>>
      BY <1>1, <1>2, <2>2, <2>4, DropKeeps
    <2>6. /\ t.containers = h.containers /\ t.pending = m.pending /\ t.queue = h.queue
          /\ t.cpu = h.cpu /\ SameApps(t, h)
      BY <1>3, <1>5, <2>2 DEF Drops, SameRegistry, SameApps
    <2>7. Startable(t, c)
      BY <1>2, <2>5, <2>6 DEF Startable
    <2>8. PICK S, s : S = Held(k, b, {"reserved"}, c) /\ s = m.reservations[c]
      OBVIOUS
    <2>9. ListHolds(s, S) /\ s # <<>>
      BY <1>4, <1>7, <2>8 DEF ReservedFor, Reservation
    <2>10. \A j \in S : j \in DOMAIN k1 /\ k1[j] = "starting" /\ b[j] = c
      BY <2>3, <2>8 DEF Held
    <2>11. g = StartAll(t, c, s)
      BY <1>1, <1>7, <2>1, <2>8 DEF OnContainerStart, StartAll
    <2>12. Untold(k1) = {}
      BY <2>3 DEF Untold, Settled
    <2>13. Fits(t.containers, t.cpu, {}) /\ c \in DOMAIN t.containers
      BY <1>2, <2>6
    <2>14. Loads(g, t, c, S)
      BY <1>1, <2>5, <2>7, <2>9, <2>10, <2>11, <2>12, <2>13, StartAllFits
    <2>15. SameQueue(g, t)
      BY <1>1, <2>5, <2>7, <2>9, <2>10, <2>11, <2>13, StartAllKeeps
    <2>16. Shifts(g, h, c)
      BY <2>6, <2>14, <2>15 DEF Shifts, Loads, Others, SameApps, SameQueue
    <2>17. Filled(g, h, k, b, c)
      BY <1>2, <1>6, <2>8, <2>14 DEF Filled, Loads
    <2>18. EndKept(g.cpu, h.cpu)
      BY <2>6, <2>14 DEF EndKept, Loads, WorkGrows
    <2> QED BY <2>16, <2>17, <2>18
  <1>8. CASE c \notin DOMAIN m.reservations
    <2>1. PICK t, v : t = Marked(m, c, "Idle") /\ v = WithStatus(m.containers[c], "Idle")
      OBVIOUS
    <2>2. Changes(t, m, c, v)
      BY <1>4, <2>1, MarkDoes
    <2>3. Restates(v, m, c, "Idle") /\ IsContainer(m.containers[c]) /\ c \in DOMAIN m.containers
      <3>1. IsContainer(m.containers[c]) /\ c \in DOMAIN m.containers
        BY <1>2, <1>3, <1>4 DEF StockOf
      <3> QED BY <2>1, <3>1, ChangedIs DEF Restates
    <2>4. Calm(t, m, c)
      BY <2>2, <2>3, ChangeCalm
    <2>5. IsHost(t) /\ c \in DOMAIN t.containers /\ IsContainer(t.containers[c])
      BY <2>3, <2>4 DEF Calm, Others
    <2>6. Decides(t, c, d)
      BY <1>2, <2>2 DEF Decides, Changes
    <2>7. g = KeepAlive(t, c, d)
      BY <1>1, <1>8, <2>1 DEF OnContainerStart, Marked
    <2>8. Calm(g, t, c)
      BY <2>5, <2>6, <2>7, KeepAliveCalm
    <2>9. Calm(g, m, c)
      BY <2>4, <2>8, CalmTwice
    <2>10. HeadIn(m.containers, m.cpu) /\ Fits(m.containers, m.cpu, {})
      BY <1>3, <1>4, <1>5, WaitersInside
    <2>11. Fits(g.containers, g.cpu, {})
      BY <2>3, <2>9, <2>10, CalmFits
    <2>12. Shifts(g, h, c)
      BY <1>3, <2>9, <2>11 DEF Shifts, Calm, Others, SameRegistry, SameApps
    <2>13. Held(k, b, Holding, c) = {}
      <3>1. ListHolds(<<>>, Held(k, b, {"reserved"}, c))
        BY <1>4, <1>8 DEF ReservedFor, Reservation
      <3> QED BY <1>6, <3>1, ListNonEmpty
    <2>14. Filled(g, h, k, b, c)
      BY <1>2, <2>13 DEF Filled
    <2> QED BY <1>5, <2>9, <2>12, <2>14 DEF EndKept, Calm
  <1> QED BY <1>7, <1>8

LEMMA OnEndFits ==
    ASSUME NEW h, NEW k, NEW b, HostAt(h, k, b, {}), Settled(h, k), NEW c,
           BagIn(ContainerEnd(c), h.pending), Fits(h.containers, h.cpu, {}),
           NEW g, g = OnContainerEnd(Delivered(h, ContainerEnd(c)), c)
    PROVE  Shifts(g, h, c) /\ Filled(g, h, k, b, c) /\ EndKept(g.cpu, h.cpu)
  <1>1. PICK m, X : m = Delivered(h, ContainerEnd(c)) /\ X = {c}
    OBVIOUS
  <1>2. /\ HostAt(m, k, b, X) /\ c \in DOMAIN h.containers
        /\ CycleOf(h.containers[c].status, 0, 1, h.containers[c].invocations,
                   Reservation(h.reservations, c))
        /\ SameBooks(m, h) /\ SameRegistry(m, h)
    BY <1>1, EndDelivered
  <1>3. m.containers = h.containers /\ m.queue = h.queue /\ SameApps(m, h)
    BY <1>2 DEF SameBooks, SameRegistry, SameApps
  <1>4. /\ IsHost(m) /\ Inside(h.containers, k, b) /\ ReservedFor(h.reservations, k, b)
        /\ IsHost(h) /\ IsCpu(h.cpu) /\ KnowsOf(h.cpu, h.pending, k, b)
    BY <1>2 DEF HostAt, KnowsOf
  <1>5. m.cpu = h.cpu
    <2>1. PICK e : e = ContainerEnd(c)
      OBVIOUS
    <2>2. \A n : e # InvocationEnd(n)
      BY <2>1, EventsDiffer
    <2> QED BY <1>1, <1>4, <2>1, <2>2, DeliveredCalm
  <1>6. CASE h.containers[c].status \in {"Idle", "Terminated"}
    <2>1. g = DeleteContainer(m, c)
      BY <1>1, <1>2, <1>3, <1>6 DEF OnContainerEnd
    <2>2. PICK a : a = m.containers[c].app
      OBVIOUS
    <2>3. Deletes(g, m, c, a)
      BY <1>4, <2>1, <2>2, DeleteDoes
    <2>4. h.containers[c].invocations = {}
      BY <1>2, <1>6 DEF CycleOf
    <2>5. PICK cs, ds, u : cs = h.containers /\ ds = g.containers /\ u = h.cpu
      OBVIOUS
    <2>6. /\ g.cpu = u /\ DOMAIN ds = DOMAIN cs \ {c}
          /\ \A d \in DOMAIN ds : ds[d] = cs[d]
      BY <1>3, <1>5, <2>3, <2>5 DEF Deletes, Without
    <2>7. \A d : d \in Busy(ds, u.waiting, {}) <=> d \in Busy(cs, u.waiting, {})
      BY <2>4, <2>5, <2>6 DEF Busy
    <2>8. HeadIn(cs, u) /\ HeadIn(ds, u)
      <3>1. /\ HeadIn(cs, u)
            /\ \A d \in DOMAIN u.waiting : d \in DOMAIN cs /\ ~ (cs[d].invocations \subseteq Untold(k))
        BY <1>4, <2>5, WaitersInside
      <3>2. c \notin DOMAIN u.waiting
        BY <2>4, <2>5, <3>1
      <3>3. u.policy = "Isolated" /\ u.queue # <<>> => Head(u.queue) \in DOMAIN u.waiting
        <4>1. u.policy = "Isolated" => u.queue \in Seq(Nat) /\ Range(u.queue) = DOMAIN u.waiting
          BY <1>4, <2>5 DEF KnowsOf, Told, WaitingOf
        <4> QED BY <4>1 DEF Range
      <3> QED BY <2>6, <3>1, <3>2, <3>3 DEF HeadIn
    <2>9. SameLoad(u, u) /\ Fits(cs, u, {}) /\ \A d \in DOMAIN cs \cap DOMAIN ds : ds[d].app = cs[d].app
      BY <2>5, <2>6 DEF SameLoad
    <2>10. Fits(ds, u, {})
      BY ONLY <2>7, <2>8, <2>9, FitsSame
    <2>11. SameApps(g, h) /\ g.queue = h.queue
      BY <1>3, <2>3 DEF Deletes, SameRegistry, SameApps
    <2>12. Shifts(g, h, c)
      BY <2>5, <2>6, <2>10, <2>11 DEF Shifts
    <2>13. Filled(g, h, k, b, c)
      BY <2>5, <2>6 DEF Filled
    <2> QED BY <2>5, <2>6, <2>12, <2>13 DEF EndKept
  <1>7. CASE h.containers[c].status \notin {"Idle", "Terminated"}
    <2>1. g = m
      BY <1>1, <1>3, <1>7 DEF OnContainerEnd
    <2>2. Shifts(g, h, c)
      BY <1>3, <1>5, <2>1 DEF Shifts
    <2>3. h.containers[c].status = "Running" /\ Reservation(h.reservations, c) = <<>>
      BY <1>2, <1>7 DEF CycleOf
    <2>4. Held(k, b, Holding, c) = h.containers[c].invocations
      <3>1. Held(k, b, {"reserved"}, c) = {}
        BY <1>4, <2>3, ListNonEmpty DEF ReservedFor
      <3>2. \A j \in DOMAIN k : k[j] # "starting"
        BY DEF Settled
      <3>3. h.containers[c].invocations = Held(k, b, In, c)
        BY <1>2, <1>4 DEF Inside
      <3> QED BY <3>1, <3>2, <3>3 DEF Held, Holding
    <2>5. Filled(g, h, k, b, c)
      BY <1>3, <2>1, <2>3, <2>4 DEF Filled
    <2> QED BY <1>5, <2>1, <2>2, <2>5 DEF EndKept
  <1> QED BY <1>6, <1>7

-----------------------------------------------------------------------------
(* The cpu wakes containers: as many of the queue as fit, in order.         *)

HeadFits(h, c) ==
    /\ h.cpu.queue # <<>> /\ Head(h.cpu.queue) = c
    /\ h.cpu.load + ShareOf(h, c) <= h.cpu.cores

WorkSame(v, u) == v.policy = u.policy /\ v.end = u.end /\ v.work = u.work

LEMMA WakeFits ==
    ASSUME NEW h, NEW k, NEW b, Isolates(h, k, b), Inside(h.containers, k, b), Untold(k) = {},
           StockOf(h.containers, h.next), LoadFits(h.containers, h.cpu, {}),
           NEW c, HeadFits(h, c), NEW g, g = StartWaiting(h, c)
    PROVE  /\ g.containers = h.containers /\ g.next = h.next /\ LoadFits(h.containers, g.cpu, {})
           /\ WorkSame(g.cpu, h.cpu) /\ g.cpu.queue = Tail(h.cpu.queue)
  <1>1. PICK u, cs : u = h.cpu /\ cs = h.containers
    OBVIOUS
  <1>2. /\ IsHost(h) /\ IsABag(h.pending) /\ IsCpu(u) /\ u.policy = "Isolated"
        /\ WaitingOf(u.waiting, u.queue, k, b) /\ KnowsOf(u, h.pending, k, b)
    BY <1>1 DEF Isolates, KnowsOf, Told
  <1>3. /\ u.queue # <<>> /\ Head(u.queue) = c /\ u.load + ShareOf(h, c) <= u.cores
    BY <1>1 DEF HeadFits
  <1>4. PICK m, s : m = Woken(h, c) /\ s = u.waiting[c]
    OBVIOUS
  <1>5. g = EmitAll(m, s)
    BY <1>1, <1>3, <1>4 DEF StartWaiting, Woken, EmitAll
  <1>6. PICK l, q, w : /\ l = u.load + ShareOf(h, c) /\ q = Tail(u.queue)
                       /\ w = Without(u.waiting, c)
    OBVIOUS
  <1>7. PICK u2 : u2 = CpuOf(u.policy, u.cores, l, w, q, u.work, u.end, u.panicked)
    OBVIOUS
  <1>8. CpuChanges(m, h, u2)
    BY <1>1, <1>2, <1>4, <1>6, <1>7, WakeDoes
  <1>9. /\ u2.policy = u.policy /\ u2.waiting = w /\ u2.queue = q /\ u2.work = u.work
        /\ u2.end = u.end /\ u2.load = l /\ u2.cores = u.cores /\ u2.panicked = u.panicked
    BY <1>7 DEF CpuOf
  <1>10. /\ u.queue \in Seq(Nat) /\ Range(u.queue) = DOMAIN u.waiting
         /\ \A d \in DOMAIN u.waiting : ListHolds(u.waiting[d], Held(k, b, {"told"}, d))
    BY <1>2 DEF WaitingOf
  <1>11. c \in DOMAIN u.waiting
    BY <1>3, <1>10 DEF Range
  <1>12. PICK S : S = Held(k, b, {"told"}, c)
    OBVIOUS
  <1>13. ListHolds(s, S)
    BY <1>4, <1>10, <1>11, <1>12
  <1>14. IsHost(m) /\ m.cpu = u2 /\ IsABag(m.pending) /\ m.containers = cs /\ m.next = h.next
    BY <1>1, <1>2, <1>8 DEF CpuChanges, SameBooks
  <1>15. Answered(g, m, S)
    BY <1>5, <1>13, <1>14, EmitAllDoes
  <1>16. g.cpu = u2 /\ g.containers = cs /\ g.next = h.next
    BY <1>14, <1>15 DEF Answered, Working, SameBooks
  <1>17. c \in DOMAIN cs /\ ~ (cs[c].invocations \subseteq {})
    BY <1>1, <1>2, <1>11, WaitersInside
  <1>18. PICK T, R : T = Busy(cs, u.waiting, {}) /\ R = Busy(cs, w, {})
    OBVIOUS
  <1>19. R = T \cup {c} /\ c \notin T
    <2>1. DOMAIN w = DOMAIN u.waiting \ {c}
      BY <1>6 DEF Without
    <2> QED BY <1>11, <1>17, <1>18, <2>1 DEF Busy
  <1>20. AppsIn(cs, T) /\ cs[c].app \in App
    BY <1>1, <1>17, <1>18, FS_Subset DEF AppsIn, Busy, StockOf
  <1>21. Shares(cs, R) = Shares(cs, T) + ShareIn(cs, c)
    BY <1>19, <1>20, SharesAdded
  <1>22. ShareOf(h, c) = ShareIn(cs, c)
    BY <1>1 DEF ShareOf, ShareIn
  <1>23. LoadFits(cs, u2, {})
    BY <1>1, <1>3, <1>6, <1>9, <1>18, <1>21, <1>22 DEF LoadFits
  <1> QED BY <1>1, <1>6, <1>9, <1>16, <1>23 DEF WorkSame

\* The first n containers of the queue s have been tried: no more fit, or all did.
Waking(g, h, k, b, s, n) ==
    /\ Isolates(g, k, b) /\ g.containers = h.containers /\ g.next = h.next
    /\ LoadFits(h.containers, g.cpu, {}) /\ WorkSame(g.cpu, h.cpu)
    /\ \/ g.cpu.queue # <<>> /\ Crowded(h.containers, g.cpu)
       \/ g.cpu.queue = SubSeq(s, n + 1, Len(s))

LEMMA WakeOneMore ==
    ASSUME NEW h, NEW k, NEW b, Inside(h.containers, k, b), Untold(k) = {},
           StockOf(h.containers, h.next), NEW s \in Seq(Nat), NEW n \in Nat, n < Len(s),
           NEW g, Waking(g, h, k, b, s, n), NEW g2, g2 = StartWaiting(g, s[n + 1])
    PROVE  Waking(g2, h, k, b, s, n + 1)
  <1>1. PICK c : c = s[n + 1]
    OBVIOUS
  <1>2. /\ Isolates(g, k, b) /\ g.containers = h.containers /\ g.next = h.next
        /\ LoadFits(h.containers, g.cpu, {}) /\ WorkSame(g.cpu, h.cpu)
        /\ \/ g.cpu.queue # <<>> /\ Crowded(h.containers, g.cpu)
           \/ g.cpu.queue = SubSeq(s, n + 1, Len(s))
    BY DEF Waking
  <1>3. g.cpu.policy = "Isolated"
    BY <1>2 DEF Isolates
  <1>4. /\ SubSeq(s, n + 1, Len(s)) # <<>> /\ Head(SubSeq(s, n + 1, Len(s))) = c
        /\ Tail(SubSeq(s, n + 1, Len(s))) = SubSeq(s, n + 1 + 1, Len(s))
    <2>1. n + 1 \in 1..Len(s) /\ Len(s) \in n + 1..Len(s)
      OBVIOUS
    <2>2. /\ Head(SubSeq(s, n + 1, Len(s))) = c
          /\ Tail(SubSeq(s, n + 1, Len(s))) = SubSeq(s, n + 1 + 1, Len(s))
      BY <1>1, <2>1, HeadTailOfSubSeq
    <2>3. PICK t : t = SubSeq(s, n + 1, Len(s))
      OBVIOUS
    <2>4. t \in Seq(Nat) /\ Len(t) > 0
      BY <2>1, <2>3, SubSeqProperties
    <2>5. t # <<>>
      BY <2>4
    <2> QED BY <2>2, <2>3, <2>5
  <1>5. Isolates(g2, k, b)
    BY <1>2, WakeOne DEF Wakes
  <1>6. ShareOf(g, c) = ShareIn(h.containers, c)
    BY <1>2 DEF ShareOf, ShareIn
  <1>7. ASSUME g.cpu.queue # <<>>, Head(g.cpu.queue) = c
        PROVE  ShareIn(h.containers, c) \in Nat /\ g.cpu.load \in Nat /\ g.cpu.cores \in Nat
    <2>1. HeadIn(g.containers, g.cpu)
      BY <1>2, WaitersInside DEF Isolates
    <2>2. c \in DOMAIN h.containers
      BY <1>2, <1>3, <1>7, <2>1 DEF HeadIn
    <2>3. PICK T : T = Busy(h.containers, g.cpu.waiting, {})
      OBVIOUS
    <2>4. AppsIn(h.containers, T)
      BY <2>3, FS_Subset DEF AppsIn, Busy, StockOf
    <2>5. Shares(h.containers, T) \in Nat
      BY <2>4, SharesTyped
    <2> QED BY <1>2, <2>2, <2>3, <2>5, AppAssumption DEF LoadFits, ShareIn, StockOf
  <1>8. CASE HeadFits(g, c)
    <2>1. Inside(g.containers, k, b) /\ StockOf(g.containers, g.next) /\ LoadFits(g.containers, g.cpu, {})
      BY <1>2
    <2>2. g2 = StartWaiting(g, c)
      BY <1>1
    <2>3. /\ g2.containers = g.containers /\ g2.next = g.next /\ LoadFits(g.containers, g2.cpu, {})
          /\ WorkSame(g2.cpu, g.cpu) /\ g2.cpu.queue = Tail(g.cpu.queue)
      BY <1>2, <1>8, <2>1, <2>2, WakeFits
    <2>4. g.cpu.queue = SubSeq(s, n + 1, Len(s))
      <3>1. ASSUME g.cpu.queue # <<>>, Crowded(h.containers, g.cpu) PROVE FALSE
        <4>1. g.cpu.load + ShareIn(h.containers, c) > g.cpu.cores
          BY <1>3, <1>8, <3>1 DEF Crowded, HeadFits
        <4>2. g.cpu.load + ShareIn(h.containers, c) <= g.cpu.cores
          BY <1>6, <1>8 DEF HeadFits
        <4> QED BY <1>8, <1>7, <4>1, <4>2 DEF HeadFits
      <3> QED BY <1>2, <3>1
    <2>5. g2.cpu.queue = SubSeq(s, n + 1 + 1, Len(s))
      BY <1>4, <2>3, <2>4
    <2> QED BY <1>2, <1>5, <2>3, <2>5 DEF Waking, WorkSame
  <1>9. CASE ~ HeadFits(g, c)
    <2>1. g2 = g
      BY <1>1, <1>9 DEF StartWaiting, HeadFits
    <2>2. g.cpu.queue # <<>> /\ Crowded(h.containers, g.cpu)
      <3>1. CASE g.cpu.queue = SubSeq(s, n + 1, Len(s))
        <4>1. g.cpu.queue # <<>> /\ Head(g.cpu.queue) = c
          BY <1>4, <3>1
        <4>2. ~ (g.cpu.load + ShareIn(h.containers, c) <= g.cpu.cores)
          BY <1>6, <1>9, <4>1 DEF HeadFits
        <4> QED BY <1>7, <4>1, <4>2 DEF Crowded
      <3> QED BY <1>2, <3>1
    <2> QED BY <1>2, <2>1, <2>2 DEF Waking
  <1> QED BY <1>8, <1>9

LEMMA WakeAllFits ==
    ASSUME NEW h, NEW k, NEW b, Isolates(h, k, b), Inside(h.containers, k, b), Untold(k) = {},
           StockOf(h.containers, h.next), LoadFits(h.containers, h.cpu, {}),
           NEW g, g = WakeAll(h, h.cpu.queue)
    PROVE  g.containers = h.containers /\ Fits(h.containers, g.cpu, {}) /\ WorkSame(g.cpu, h.cpu)
  <1>1. PICK s : s = h.cpu.queue
    OBVIOUS
  <1>2. s \in Seq(Nat) /\ Len(s) \in Nat
    BY <1>1 DEF Isolates, KnowsOf, Told, WaitingOf
  <1>3. PICK f : /\ f[0] = h /\ \A n \in 1..Len(s) : f[n] = StartWaiting(f[n - 1], s[n])
                 /\ WakeAll(h, s) = f[Len(s)]
    BY <1>2, WakeAllFolds
  <1> DEFINE F == {n \in 0..Len(s) : Waking(f[n], h, k, b, s, n)}
  <1>4. 0 \in F
    <2>1. SubSeq(s, 0 + 1, Len(s)) = s
      BY <1>2
    <2>2. Waking(h, h, k, b, s, 0)
      BY <1>1, <2>1 DEF Waking, WorkSame
    <2> QED BY <1>2, <1>3, <2>2
  <1>5. ASSUME NEW n \in 1..Len(s), n - 1 \in F PROVE n \in F
    <2>1. PICK p, g1, g2 : p = n - 1 /\ g1 = f[n - 1] /\ g2 = f[n]
      OBVIOUS
    <2>2. p \in Nat /\ p < Len(s) /\ p + 1 = n
      BY <1>2, <2>1
    <2>3. Waking(g1, h, k, b, s, p)
      BY <1>5, <2>1
    <2>4. g2 = StartWaiting(g1, s[p + 1])
      BY <1>3, <2>1, <2>2
    <2>5. Waking(g2, h, k, b, s, p + 1)
      BY <1>2, <2>2, <2>3, <2>4, WakeOneMore
    <2> QED BY <1>5, <2>1, <2>2, <2>5
  <1> HIDE DEF F
  <1>6. \A n \in 0..Len(s) : n \in F
    BY <1>2, <1>4, <1>5, PrefixInduction
  <1>7. Len(s) \in F
    BY <1>2, <1>6
  <1>8. Waking(g, h, k, b, s, Len(s))
    BY <1>1, <1>3, <1>7 DEF F
  <1>9. SubSeq(s, Len(s) + 1, Len(s)) = <<>>
    BY <1>2
  <1>10. Crowded(h.containers, g.cpu)
    BY <1>8, <1>9 DEF Waking, Crowded
  <1> QED BY <1>8, <1>10 DEF Waking, Fits

-----------------------------------------------------------------------------
(* An invocation ends: its container's share is taken away with the last.   *)

\* Invocation i has left container c.
Emptied(ds, cs, c, i) ==
    /\ DOMAIN ds = DOMAIN cs /\ c \in DOMAIN cs
    /\ \A d \in DOMAIN cs : d # c => ds[d] = cs[d]
    /\ ds[c].app = cs[c].app /\ i \in cs[c].invocations
    /\ ds[c].invocations = cs[c].invocations \ {i}

LEMMA EmptiedLoad ==
    ASSUME NEW cs, NEW n, StockOf(cs, n), NEW ds, NEW c, NEW i, Emptied(ds, cs, c, i),
           NEW u, LoadFits(cs, u, {}), c \notin DOMAIN u.waiting,
           NEW l, l = IF ds[c].invocations = {} THEN u.load - ShareIn(ds, c) ELSE u.load
    PROVE  /\ l = Shares(ds, Busy(ds, u.waiting, {}))
           /\ l \in Nat /\ u.load \in Nat /\ l <= u.load
  <1>1. PICK T, R : T = Busy(cs, u.waiting, {}) /\ R = Busy(ds, u.waiting, {})
    OBVIOUS
  <1>2. AppsIn(cs, T)
    BY <1>1, FS_Subset DEF AppsIn, Busy, StockOf
  <1>3. \A d \in R : ds[d].app = cs[d].app
    BY <1>1 DEF Busy, Emptied
  <1>4. Shares(ds, R) = Shares(cs, R)
    BY ONLY <1>3, SharesSame
  <1>5. u.load = Shares(cs, T)
    BY <1>1 DEF LoadFits
  <1>6. Shares(cs, T) \in Nat
    BY <1>2, SharesTyped
  <1>7. ShareIn(ds, c) = ShareIn(cs, c)
    BY DEF ShareIn, Emptied
  <1>8. c \in T
    BY <1>1 DEF Busy, Emptied
  <1>9. CASE ds[c].invocations = {}
    <2>1. R = T \ {c}
      BY <1>1, <1>8, <1>9 DEF Busy, Emptied
    <2>2. /\ Shares(cs, R) = Shares(cs, T) - ShareIn(cs, c)
          /\ ShareIn(cs, c) \in Nat /\ Shares(cs, R) \in Nat
      BY <1>2, <1>8, <2>1, SharesTaken
    <2> QED BY <1>1, <1>4, <1>5, <1>6, <1>7, <1>9, <2>2
  <1>10. CASE ds[c].invocations # {}
    <2>1. R = T
      BY <1>1, <1>8, <1>10 DEF Busy, Emptied
    <2> QED BY <1>1, <1>4, <1>5, <1>6, <1>10, <2>1
  <1> QED BY <1>9, <1>10

LEMMA CpuEndFits ==
    ASSUME NEW e, IsHost(e), IsABag(e.pending), NEW k, NEW b, KnowsOf(e.cpu, e.pending, k, b),
           NEW i \in DOMAIN k, k[i] = "ending", NEW c,
           NEW k2, DOMAIN k2 = DOMAIN k, k2[i] = "finished",
           \A j \in DOMAIN k : j # i => k2[j] = k[j],
           Inside(e.containers, k2, b), StockOf(e.containers, e.next), Untold(k2) = {},
           NEW cs, NEW n, StockOf(cs, n), Emptied(e.containers, cs, c, i),
           Fits(cs, e.cpu, {}), HeadIn(cs, e.cpu), c \notin DOMAIN e.cpu.waiting,
           NEW g, g = CpuEnd(e, i, c)
    PROVE  /\ g.containers = e.containers /\ Fits(e.containers, g.cpu, {})
           /\ EndKept(g.cpu, e.cpu) /\ g.cpu.work = e.cpu.work \ {i}
  <1>1. PICK u, ds : u = e.cpu /\ ds = e.containers
    OBVIOUS
  <1>2. IsCpu(u) /\ Told(u, e.pending, k, b)
    BY <1>1 DEF KnowsOf
  <1>3. PICK l : l = IF Invocations(e, c) = {} THEN u.load - ShareOf(e, c) ELSE u.load
    OBVIOUS
  <1>4. PICK m : m = DropLoad(e, c)
    OBVIOUS
  <1>5. PICK u1 : u1 = CpuOf(u.policy, u.cores, l, u.waiting, u.queue, u.work, u.end, u.panicked)
    OBVIOUS
  <1>6. CpuChanges(m, e, u1)
    BY <1>1, <1>2, <1>3, <1>4, <1>5, DropLoadDoes
  <1>7. /\ u1.policy = u.policy /\ u1.waiting = u.waiting /\ u1.queue = u.queue /\ u1.cores = u.cores
        /\ u1.work = u.work /\ u1.end = u.end /\ u1.load = l /\ u1.panicked = u.panicked
    BY <1>5 DEF CpuOf
  <1>8. /\ IsHost(m) /\ m.containers = ds /\ m.next = e.next /\ m.pending = e.pending /\ m.cpu = u1
    BY <1>1, <1>6 DEF CpuChanges, SameBooks
  <1>9. IsCpu(u1)
    BY <1>5, Zenon DEF IsCpu
  <1>10. /\ LoadFits(cs, u, {}) /\ Emptied(ds, cs, c, i) /\ StockOf(cs, n)
         /\ c \notin DOMAIN u.waiting
         /\ l = IF ds[c].invocations = {} THEN u.load - ShareIn(ds, c) ELSE u.load
    BY <1>1, <1>3 DEF Fits, Invocations, ShareOf, ShareIn
  <1>11. l = Shares(ds, Busy(ds, u.waiting, {})) /\ l \in Nat /\ u.load \in Nat /\ l <= u.load
    BY ONLY <1>10, EmptiedLoad
  <1>12. LoadFits(ds, u1, {})
    BY <1>7, <1>10, <1>11 DEF LoadFits
  <1>13. \A j \in DOMAIN k : k2[j] = "told" <=> k[j] = "told"
    OBVIOUS
  <1>14. CASE u.policy = "Ignored"
    <2>1. g = m
      BY <1>1, <1>4, <1>14 DEF CpuEnd
    <2>2. u.work = {}
      BY <1>2, <1>14 DEF Told
    <2> QED BY <1>1, <1>7, <1>8, <1>12, <1>14, <2>1, <2>2 DEF Fits, Crowded, EndKept
  <1>15. CASE u.policy = "Contended"
    <2>1. PICK x : x = ~ (Invocations(e, c) \cup {i} \subseteq e.cpu.work)
      OBVIOUS
    <2>2. g = Leaves(m, i, x)
      BY <1>1, <1>4, <1>15, <2>1, <1>7, <1>8 DEF CpuEnd, ContendedEnd, Leaves
    <2>3. x = FALSE
      <3>1. u.work = {j \in DOMAIN k : k[j] \in {"told", "ending"}}
        BY <1>2, <1>15 DEF Told
      <3>2. Invocations(e, c) = Held(k2, b, In, c)
        BY <1>1, <1>10 DEF Invocations, Inside, Emptied
      <3>3. \A j \in Held(k2, b, In, c) : j \in DOMAIN k /\ k[j] \in {"told", "ending"}
        BY DEF Held, In, Untold
      <3> QED BY <1>1, <2>1, <3>1, <3>2, <3>3
    <2>4. PICK y, W : y = (m.cpu.panicked \/ x) /\ W = m.cpu.work \ {i}
      OBVIOUS
    <2>5. PICK u2 : u2 = CpuOf(m.cpu.policy, m.cpu.cores, m.cpu.load, m.cpu.waiting, m.cpu.queue,
                               W, m.cpu.end, y)
      OBVIOUS
    <2>6. CpuChanges(g, m, CpuOf(m.cpu.policy, m.cpu.cores, m.cpu.load, m.cpu.waiting, m.cpu.queue,
                                 (m.cpu.work \ {i}), m.cpu.end, (m.cpu.panicked \/ x)))
      BY <1>8, <1>9, <2>2, LeaveDoes
    <2>7. CpuChanges(g, m, u2)
      BY <2>4, <2>5, <2>6
    <2>8. /\ u2.policy = u.policy /\ u2.waiting = u.waiting /\ u2.work = u.work \ {i}
          /\ u2.end = u.end /\ u2.cores = u.cores /\ u2.load = l
      BY <1>7, <1>8, <2>4, <2>5 DEF CpuOf
    <2>9. u2.panicked = y
      BY <2>5 DEF CpuOf
    <2>10. ~ y
      BY <1>7, <1>8, <1>10, <2>3, <2>4 DEF LoadFits
    <2>11. g.cpu = u2 /\ g.containers = ds
      BY <1>8, <2>7 DEF CpuChanges, SameBooks
    <2>12. LoadFits(ds, u2, {})
      BY <1>10, <1>11, <1>15, <2>8, <2>9, <2>10 DEF LoadFits
    <2>13. Crowded(ds, u2)
      BY <1>15, <2>8 DEF Crowded
    <2> QED BY <1>1, <2>8, <2>11, <2>12, <2>13 DEF Fits, EndKept
  <1>16. CASE u.policy = "Isolated"
    <2>1. u.work = {} /\ WaitingOf(u.waiting, u.queue, k, b)
      BY <1>2, <1>16 DEF Told
    <2>2. CASE Invocations(e, c) = {}
      <3>1. WaitingOf(u1.waiting, u1.queue, k2, b)
        <4>1. \A d : Held(k2, b, {"told"}, d) = Held(k, b, {"told"}, d)
          BY <1>13 DEF Held
        <4> QED BY <1>7, <2>1, <4>1 DEF WaitingOf
      <3>2. Told(u1, m.pending, k2, b)
        BY <1>2, <1>7, <1>8, <1>13, <1>16, <3>1 DEF Told
      <3>3. Isolates(m, k2, b)
        BY <1>7, <1>8, <1>9, <1>16, <3>2 DEF Isolates, KnowsOf
      <3>4. g = WakeAll(m, m.cpu.queue)
        BY <1>1, <1>4, <1>7, <1>8, <1>16, <2>2 DEF CpuEnd, IsolatedEnd, WakeAll
      <3>5. /\ Inside(m.containers, k2, b) /\ StockOf(m.containers, m.next)
            /\ LoadFits(m.containers, m.cpu, {})
        BY <1>1, <1>8, <1>12
      <3>6. g.containers = m.containers /\ Fits(m.containers, g.cpu, {}) /\ WorkSame(g.cpu, m.cpu)
        BY <3>3, <3>4, <3>5, WakeAllFits
      <3> QED BY <1>1, <1>7, <1>8, <2>1, <3>6 DEF WorkSame, EndKept
    <2>3. CASE Invocations(e, c) # {}
      <3>1. g = e
        BY <1>1, <1>16, <2>3 DEF CpuEnd, IsolatedEnd
      <3>2. \A d : d \in Busy(ds, u.waiting, {}) <=> d \in Busy(cs, u.waiting, {})
        BY <1>1, <1>10, <2>3 DEF Busy, Emptied, Invocations
      <3>3. /\ HeadIn(cs, u) /\ HeadIn(ds, u) /\ SameLoad(u, u) /\ Fits(cs, u, {})
            /\ \A d \in DOMAIN cs \cap DOMAIN ds : ds[d].app = cs[d].app
        BY <1>1, <1>10 DEF HeadIn, SameLoad, Emptied
      <3>4. Fits(ds, u, {})
        BY ONLY <3>2, <3>3, FitsSame
      <3> QED BY <1>1, <2>1, <3>1, <3>4 DEF EndKept
    <2> QED BY <2>2, <2>3
  <1> QED BY <1>2, <1>14, <1>15, <1>16 DEF Told

-----------------------------------------------------------------------------
(* The end of an invocation: what the handler does to shares and work.      *)

LEMMA EndSetLoad ==
    ASSUME NEW u, IsCpu(u), NEW n, NEW v, v = EndSet(u, n)
    PROVE  SameLoad(v, u) /\ v.work = u.work /\ v.end = n
  <1>1. PICK po, co, l, w, q, wk, e, pn : u = CpuOf(po, co, l, w, q, wk, e, pn)
    BY DEF IsCpu
  <1>2. v = CpuOf(po, co, l, w, q, wk, n, pn)
    BY <1>1 DEF CpuOf, EndSet
  <1> QED BY <1>1, <1>2 DEF CpuOf, SameLoad

LEMMA AnswerLoad ==
    ASSUME NEW h, IsHost(h), IsCpu(h.cpu), NEW i, NEW m, m = Delivered(h, InvocationEnd(i))
    PROVE  /\ SameLoad(m.cpu, h.cpu) /\ m.cpu.work = h.cpu.work
           /\ m.cpu.end = IF h.cpu.end = i THEN 0 ELSE h.cpu.end
  <1>1. Takes(m, h, InvocationEnd(i))
    BY DeliveredDoes
  <1>2. PICK n : n = IF h.cpu.end = i THEN 0 ELSE h.cpu.end
    OBVIOUS
  <1>3. m.cpu = EndSet(h.cpu, n)
    <2>1. InvocationEnd(i) = InvocationEnd(h.cpu.end) <=> h.cpu.end = i
      BY EventsDiffer
    <2>2. n = IF InvocationEnd(i) = InvocationEnd(h.cpu.end) THEN 0 ELSE h.cpu.end
      BY <1>2, <2>1
    <2> QED BY <1>1, <2>2 DEF Takes, EndSet
  <1> QED BY <1>2, <1>3, EndSetLoad

\* The books of container c when invocation i has left it.
Departs(e, m, c, i) ==
    /\ Emptied(e.containers, m.containers, c, i) /\ IsContainer(e.containers[c])
    /\ e.cpu = m.cpu /\ SameApps(e, m) /\ e.queue = m.queue

LEMMA BooksDepart ==
    ASSUME NEW m, IsHost(m), NEW k, NEW b, EntriesOf(m.registry, k, b), NEW i \in DOMAIN k,
           NEW c \in DOMAIN m.containers, IsContainer(m.containers[c]),
           i \in m.containers[c].invocations,
           NEW e, e = LeaveContainer(TryMoveToFree(Finish(m, i, c), c), c, i)
    PROVE  Departs(e, m, c, i)
  <1>1. PICK f, t : f = Finish(m, i, c) /\ t = TryMoveToFree(f, c)
    OBVIOUS
  <1>2. Finishes(f, m, i, c)
    BY <1>1, FinishDoes
  <1>3. PICK a : a = f.containers[c].app
    OBVIOUS
  <1>4. IsHost(f)
    BY <1>2 DEF Finishes
  <1>5. Frozen(t, f)
    BY <1>1, <1>3, <1>4, TryFreeDoes
  <1>6. IsHost(t)
    BY <1>5 DEF Frozen
  <1>7. Vacates(e, t, c, i)
    BY <1>1, <1>6, LeaveContainerDoes
  <1>8. t.containers = m.containers /\ t.registry = f.registry /\ t.queue = m.queue /\ t.cpu = m.cpu
    BY <1>2, <1>5 DEF Finishes, Frozen, SameBooks, SameRegistry
  <1>9. PICK I, s, v : /\ v = t.containers[c] /\ I = v.invocations \ {i}
                       /\ s = IF Rests(v, i) THEN "Idle" ELSE v.status
    OBVIOUS
  <1>10. e.containers = [t.containers EXCEPT ![c] = Left(v, I, s)]
    BY <1>7, <1>9 DEF Vacates
  <1>11. Becomes(Left(v, I, s), v, s, I)
    BY <1>8, <1>9, LeftIs
  <1>12. Emptied(e.containers, m.containers, c, i) /\ IsContainer(e.containers[c])
    BY <1>8, <1>9, <1>10, <1>11 DEF Becomes, Emptied
  <1>13. SameApps(e, m)
    <2>1. EntryAgrees(m.registry[i], k[i], b[i]) /\ i \in DOMAIN m.registry
      BY DEF EntriesOf
    <2>2. PICK r, r2, x : /\ r = m.registry[i] /\ x = k[i]
                          /\ r2 = [r EXCEPT !.status = "Finished", !.container = c]
      OBVIOUS
    <2>3. EntryAgrees(r, x, b[i])
      BY <2>1, <2>2
    <2>4. r2.app = r.app
      BY <2>2, <2>3, EntryUpdated DEF EntryAgrees
    <2>5. f.registry = [m.registry EXCEPT ![i] = r2]
      BY <1>2, <2>2 DEF Finishes
    <2>6. e.registry = f.registry
      BY <1>7, <1>8 DEF Vacates, SameRegistry
    <2> QED BY <2>1, <2>2, <2>4, <2>5, <2>6 DEF SameApps
  <1> QED BY <1>7, <1>8, <1>12, <1>13 DEF Departs, Vacates, SameRegistry

\* A container that waits has no invocation of which the end may come.
LEMMA EnderRuns ==
    ASSUME NEW h, NEW k, NEW b, HostAt(h, k, b, {}), NEW i \in DOMAIN k, MayEnd(h, i),
           NEW c, c = b[i]
    PROVE  c \notin DOMAIN h.cpu.waiting
  <1>1. KnowsOf(h.cpu, h.pending, k, b) /\ IsABag(h.pending) /\ 0 \notin DOMAIN k
    BY DEF HostAt, CyclesOf, EntriesOf
  <1>2. Told(h.cpu, h.pending, k, b)
    BY <1>1 DEF KnowsOf
  <1>3. CASE h.cpu.policy = "Isolated"
    <2>1. h.cpu.end = 0 /\ Answers(h.pending, i) =
            IF k[i] = "told" /\ b[i] \notin DOMAIN h.cpu.waiting THEN 1 ELSE 0
      BY <1>2, <1>3 DEF Told
    <2>2. PICK e : e = InvocationEnd(i)
      OBVIOUS
    <2>3. BagIn(e, h.pending)
      BY <1>1, <2>1, <2>2 DEF MayEnd
    <2>4. Copies(e, h.pending) > 0
      BY <1>1, <2>3, CancelledCopies
    <2> QED BY <2>1, <2>2, <2>4 DEF Answers
  <1>4. CASE h.cpu.policy # "Isolated"
    BY <1>2, <1>4 DEF Told
  <1> QED BY <1>3, <1>4

\* Contended: the invocation is no more among the work.
EndTaken(v, u, i) ==
    /\ v.policy = u.policy /\ v.end = (IF u.end = i THEN 0 ELSE u.end)
    /\ v.work = u.work \ {i} /\ (u.policy = "Contended" => i \in u.work)

LEMMA OnInvocationEndFits ==
    ASSUME NEW h, NEW k, NEW b, HostAt(h, k, b, {}), Settled(h, k), NEW i \in DOMAIN k,
           MayEnd(h, i), NEW c, c = h.registry[i].container, NEW d, Decides(h, c, d),
           Fits(h.containers, h.cpu, {}),
           NEW g, g = OnInvocationEnd(Delivered(h, InvocationEnd(i)), i, d)
    PROVE  Shifts(g, h, c) /\ Filled(g, h, k, b, c) /\ EndTaken(g.cpu, h.cpu, i)
  <1>1. PICK X : X = {c}
    OBVIOUS
  <1>2. PICK m : m = Delivered(h, InvocationEnd(i))
    OBVIOUS
  <1>3. PICK k1 : DOMAIN k1 = DOMAIN k /\ k1[i] = "ending" /\ \A j \in DOMAIN k : j # i => k1[j] = k[j]
    <2> DEFINE K == [j \in DOMAIN k |-> IF j = i THEN "ending" ELSE k[j]]
    <2>1. DOMAIN K = DOMAIN k /\ K[i] = "ending" /\ \A j \in DOMAIN k : j # i => K[j] = k[j]
      OBVIOUS
    <2> QED BY <2>1
  <1>4. PICK k2 : DOMAIN k2 = DOMAIN k /\ k2[i] = "finished" /\ \A j \in DOMAIN k : j # i => k2[j] = k[j]
    <2> DEFINE K == [j \in DOMAIN k |-> IF j = i THEN "finished" ELSE k[j]]
    <2>1. DOMAIN K = DOMAIN k /\ K[i] = "finished" /\ \A j \in DOMAIN k : j # i => K[j] = k[j]
      OBVIOUS
    <2> QED BY <2>1
  <1>5. /\ k[i] = "told" /\ IsHost(m) /\ SameBooks(m, h) /\ SameRegistry(m, h)
        /\ KnowsOf(m.cpu, m.pending, k1, b) /\ IsABag(m.pending)
        /\ \A e : Starts(m.pending, e) = Starts(h.pending, e)
        /\ \A e : Ends(m.pending, e) = Ends(h.pending, e)
    BY <1>2, <1>3, AnswerDelivered
  <1>6. b[i] = c /\ c = m.registry[i].container /\ EntriesOf(m.registry, k, b)
    <2>1. EntriesOf(h.registry, k, b)
      BY DEF HostAt
    <2>2. EntryAgrees(h.registry[i], "told", b[i])
      BY <1>5, <2>1 DEF EntriesOf
    <2> QED BY <1>5, <2>1, <2>2 DEF EntryAgrees, SameRegistry
  <1>7. Moved(k2, b, k, b, i, "finished", c)
    BY <1>4, <1>6 DEF Moved
  <1>8. PICK e : e = LeaveContainer(TryMoveToFree(Finish(m, i, c), c), c, i)
    OBVIOUS
  <1>9. /\ HostButCpu(e, k2, b, X) /\ Vacated(e, c) /\ c \in Nat
        /\ e.cpu = m.cpu /\ e.pending = m.pending /\ SameQueue(e, h)
    <2>1. HostAt(h, k, b, {}) /\ i \in DOMAIN k
      OBVIOUS
    <2> QED BY ONLY <1>1, <1>5, <1>6, <1>7, <1>8, <2>1, EndBooks
  <1>10. PICK g1 : g1 = CpuEnd(e, i, c)
    OBVIOUS
  <1>11. /\ IsHost(h) /\ StockOf(h.containers, h.next) /\ Inside(h.containers, k, b)
         /\ KnowsOf(h.cpu, h.pending, k, b) /\ IsCpu(h.cpu)
    BY DEF HostAt, KnowsOf
  <1>12. /\ SameLoad(m.cpu, h.cpu) /\ m.cpu.work = h.cpu.work
         /\ m.cpu.end = IF h.cpu.end = i THEN 0 ELSE h.cpu.end
    BY <1>2, <1>11, AnswerLoad
  <1>13. m.containers = h.containers /\ m.queue = h.queue /\ m.registry = h.registry
    BY <1>5 DEF SameBooks, SameRegistry
  <1>14. c \in DOMAIN h.containers /\ i \in h.containers[c].invocations /\ IsContainer(h.containers[c])
    BY <1>5, <1>6, <1>11 DEF Inside, Holding, In, Held, StockOf
  <1>15. Departs(e, m, c, i)
    BY <1>5, <1>6, <1>8, <1>13, <1>14, BooksDepart
  <1>16. Emptied(e.containers, h.containers, c, i) /\ e.cpu = m.cpu
    BY <1>13, <1>15 DEF Departs
  <1>17. HeadIn(h.containers, h.cpu) /\ c \notin DOMAIN h.cpu.waiting
    BY <1>6, <1>11, WaitersInside, EnderRuns
  <1>18. HeadIn(h.containers, e.cpu) /\ c \notin DOMAIN e.cpu.waiting /\ Fits(h.containers, e.cpu, {})
    <2>1. PICK cs, u, v : cs = h.containers /\ u = h.cpu /\ v = e.cpu
      OBVIOUS
    <2>2. SameLoad(v, u)
      BY <1>9, <1>12, <2>1
    <2>3. HeadIn(cs, u) /\ Fits(cs, u, {})
      BY <1>17, <2>1
    <2>4. Fits(cs, v, {}) /\ HeadIn(cs, v)
      BY <2>2, <2>3 DEF Fits, LoadFits, Crowded, HeadIn, SameLoad
    <2> QED BY <1>17, <2>1, <2>2, <2>4 DEF SameLoad
  <1>19. /\ g1.containers = e.containers /\ Fits(e.containers, g1.cpu, {})
         /\ EndKept(g1.cpu, e.cpu) /\ g1.cpu.work = e.cpu.work \ {i}
    <2>1. IsHost(e) /\ IsABag(e.pending) /\ KnowsOf(e.cpu, e.pending, k1, b)
      BY <1>5, <1>9 DEF HostButCpu
    <2>2. DOMAIN k2 = DOMAIN k1 /\ \A j \in DOMAIN k1 : j # i => k2[j] = k1[j]
      BY <1>3, <1>4
    <2>3. Inside(e.containers, k2, b) /\ StockOf(e.containers, e.next)
      BY <1>9 DEF HostButCpu
    <2>4. Untold(k2) = {}
      BY <1>4 DEF Untold, Settled
    <2> QED BY <1>3, <1>4, <1>10, <1>11, <1>16, <1>18, <2>1, <2>2, <2>3, <2>4, CpuEndFits
  <1>20. Working(g1, e) /\ KnowsOf(g1.cpu, g1.pending, k2, b)
    <2>1. IsHost(e) /\ IsABag(e.pending) /\ KnowsOf(e.cpu, e.pending, k1, b)
      BY <1>5, <1>9 DEF HostButCpu
    <2>2. DOMAIN k2 = DOMAIN k1 /\ \A j \in DOMAIN k1 : j # i => k2[j] = k1[j]
      BY <1>3, <1>4
    <2> QED BY <1>3, <1>4, <1>10, <2>1, <2>2, CpuEnds
  <1>21. /\ Vacated(g1, c) /\ IsHost(g1) /\ Ends(g1.pending, c) = Ends(h.pending, c)
         /\ SameApps(g1, h) /\ g1.queue = h.queue
    BY ONLY <1>5, <1>9, <1>13, <1>15, <1>20 DEF Working, SameBooks, SameRegistry, Vacated, SameQueue,
                                                Departs, SameApps
  <1>22. g = IF g1.containers[c].status = "Idle" THEN KeepAlive(g1, c, d) ELSE g1
    <2>1. g1 = CpuEnd(LeaveContainer(TryMoveToFree(Finish(m, i, c), c), c, i), i, c)
      BY <1>8, <1>10
    <2> QED BY <1>2, <1>6, <2>1, OnInvocationEndIs
  <1>23. c \in DOMAIN g1.containers /\ IsContainer(g1.containers[c])
    BY <1>15, <1>16, <1>19 DEF Departs, Emptied
  <1>24. Others(g, g1, c) /\ g.cpu = g1.cpu /\ SameRegistry(g, g1)
         /\ g.containers[c].invocations = g1.containers[c].invocations /\ Fits(g.containers, g.cpu, {})
    <2>1. CASE g1.containers[c].status = "Idle"
      <3>1. Decides(g1, c, d)
        BY <1>21 DEF Decides
      <3>2. g = KeepAlive(g1, c, d)
        BY <1>22, <2>1
      <3>3. Calm(g, g1, c)
        BY <1>21, <1>23, <3>1, <3>2, KeepAliveCalm
      <3>4. HeadIn(g1.containers, g1.cpu) /\ Fits(g1.containers, g1.cpu, {})
        <4>1. Inside(g1.containers, k2, b)
          BY <1>9, <1>19 DEF HostButCpu
        <4> QED BY <1>19, <1>20, <4>1, WaitersInside
      <3>5. Fits(g.containers, g.cpu, {})
        BY <1>23, <3>3, <3>4, CalmFits
      <3> QED BY <3>3, <3>5 DEF Calm
    <2>2. CASE g1.containers[c].status # "Idle"
      <3>1. g = g1
        BY ONLY <1>22, <2>2
      <3> QED BY <1>19, <3>1 DEF Others, SameRegistry
    <2> QED BY <2>1, <2>2
  <1>25. Shifts(g, h, c)
    <2>1. PICK cs, ds, es, fs : /\ cs = h.containers /\ es = e.containers
                                /\ ds = g1.containers /\ fs = g.containers
      OBVIOUS
    <2>2. /\ DOMAIN fs = DOMAIN cs /\ \A x \in DOMAIN cs : x # c => fs[x] = cs[x]
          /\ fs[c].app = cs[c].app
      <3>1. Emptied(es, cs, c, i) /\ Others(g, g1, c) /\ ds = es /\ c \in DOMAIN cs
        BY <1>14, <1>16, <1>19, <1>24, <2>1
      <3>2. /\ DOMAIN es = DOMAIN cs /\ \A x \in DOMAIN cs : x # c => es[x] = cs[x]
            /\ es[c].app = cs[c].app
        BY ONLY <3>1 DEF Emptied
      <3>3. /\ DOMAIN fs = DOMAIN ds /\ \A x \in DOMAIN ds : x # c => fs[x] = ds[x]
            /\ (c \in DOMAIN ds => fs[c].app = ds[c].app)
        BY ONLY <2>1, <3>1 DEF Others
      <3> QED BY ONLY <3>1, <3>2, <3>3
    <2>3. SameApps(g, h) /\ g.queue = h.queue
      BY <1>21, <1>24 DEF SameApps, SameRegistry
    <2> QED BY <1>24, <2>1, <2>2, <2>3 DEF Shifts
  <1>26. Filled(g, h, k, b, c)
    <2>1. Held(k, b, Holding, c) = h.containers[c].invocations
      <3>1. CyclesOf(h.containers, h.reservations, h.pending, {}) /\ ReservedFor(h.reservations, k, b)
        BY DEF HostAt
      <3>2. CycleOf(h.containers[c].status, Starts(h.pending, c), Ends(h.pending, c),
                    h.containers[c].invocations, Reservation(h.reservations, c))
        BY <1>14, <3>1 DEF CyclesOf
      <3>3. Reservation(h.reservations, c) = <<>>
        BY <1>14, <3>2 DEF CycleOf
      <3>4. Held(k, b, {"reserved"}, c) = {}
        BY <3>1, <3>3, ListNonEmpty DEF ReservedFor
      <3>5. \A j \in DOMAIN k : k[j] # "starting"
        BY DEF Settled
      <3>6. h.containers[c].invocations = Held(k, b, In, c)
        BY <1>11, <1>14 DEF Inside
      <3> QED BY <3>4, <3>5, <3>6 DEF Held, Holding
    <2>2. h.containers[c].status # "Terminated"
      <3>1. CycleOf(h.containers[c].status, Starts(h.pending, c), Ends(h.pending, c),
                    h.containers[c].invocations, Reservation(h.reservations, c))
        BY <1>14 DEF HostAt, CyclesOf
      <3> QED BY <1>14, <3>1 DEF CycleOf
    <2>3. Held(k, b, Holding, c) \subseteq g.containers[c].invocations \cup {i}
      BY <1>16, <1>19, <1>24, <2>1 DEF Emptied
    <2> QED BY <2>2, <2>3 DEF Filled
  <1>27. EndTaken(g.cpu, h.cpu, i)
    <2>1. h.cpu.policy = "Contended" => i \in h.cpu.work
      BY <1>5, <1>11 DEF KnowsOf, Told
    <2> QED BY <1>9, <1>12, <1>19, <1>24, <2>1 DEF EndTaken, EndKept, SameLoad
  <1> QED BY <1>25, <1>26, <1>27

-----------------------------------------------------------------------------
(* When the queue is tried no container that runs takes more than one of    *)
(* what is queued: the naive invoker has left nothing that could be served, *)
(* and an event frees one place; or containers take one invocation only.    *)

Single(h) == h.invoker = "Naive" \/ \A i \in DOMAIN h.registry : Limit[AppOf(h, i)] = 1

Warm(cs, c) == c \in DOMAIN cs /\ cs[c].status \in {"Idle", "Running"}

Snug(h) ==
    \A p \in DOMAIN h.queue, c \in DOMAIN h.containers :
      Warm(h.containers, c) /\ h.containers[c].app = AppOf(h, h.queue[p]) =>
        Cardinality(h.containers[c].invocations) + 1 >= Limit[h.containers[c].app]

\* What a container that has started holds is inside.
LEMMA WarmHolds ==
    ASSUME NEW h, NEW k, NEW b, HostAt(h, k, b, {}), \A j \in DOMAIN k : k[j] # "starting",
           NEW c, Warm(h.containers, c)
    PROVE  /\ Held(k, b, Holding, c) = h.containers[c].invocations
           /\ IsFiniteSet(h.containers[c].invocations)
  <1>1. /\ CyclesOf(h.containers, h.reservations, h.pending, {})
        /\ ReservedFor(h.reservations, k, b) /\ Inside(h.containers, k, b)
        /\ IsFiniteSet(DOMAIN k)
    BY DEF HostAt, EntriesOf
  <1>2. CycleOf(h.containers[c].status, Starts(h.pending, c), Ends(h.pending, c),
                h.containers[c].invocations, Reservation(h.reservations, c))
    BY <1>1 DEF CyclesOf, Warm
  <1>3. Reservation(h.reservations, c) = <<>>
    BY <1>2 DEF CycleOf, Warm
  <1>4. Held(k, b, {"reserved"}, c) = {}
    BY <1>1, <1>3, ListNonEmpty DEF ReservedFor
  <1>5. h.containers[c].invocations = Held(k, b, In, c)
    BY <1>1 DEF Inside, Warm
  <1>6. Held(k, b, Holding, c) = h.containers[c].invocations
    BY <1>4, <1>5 DEF Held, Holding
  <1> QED BY <1>1, <1>6, HeldFinite

\* A container that is not listed as free is full.
LEMMA UnlistedFull ==
    ASSUME NEW h, NEW k, NEW b, HostAt(h, k, b, {}), NEW c \in DOMAIN h.containers,
           NEW a, a = h.containers[c].app
    PROVE  /\ a \in App /\ Limit[a] \in Nat \ {0} /\ Cardinality(Held(k, b, Holding, c)) \in Nat
           /\ c \notin Range(h.free[a]) => Cardinality(Held(k, b, Holding, c)) = Limit[a]
           /\ c \in Range(h.free[a]) => Cardinality(Held(k, b, Holding, c)) < Limit[a]
  <1>1. /\ ListsOf(h.containers, h.free, h.full, k, b) /\ StockOf(h.containers, h.next)
        /\ IsFiniteSet(DOMAIN k)
    BY DEF HostAt, EntriesOf
  <1>2. a \in App
    BY <1>1 DEF StockOf
  <1>3. Limit[a] \in Nat \ {0}
    BY <1>2, AppAssumption
  <1>4. Cardinality(Held(k, b, Holding, c)) \in Nat
    BY <1>1, HeldFinite, FS_CardinalityType
  <1>5. ListedAs(h.free, h.full, a, c, Cardinality(Held(k, b, Holding, c)))
    BY <1>1 DEF ListsOf
  <1> QED BY <1>2, <1>3, <1>4, <1>5 DEF ListedAs

LEMMA SnugAfter ==
    ASSUME NEW h, NEW k, NEW b, HostAt(h, k, b, {}), Settled(h, k), Served(h), Single(h),
           NEW m, NEW k2, NEW b2, HostAt(m, k2, b2, {}), Settled(m, k2),
           NEW c, Shifts(m, h, c), Filled(m, h, k, b, c)
    PROVE  Snug(m)
  <1> SUFFICES ASSUME NEW p \in DOMAIN m.queue, NEW d, Warm(m.containers, d),
                      NEW a, a = m.containers[d].app, a = AppOf(m, m.queue[p])
               PROVE  Cardinality(m.containers[d].invocations) + 1 >= Limit[a]
    BY DEF Snug
  <1>1. PICK I : I = m.containers[d].invocations
    OBVIOUS
  <1>2. \A j \in DOMAIN k2 : k2[j] # "starting"
    BY DEF Settled
  <1>3. \A j \in DOMAIN k : k[j] # "starting"
    BY DEF Settled
  <1>4. IsFiniteSet(I)
    BY <1>1, <1>2, WarmHolds
  <1>5. Cardinality(I) \in Nat
    BY <1>4, FS_CardinalityType
  <1>6. PICK j : j = h.queue[p]
    OBVIOUS
  <1>7. j = m.queue[p] /\ p \in DOMAIN h.queue /\ SameApps(m, h)
    BY <1>6 DEF Shifts
  <1>8. j \in DOMAIN h.registry
    <2>1. EntriesOf(h.registry, k, b)
      BY DEF HostAt
    <2> QED BY <1>6, <1>7, <2>1 DEF Settled, EntriesOf, Range
  <1>9. AppOf(h, j) = a
    BY <1>7, <1>8 DEF SameApps, AppOf
  <1>10. d \in DOMAIN h.containers /\ h.containers[d].app = a
    BY DEF Shifts, Warm
  <1>11. /\ Limit[a] \in Nat \ {0} /\ Cardinality(Held(k, b, Holding, d)) \in Nat
         /\ d \notin Range(h.free[a]) => Cardinality(Held(k, b, Holding, d)) = Limit[a]
    BY <1>10, UnlistedFull
  <1>12. CASE h.invoker # "Naive"
    <2>1. Limit[a] = 1
      BY <1>8, <1>9, <1>12 DEF Single
    <2> QED BY <1>1, <1>5, <2>1
  <1>13. CASE h.invoker = "Naive"
    <2>1. ~ CanInvoke(h, a, TRUE)
      BY <1>6, <1>7, <1>9, <1>13 DEF Served, Hopeless
    <2>2. h.containers[d].status # "Terminated" => d \notin Range(h.free[a])
      BY <2>1, CanInvokeIs
    <2>3. h.containers[d].status # "Terminated"
      BY DEF Shifts, Filled, Warm
    <2>4. Cardinality(Held(k, b, Holding, d)) = Limit[a]
      BY <1>11, <2>2, <2>3
    <2>5. PICK x : Held(k, b, Holding, d) \subseteq I \cup {x}
      <3>1. CASE d = c
        BY <1>1, <3>1 DEF Filled, Warm
      <3>2. CASE d # c
        <4>1. m.containers[d] = h.containers[d]
          BY <3>2 DEF Shifts, Warm
        <4>2. Warm(h.containers, d)
          BY <1>10, <4>1 DEF Warm
        <4>3. Held(k, b, Holding, d) = h.containers[d].invocations
          BY <1>3, <4>2, WarmHolds
        <4> QED BY <1>1, <4>1, <4>3
      <3> QED BY <3>1, <3>2
    <2>6. PICK J, H : J = I \cup {x} /\ H = Held(k, b, Holding, d)
      OBVIOUS
    <2>7. IsFiniteSet(J) /\ (Cardinality(J) = Cardinality(I) \/ Cardinality(J) = Cardinality(I) + 1)
      BY <1>4, <2>6, FS_AddElement
    <2>8. Cardinality(H) <= Cardinality(J)
      BY <2>5, <2>6, <2>7, FS_Subset
    <2> QED BY <1>1, <1>5, <1>11, <2>4, <2>6, <2>7, <2>8
  <1> QED BY <1>12, <1>13

-----------------------------------------------------------------------------
(* What the invoker does to the cpu and to the containers that run.         *)

\* Containers may be deployed and places reserved: the cpu is not concerned.
Widens(g, h) ==
    /\ g.cpu = h.cpu /\ DOMAIN h.containers \subseteq DOMAIN g.containers
    /\ \A d \in DOMAIN h.containers : g.containers[d] = h.containers[d]
    /\ \A d \in DOMAIN g.containers \ DOMAIN h.containers :
         g.containers[d].status = "Deploying" /\ g.containers[d].invocations = {}
    /\ \A d \in DOMAIN h.containers : LET a == h.containers[d].app IN
         d \in Range(g.free[a]) => d \in Range(h.free[a])

LEMMA WidensTwice ==
    ASSUME NEW f, NEW g, NEW h, Widens(f, g), Widens(g, h)
    PROVE  Widens(f, h)
  BY DEF Widens

LEMMA WidensSame ==
    ASSUME NEW h
    PROVE  Widens(h, h)
  BY DEF Widens

LEMMA WidensFits ==
    ASSUME NEW g, NEW h, Widens(g, h), NEW N, Fits(h.containers, h.cpu, N),
           HeadIn(h.containers, h.cpu)
    PROVE  Fits(g.containers, g.cpu, N)
  <1>1. PICK cs, ds, u : cs = h.containers /\ ds = g.containers /\ u = h.cpu
    OBVIOUS
  <1>2. /\ g.cpu = u /\ DOMAIN cs \subseteq DOMAIN ds
        /\ \A d \in DOMAIN cs : ds[d] = cs[d]
        /\ \A d \in DOMAIN ds \ DOMAIN cs : ds[d].invocations = {}
    BY <1>1 DEF Widens
  <1>3. \A d : d \in Busy(ds, u.waiting, N) <=> d \in Busy(cs, u.waiting, N)
    BY <1>2 DEF Busy
  <1>4. /\ HeadIn(cs, u) /\ HeadIn(ds, u) /\ SameLoad(u, u) /\ Fits(cs, u, N)
        /\ \A d \in DOMAIN cs \cap DOMAIN ds : ds[d].app = cs[d].app
    BY <1>1, <1>2 DEF HeadIn, SameLoad
  <1>5. Fits(ds, u, N)
    BY ONLY <1>3, <1>4, FitsSame
  <1> QED BY <1>1, <1>2, <1>5

LEMMA DeployWidens ==
    ASSUME NEW h, NEW k, NEW b, HostAt(h, k, b, {}), NEW a \in App,
           NEW g, g = DeployContainer(h, a)
    PROVE  Widens(g, h)
  <1>1. /\ IsHost(h) /\ StockOf(h.containers, h.next) /\ ListsOf(h.containers, h.free, h.full, k, b)
    BY DEF HostAt
  <1>2. Deploys(g, h, a)
    BY <1>1, DeployDoes
  <1>3. PICK n, cs, fr : n = h.next /\ cs = h.containers /\ fr = h.free
    OBVIOUS
  <1>4. n \notin DOMAIN cs /\ n \in Nat /\ DOMAIN fr = App /\ fr[a] \in Seq(Nat) /\ IsInjective(fr[a])
    BY <1>1, <1>3 DEF StockOf, ListsOf
  <1>5. g.containers = With(cs, n, NewContainer(a)) /\ g.cpu = h.cpu
        /\ g.free = [fr EXCEPT ![a] = Append(fr[a], n)]
    BY <1>2, <1>3 DEF Deploys
  <1>6. /\ DOMAIN cs \subseteq DOMAIN g.containers
        /\ \A d \in DOMAIN cs : g.containers[d] = cs[d]
        /\ DOMAIN g.containers \ DOMAIN cs = {n} /\ g.containers[n] = NewContainer(a)
    BY <1>4, <1>5 DEF With
  <1>7. \A d \in DOMAIN cs : \A e : d \in Range(g.free[e]) => d \in Range(fr[e])
    <2>1. n \notin Range(fr[a])
      BY <1>1, <1>3, <1>4 DEF ListsOf
    <2>2. Range(Append(fr[a], n)) = Range(fr[a]) \cup {n}
      BY <1>4, <2>1, AppendDistinct
    <2>3. g.free[a] = Append(fr[a], n) /\ \A e : e # a => g.free[e] = fr[e]
      BY <1>4, <1>5
    <2>4. ASSUME NEW d \in DOMAIN cs, NEW e, d \in Range(g.free[e]) PROVE d \in Range(fr[e])
      <3>1. d # n
        BY <1>4
      <3>2. CASE e = a
        BY <2>2, <2>3, <2>4, <3>1, <3>2
      <3>3. CASE e # a
        BY <2>3, <2>4, <3>3
      <3> QED BY <3>2, <3>3
    <2> QED BY <2>4
  <1>8. NewContainer(a).status = "Deploying" /\ NewContainer(a).invocations = {}
    BY DEF NewContainer
  <1> QED BY <1>3, <1>5, <1>6, <1>7, <1>8 DEF Widens

\* What is taken off a list is not put on another.
LEMMA RelistLess ==
    ASSUME NEW cs, NEW fr, NEW fu, NEW k, NEW b, ListsOf(cs, fr, fu, k, b),
           NEW fr2, NEW fu2, NEW a, NEW c, NEW full, Relisted(fr2, fu2, fr, fu, a, c, full),
           NEW e \in App, NEW d, d \in Range(fr2[e])
    PROVE  d \in Range(fr[e])
  <1>1. DOMAIN fr = App /\ fr[e] \in Seq(Nat) /\ IsInjective(fr[e])
    BY DEF ListsOf
  <1>2. CASE fr2 = fr
    BY <1>2
  <1>3. CASE fr2 = [fr EXCEPT ![a] = SwapRemove(fr[a], c)]
    <2>1. CASE e = a
      <3>1. Range(SwapRemove(fr[e], c)) = Range(fr[e]) \ {c}
        BY <1>1, SwapRemoveDistinct
      <3>2. fr2[e] = SwapRemove(fr[e], c)
        BY <1>1, <1>3, <2>1
      <3> QED BY <3>1, <3>2
    <2>2. CASE e # a
      BY <1>1, <1>3, <2>2
    <2> QED BY <2>1, <2>2
  <1> QED BY <1>2, <1>3 DEF Relisted

LEMMA ReserveWidens ==
    ASSUME NEW h, NEW k, NEW b, HostAt(h, k, b, {}), NEW c \in DOMAIN h.containers,
           NEW i, NEW g, g = EnterReservation(h, c, i)
    PROVE  Widens(g, h)
  <1>1. /\ IsHost(h) /\ StockOf(h.containers, h.next)
        /\ ListsOf(h.containers, h.free, h.full, k, b)
    BY DEF HostAt
  <1>2. PICK g1 : g1 = Assign(h, i, "WaitingForContainer", c)
    OBVIOUS
  <1>3. PICK g2, a : g2 = Reserve(g1, c, i) /\ a = h.containers[c].app
    OBVIOUS
  <1>4. PICK n : n = Len(Reserved(g2, c))
    OBVIOUS
  <1>5. g = IfFull(g2, c, n)
    BY <1>2, <1>3, <1>4 DEF EnterReservation, Bind
  <1>6. Assigns(g1, h, i, "WaitingForContainer", c)
    BY <1>1, <1>2, AssignDoes
  <1>7. Reserves(g2, g1, c, i)
    BY <1>3, <1>6, ReserveDoes DEF Assigns
  <1>8. g2.containers = h.containers
    BY <1>6, <1>7 DEF Assigns, Reserves, SameBooks
  <1>9. Relists(g, g2, c, a, n = Limit[a])
    BY <1>3, <1>5, <1>7, <1>8, IfFullDoes DEF Reserves
  <1>10. /\ g.containers = h.containers /\ g.cpu = h.cpu
         /\ Relisted(g.free, g.full, h.free, h.full, a, c, n = Limit[a])
    BY <1>6, <1>7, <1>9 DEF Assigns, Reserves, Relists, SameBooks, SameRegistry
  <1>11. ASSUME NEW e \in App, NEW d, d \in Range(g.free[e]) PROVE d \in Range(h.free[e])
    BY <1>1, <1>10, <1>11, RelistLess
  <1>12. \A d \in DOMAIN h.containers : h.containers[d].app \in App
    BY <1>1 DEF StockOf
  <1> QED BY <1>10, <1>11, <1>12 DEF Widens

\* What the invoker offers is on the list of the host as it was, or deployed for it.
LEMMA TryWidens ==
    ASSUME NEW h, NEW k, NEW b, HostAt(h, k, b, {}), NEW a \in App, NEW t, t = TryInvoke(h, a)
    PROVE  Widens(t.host, h) /\ (t.kind = "Warm" => t.host = h)
  <1>1. PICK ids, warm : /\ ids = PossibleContainers(h, a, TRUE)
                         /\ warm = PossibleContainers(h, a, FALSE)
    OBVIOUS
  <1>2. Widens(h, h)
    BY WidensSame
  <1>3. CASE warm # {}
    <2>1. ids # {}
      <3>1. /\ PossibleContainers(h, a, TRUE) =
                 {c \in Range(h.free[a]) : h.containers[c].status \in {"Idle", "Running", "Deploying"}}
            /\ PossibleContainers(h, a, FALSE) =
                 {c \in Range(h.free[a]) : h.containers[c].status \in {"Idle", "Running"}}
        BY PossibleAre
      <3>2. warm \subseteq ids
        BY ONLY <1>1, <3>1
      <3> QED BY <1>3, <3>2
    <2>2. t = [kind |-> "Warm", container |-> FirstIn(h.free[a], warm), host |-> h]
      BY <1>1, <1>3, <2>1 DEF TryInvoke
    <2> QED BY <1>2, <2>2
  <1>4. CASE warm = {} /\ ids # {}
    <2>1. PICK x : x = CHOOSE c \in ids : \A d \in ids : c <= d
      OBVIOUS
    <2>2. t = [kind |-> "Cold", host |-> h, container |-> x]
      BY <1>1, <1>4, <2>1 DEF TryInvoke
    <2> QED BY <1>2, <2>2
  <1>5. CASE warm = {} /\ ids = {} /\ CanAllocate(h, a)
    <2>1. PICK g : g = DeployContainer(h, a)
      OBVIOUS
    <2>2. t = [kind |-> "Cold", container |-> h.next, host |-> g]
      BY <1>1, <1>5, <2>1 DEF TryInvoke
    <2>3. Widens(g, h)
      BY <2>1, DeployWidens
    <2> QED BY <2>2, <2>3
  <1>6. CASE warm = {} /\ ids = {} /\ ~ CanAllocate(h, a)
    <2>1. t = [kind |-> "Rejected", container |-> NoContainer, host |-> h]
      BY <1>1, <1>6 DEF TryInvoke
    <2> QED BY <1>2, <2>1
  <1> QED BY <1>3, <1>4, <1>5, <1>6

-----------------------------------------------------------------------------
(* The queue is tried, and what was started is told to the cpu.             *)

Items(S) == {S[p][1] : p \in DOMAIN S}

\* The invocations started are in different containers, that are full.
Apart(S, H) ==
    /\ \A p, r \in DOMAIN S : S[p][2] = S[r][2] => p = r
    /\ \A p \in DOMAIN S : /\ S[p][2] \in DOMAIN H.containers
                           /\ S[p][2] \notin Range(H.free[H.containers[S[p][2]].app])

\* The first items of the queue q of host h have been tried: host H, those started S.
FitsTrial(H, S, h, q) ==
    /\ H.cpu = h.cpu /\ Fits(H.containers, h.cpu, Items(S)) /\ Apart(S, H)
    /\ \A p \in DOMAIN S : S[p][1] \in Range(q)
    /\ \A d : Warm(H.containers, d) =>
         \/ \E p \in DOMAIN S : S[p][2] = d
         \/ d \in DOMAIN h.containers /\ H.containers[d] = h.containers[d]

Longer(R, S, i, c) ==
    /\ Items(R) = Items(S) \cup {i}
    /\ \A p \in DOMAIN R : \/ p \in DOMAIN S /\ R[p] = S[p]
                           \/ p = Len(S) + 1 /\ R[p][1] = i /\ R[p][2] = c
    /\ \A p \in DOMAIN S : p \in DOMAIN R /\ R[p] = S[p]
    /\ Len(S) + 1 \in DOMAIN R /\ R[Len(S) + 1][2] = c

LEMMA ItemsLonger ==
    ASSUME NEW T, NEW S \in Seq(T), NEW i, NEW c, NEW R, R = Append(S, <<i, c>>)
    PROVE  Longer(R, S, i, c)
  <1>1. Len(S) \in Nat /\ DOMAIN S = 1..Len(S) /\ DOMAIN R = 1..Len(S) + 1
    OBVIOUS
  <1>2. \A p \in DOMAIN S : R[p] = S[p]
    BY <1>1
  <1>3. R[Len(S) + 1] = <<i, c>>
    BY <1>1
  <1>4. \A p \in DOMAIN R : p \in DOMAIN S \/ p = Len(S) + 1
    BY <1>1
  <1>5. Len(S) + 1 \in DOMAIN R /\ DOMAIN S \subseteq DOMAIN R
    BY <1>1
  <1>6. R[Len(S) + 1][1] = i /\ R[Len(S) + 1][2] = c
    BY <1>3
  <1>7. Items(R) = Items(S) \cup {i}
    BY <1>2, <1>4, <1>5, <1>6 DEF Items
  <1> QED BY <1>2, <1>4, <1>5, <1>6, <1>7 DEF Longer

\* Nothing is started.
LEMMA TrialWidens ==
    ASSUME NEW H, NEW S, NEW h, NEW q, FitsTrial(H, S, h, q), NEW G, Widens(G, H),
           HeadIn(H.containers, H.cpu)
    PROVE  FitsTrial(G, S, h, q)
  <1>1. /\ H.cpu = h.cpu /\ Fits(H.containers, h.cpu, Items(S)) /\ Apart(S, H)
        /\ \A p \in DOMAIN S : S[p][1] \in Range(q)
        /\ \A d : Warm(H.containers, d) =>
             \/ \E p \in DOMAIN S : S[p][2] = d
             \/ d \in DOMAIN h.containers /\ H.containers[d] = h.containers[d]
    BY DEF FitsTrial
  <1>2. PICK N : N = Items(S)
    OBVIOUS
  <1>3. Fits(G.containers, G.cpu, N) /\ G.cpu = h.cpu
    BY <1>1, <1>2, WidensFits DEF Widens
  <1>4. Apart(S, G)
    BY <1>1 DEF Apart, Widens
  <1>5. \A d : Warm(G.containers, d) => Warm(H.containers, d) /\ G.containers[d] = H.containers[d]
    BY DEF Warm, Widens
  <1> QED BY <1>1, <1>2, <1>3, <1>4, <1>5 DEF FitsTrial

\* Invocation i is started in container c, which is on the list and takes one only.
LEMMA TrialEnters ==
    ASSUME NEW H, NEW S, NEW h, NEW q, FitsTrial(H, S, h, q),
           NEW T, S \in Seq(T), NEW k, NEW b, HostAt(H, k, b, {}),
           NEW i \in DOMAIN k, k[i] = "nowhere", i \in Range(q),
           \A j \in DOMAIN k : k[j] # "starting",
           NEW c, Warm(H.containers, c), NEW a, a = H.containers[c].app, c \in Range(H.free[a]),
           Cardinality(H.containers[c].invocations) + 1 >= Limit[a],
           NEW m, m = EnterContainer(H, c, i),
           NEW g, g = IfFull(m, c, Cardinality(Invocations(m, c))),
           NEW k2, NEW b2, HostAt(g, k2, b2, {}), \A j \in DOMAIN k2 : k2[j] # "starting",
           NEW R, R = Append(S, <<i, c>>)
    PROVE  FitsTrial(g, R, h, q)
  <1>1. /\ H.cpu = h.cpu /\ Fits(H.containers, h.cpu, Items(S)) /\ Apart(S, H)
        /\ \A p \in DOMAIN S : S[p][1] \in Range(q)
        /\ \A d : Warm(H.containers, d) =>
             \/ \E p \in DOMAIN S : S[p][2] = d
             \/ d \in DOMAIN h.containers /\ H.containers[d] = h.containers[d]
    BY DEF FitsTrial
  <1>2. /\ IsHost(H) /\ StockOf(H.containers, H.next) /\ Inside(H.containers, k, b)
        /\ ListsOf(H.containers, H.free, H.full, k, b) /\ KnowsOf(H.cpu, H.pending, k, b)
    BY DEF HostAt
  <1>3. c \in DOMAIN H.containers /\ IsContainer(H.containers[c]) /\ a \in App
    BY <1>2 DEF Warm, StockOf
  <1>4. Enters(m, H, c, i)
    BY <1>2, EnterDoes
  <1>5. /\ m.cpu = H.cpu /\ Others(m, H, c) /\ m.containers[c].status = "Running"
        /\ m.containers[c].invocations = H.containers[c].invocations \cup {i}
    BY <1>3, <1>4, EnterChanges
  <1>6. IsHost(m) /\ a = m.containers[c].app /\ m.free = H.free /\ m.full = H.full
    BY <1>3, <1>4, <1>5 DEF Enters, Others
  <1>7. PICK n : n = Cardinality(Invocations(m, c))
    OBVIOUS
  <1>8. Relists(g, m, c, a, n = Limit[a])
    BY <1>6, <1>7, IfFullDoes
  <1>9. g.containers = m.containers /\ g.cpu = m.cpu
        /\ Relisted(g.free, g.full, H.free, H.full, a, c, n = Limit[a])
    BY <1>6, <1>8 DEF Relists
  <1>10. /\ Items(R) = Items(S) \cup {i}
         /\ \A p \in DOMAIN R : \/ p \in DOMAIN S /\ R[p] = S[p]
                                \/ p = Len(S) + 1 /\ R[p][1] = i /\ R[p][2] = c
         /\ \A p \in DOMAIN S : p \in DOMAIN R /\ R[p] = S[p]
         /\ Len(S) + 1 \in DOMAIN R /\ R[Len(S) + 1][2] = c
    <2>1. S \in Seq(T) /\ R = Append(S, <<i, c>>)
      OBVIOUS
    <2>2. Longer(R, S, i, c)
      BY ONLY <2>1, ItemsLonger
    <2> QED BY ONLY <2>2 DEF Longer
  <1>11. Fits(g.containers, g.cpu, Items(R))
    <2>1. \A d \in DOMAIN H.containers : i \notin H.containers[d].invocations
      BY <1>2 DEF Inside, Held, In
    <2>2. PICK N, M : N = Items(S) /\ M = Items(R)
      OBVIOUS
    <2>3. HeadIn(H.containers, H.cpu)
      BY <1>2, WaitersInside
    <2>4. Fits(H.containers, H.cpu, N) /\ M = N \cup {i}
      BY <1>1, <1>10, <2>2
    <2>5. Fits(m.containers, m.cpu, M)
      BY <1>3, <1>4, <2>1, <2>3, <2>4, EnterFits
    <2> QED BY <1>9, <2>2, <2>5
  <1>12. DOMAIN g.containers = DOMAIN H.containers
         /\ \A d \in DOMAIN H.containers : g.containers[d].app = H.containers[d].app
    BY <1>3, <1>5, <1>9 DEF Others
  <1>13. c \notin Range(g.free[a])
    <2>1. PICK I, J : I = H.containers[c].invocations /\ J = g.containers[c].invocations
      OBVIOUS
    <2>2. J = I \cup {i} /\ i \notin I
      BY <1>2, <1>3, <1>5, <1>9, <2>1 DEF Inside, Held, In
    <2>3. IsFiniteSet(I)
      BY <2>1, WarmHolds
    <2>4. Cardinality(J) = Cardinality(I) + 1 /\ Cardinality(I) \in Nat
      BY <2>2, <2>3, FS_AddElement, FS_CardinalityType
    <2>5. Warm(g.containers, c) /\ g.containers[c].app = a
      BY <1>3, <1>5, <1>9, <1>12 DEF Warm
    <2>6. Held(k2, b2, Holding, c) = J
      BY <2>1, <2>5, WarmHolds
    <2>7. /\ Limit[a] \in Nat \ {0}
          /\ c \in Range(g.free[a]) => Cardinality(Held(k2, b2, Holding, c)) < Limit[a]
      BY <2>5, UnlistedFull DEF Warm
    <2> QED BY <2>1, <2>4, <2>6, <2>7
  <1>14. \A d \in DOMAIN H.containers :
           LET e == H.containers[d].app IN d \in Range(g.free[e]) => d \in Range(H.free[e])
    <2>1. ASSUME NEW e \in App, NEW d, d \in Range(g.free[e]) PROVE d \in Range(H.free[e])
      BY <1>2, <1>9, <2>1, RelistLess
    <2>2. \A d \in DOMAIN H.containers : H.containers[d].app \in App
      BY <1>2 DEF StockOf
    <2> QED BY <2>1, <2>2
  <1>15. \A p \in DOMAIN S : S[p][2] # c
    BY <1>1 DEF Apart
  <1>16. Apart(R, g)
    <2>1. \A p, r \in DOMAIN R : R[p][2] = R[r][2] => p = r
      BY <1>1, <1>10, <1>15 DEF Apart
    <2>2. ASSUME NEW p \in DOMAIN R
          PROVE  /\ R[p][2] \in DOMAIN g.containers
                 /\ R[p][2] \notin Range(g.free[g.containers[R[p][2]].app])
      <3>1. CASE R[p][2] = c
        BY <1>3, <1>12, <1>13, <3>1
      <3>2. CASE p \in DOMAIN S /\ R[p] = S[p]
        <4>1. PICK d : d = S[p][2]
          OBVIOUS
        <4>2. d \in DOMAIN H.containers /\ d \notin Range(H.free[H.containers[d].app])
          BY <1>1, <3>2, <4>1 DEF Apart
        <4>3. PICK e : e = H.containers[d].app
          OBVIOUS
        <4>4. d \in Range(g.free[e]) => d \in Range(H.free[e])
          BY <1>14, <4>2, <4>3
        <4>5. d \in DOMAIN g.containers /\ g.containers[d].app = e
          BY <1>12, <4>2, <4>3
        <4> QED BY <3>2, <4>1, <4>2, <4>3, <4>4, <4>5
      <3> QED BY <1>10, <3>1, <3>2
    <2> QED BY <2>1, <2>2 DEF Apart
  <1>17. \A p \in DOMAIN R : R[p][1] \in Range(q)
    BY <1>1, <1>10
  <1>18. ASSUME NEW d, Warm(g.containers, d)
         PROVE  \/ \E p \in DOMAIN R : R[p][2] = d
                \/ d \in DOMAIN h.containers /\ g.containers[d] = h.containers[d]
    <2>1. CASE d = c
      BY <1>10, <2>1
    <2>2. CASE d # c
      <3>1. g.containers[d] = H.containers[d] /\ d \in DOMAIN H.containers
        BY <1>5, <1>9, <1>12, <1>18, <2>2 DEF Warm, Others
      <3>2. Warm(H.containers, d)
        BY <1>18, <3>1 DEF Warm
      <3> QED BY <1>1, <1>10, <3>1, <3>2
    <2> QED BY <2>1, <2>2
  <1> QED BY <1>1, <1>5, <1>9, <1>11, <1>16, <1>17, <1>18 DEF FitsTrial

LEMMA TryOneFits ==
    ASSUME NEW h, NEW q \in Seq(Nat), IsInjective(q), h.queue = q, Snug(h),
           NEW n \in Nat, n < Len(q), NEW acc, Trying(acc, h, q, n),
           FitsTrial(acc.host, acc.started, h, q), NEW i, i = q[n + 1],
           NEW acc2, acc2 = DequeueItem(acc, i), Trying(acc2, h, q, n + 1)
    PROVE  FitsTrial(acc2.host, acc2.started, h, q)
  <1>1. PICK k, b, H, S, K : acc = Trial(H, S, K) /\ Tries(H, S, K, k, b, h, q, n)
    BY DEF Trying
  <1>2. acc.host = H /\ acc.started = S
    BY <1>1 DEF Trial
  <1>3. PICK a : a = AppOf(H, i)
    OBVIOUS
  <1>4. PICK t : t = TryInvoke(H, a)
    OBVIOUS
  <1>5. acc2 = IF Stopped(acc) THEN KeepItem(acc, i) ELSE Tried(acc, i, t)
    BY <1>2, <1>3, <1>4, DequeueItemIs
  <1>6. i \in Rest(q, n) /\ n + 1 \in DOMAIN q /\ i \in Range(q)
    <2>1. i \in Rest(q, n)
      BY <1>1, ItemTaken DEF Tries
    <2> QED BY <2>1 DEF Range
  <1>7. i \in DOMAIN k /\ k[i] = "nowhere"
    BY <1>1, <1>6 DEF Tries, Nowhere
  <1>8. /\ HostAt(H, k, b, {}) /\ SameApps(H, h)
        /\ \A j \in DOMAIN k : k[j] # "starting"
        /\ StartedAre(S, k, b) /\ FitsTrial(H, S, h, q)
    BY <1>1, <1>2 DEF Tries
  <1>9. a \in App /\ a = AppOf(h, i)
    BY <1>3, <1>7, <1>8, AppsKnown
  <1>10. Offers(t, H, k, b, a)
    BY <1>4, <1>8, <1>9, TryInvokeKeeps
  <1>11. HeadIn(H.containers, H.cpu)
    <2>1. Inside(H.containers, k, b) /\ KnowsOf(H.cpu, H.pending, k, b)
      BY <1>8 DEF HostAt
    <2> QED BY <2>1, WaitersInside
  <1>12. CASE Stopped(acc) \/ t.kind = "Rejected"
    <2>1. /\ KeepItem(acc, i) = Trial(H, S, Append(K, i))
          /\ t.kind = "Rejected" => Tried(acc, i, t) = Trial(H, S, Append(K, i))
      BY <1>1, TriedKept
    <2>2. acc2 = Trial(H, S, Append(K, i))
      BY <1>5, <1>12, <2>1
    <2> QED BY <1>8, <2>2 DEF Trial
  <1>13. CASE ~ Stopped(acc) /\ t.kind # "Rejected"
    <2>1. PICK c, G : c = t.container /\ G = t.host
      OBVIOUS
    <2>2. /\ HostAt(G, k, b, {}) /\ t.kind \in {"Warm", "Cold"} /\ c \in DOMAIN G.containers
          /\ G.containers[c].app = a /\ c \in Range(G.free[a])
          /\ t.kind = "Warm" => G.containers[c].status \in {"Idle", "Running"}
      BY <1>10, <1>13, <2>1 DEF Offers
    <2>3. Widens(G, H) /\ (t.kind = "Warm" => G = H)
      BY <1>4, <1>8, <1>9, <2>1, TryWidens
    <2>4. CASE t.kind = "Cold"
      <3>1. PICK g : g = EnterReservation(G, c, i)
        OBVIOUS
      <3>2. acc2 = Trial(g, S, K)
        BY <1>1, <1>5, <1>13, <2>1, <2>4, <3>1, TriedCold
      <3>3. Widens(g, G)
        BY <2>2, <3>1, ReserveWidens
      <3>4. Widens(g, H)
        BY <2>3, <3>3, WidensTwice
      <3>5. FitsTrial(g, S, h, q)
        BY <1>8, <1>11, <3>4, TrialWidens
      <3> QED BY <3>2, <3>5 DEF Trial
    <2>5. CASE t.kind = "Warm"
      <3>1. PICK m : m = EnterContainer(H, c, i)
        OBVIOUS
      <3>2. PICK g : g = IfFull(m, c, Cardinality(Invocations(m, c)))
        OBVIOUS
      <3>3. PICK R : R = Append(S, <<i, c>>)
        OBVIOUS
      <3>4. acc2 = Trial(g, R, K)
        <4>1. m = EnterContainer(t.host, t.container, i) /\ t.kind = "Warm"
          BY <2>1, <2>3, <2>5, <3>1
        <4>2. g = IfFull(m, t.container, Cardinality(Invocations(m, t.container)))
          BY <2>1, <3>2
        <4>3. Tried(acc, i, t) = Trial(g, Append(S, <<i, t.container>>), K)
          BY <1>1, <4>1, <4>2, TriedWarm
        <4> QED BY <1>5, <1>13, <2>1, <3>3, <4>3
      <3>5. acc2.host = g /\ acc2.started = R
        BY <3>4 DEF Trial
      <3>6. PICK k2, b2, H2, S2, K2 :
              acc2 = Trial(H2, S2, K2) /\ Tries(H2, S2, K2, k2, b2, h, q, n + 1)
        BY DEF Trying
      <3>7. H2 = g
        BY <3>5, <3>6 DEF Trial
      <3>8. HostAt(g, k2, b2, {}) /\ \A j \in DOMAIN k2 : k2[j] # "starting"
        BY <3>6, <3>7 DEF Tries
      <3>9. Warm(H.containers, c) /\ a = H.containers[c].app /\ c \in Range(H.free[a])
        BY <2>2, <2>3, <2>5 DEF Warm
      <3>10. c \in DOMAIN h.containers /\ H.containers[c] = h.containers[c]
        <4>1. \A p \in DOMAIN S : S[p][2] # c
          BY <1>8, <3>9 DEF FitsTrial, Apart
        <4> QED BY <1>8, <3>9, <4>1 DEF FitsTrial
      <3>11. Cardinality(H.containers[c].invocations) + 1 >= Limit[a]
        <4>1. Warm(h.containers, c) /\ h.containers[c].app = a /\ AppOf(h, h.queue[n + 1]) = a
          BY <1>9, <3>9, <3>10 DEF Warm
        <4> QED BY <1>6, <3>10, <4>1 DEF Snug
      <3>12. PICK T : T = Nat \X Int
        OBVIOUS
      <3>13. S \in Seq(T)
        BY <1>8, <3>12 DEF StartedAre
      <3>14. FitsTrial(g, R, h, q)
        BY <1>6, <1>7, <1>8, <3>1, <3>2, <3>3, <3>8, <3>9, <3>11, <3>13, TrialEnters
      <3> QED BY <3>5, <3>14
    <2> QED BY <2>2, <2>4, <2>5
  <1> QED BY <1>12, <1>13

LEMMA TryAllFits ==
    ASSUME NEW h, NEW k, NEW b, HostAt(h, k, b, {}), Settled(h, k), Snug(h),
           Fits(h.containers, h.cpu, {}),
           NEW acc, acc = TryAll(Trial(h, <<>>, <<>>), h.queue)
    PROVE  FitsTrial(acc.host, acc.started, h, h.queue)
  <1>1. PICK q : q = h.queue
    OBVIOUS
  <1>2. PICK base : base = Trial(h, <<>>, <<>>)
    OBVIOUS
  <1>3. q \in Seq(Nat) /\ IsInjective(q) /\ Range(q) = Nowhere(k) /\ Len(q) \in Nat
        /\ DOMAIN q = 1..Len(q)
        /\ \A j \in DOMAIN k : k[j] \notin {"starting", "entered", "ending"}
    BY <1>1 DEF Settled, Nowhere
  <1>4. PICK f : /\ f[0] = base /\ \A n \in 1..Len(q) : f[n] = DequeueItem(f[n - 1], q[n])
                 /\ TryAll(base, q) = f[Len(q)]
    <2>1. PICK N : N = Nat
      OBVIOUS
    <2>2. q \in Seq(N)
      BY <1>3, <2>1
    <2> QED BY ONLY <2>2, TryAllFolds
  <1> DEFINE F == {n \in 0..Len(q) : Trying(f[n], h, q, n) /\ FitsTrial(f[n].host, f[n].started, h, q)}
  <1>5. 0 \in F
    <2>1. Trying(f[0], h, q, 0)
      <3>1. KeptOf(<<>>, q, 0) /\ Range(<<>>) = {}
        BY EmptyDistinct DEF KeptOf
      <3>2. Rest(q, 0) = Range(q)
        <4>1. 0 + 1..Len(q) = 1..Len(q)
          OBVIOUS
        <4> QED BY <1>3, <4>1 DEF Rest, Range
      <3>3. StartedAre(<<>>, k, b)
        BY <1>3 DEF StartedAre
      <3>4. Unserved(h, <<>>, h) /\ SameApps(h, h)
        BY DEF Unserved, SameApps
      <3>5. Nowhere(k) = Range(<<>>) \cup Rest(q, 0)
        BY <1>3, <3>1, <3>2
      <3>6. Tries(h, <<>>, <<>>, k, b, h, q, 0)
        BY <1>3, <3>1, <3>3, <3>4, <3>5 DEF Tries
      <3> QED BY <1>2, <1>4, <3>6 DEF Trying
    <2>2. f[0].host = h /\ f[0].started = <<>>
      BY <1>2, <1>4 DEF Trial
    <2>3. DOMAIN <<>> = {} /\ Items(<<>>) = {}
      BY DEF Items
    <2>4. \A d : Warm(h.containers, d) => d \in DOMAIN h.containers
      BY DEF Warm
    <2>5. FitsTrial(h, <<>>, h, q)
      BY <2>3, <2>4 DEF FitsTrial, Apart
    <2> QED BY <1>3, <2>1, <2>2, <2>5
  <1>6. ASSUME NEW n \in 1..Len(q), n - 1 \in F PROVE n \in F
    <2>1. PICK m, x, y, i : m = n - 1 /\ x = f[m] /\ y = f[n] /\ i = q[n]
      OBVIOUS
    <2>2. m \in Nat /\ m < Len(q) /\ n = m + 1 /\ n \in 0..Len(q)
      BY <1>3, <2>1
    <2>3. Trying(x, h, q, m) /\ FitsTrial(x.host, x.started, h, q)
      BY <1>6, <2>1
    <2>4. y = DequeueItem(x, i) /\ i = q[m + 1]
      BY <1>4, <2>1, <2>2
    <2>5. Trying(y, h, q, m + 1)
      BY <1>3, <2>2, <2>3, <2>4, TryOne
    <2>6. FitsTrial(y.host, y.started, h, q)
      BY <1>1, <1>3, <2>2, <2>3, <2>4, <2>5, TryOneFits
    <2> QED BY <2>1, <2>2, <2>5, <2>6
  <1> HIDE DEF F
  <1>7. \A n \in 0..Len(q) : n \in F
    BY <1>3, <1>5, <1>6, PrefixInduction
  <1>8. Len(q) \in F
    BY <1>3, <1>7
  <1>9. acc = f[Len(q)]
    BY <1>1, <1>2, <1>4
  <1> QED BY <1>1, <1>8, <1>9 DEF F

\* What has not been told yet when the first n have been.
Untaken(S, n) == {S[p][1] : p \in n + 1..Len(S)}

FitsTold(g, t, S, n) ==
    /\ g.containers = t.containers /\ Fits(t.containers, g.cpu, Untaken(S, n))
    /\ WorkGrows(g.cpu, t.cpu, Items(S))

LEMMA TellOneFits ==
    ASSUME NEW t, NEW k, NEW b, NEW S, StartedAre(S, k, b), DOMAIN b = DOMAIN k,
           \A p, r \in DOMAIN S : S[p][2] = S[r][2] => p = r,
           NEW n \in Nat, n < Len(S), NEW g, Telling(g, t, k, b, S, n), FitsTold(g, t, S, n),
           NEW s, s = S[n + 1], NEW e, e = Tell(g, s)
    PROVE  FitsTold(e, t, S, n + 1)
  <1>1. PICK k1 : HostAt(g, k1, b, {}) /\ ToldSome(k1, k, S, n)
    BY DEF Telling
  <1>2. PICK i, c : i = s[1] /\ c = s[2]
    OBVIOUS
  <1>3. /\ DOMAIN S = 1..Len(S) /\ Len(S) \in Nat /\ n + 1 \in 1..Len(S)
        /\ \A p \in 1..n : p \in 1..Len(S) /\ p # n + 1
        /\ \A p \in 1..Len(S) : p \in 1..n \/ p \in n + 1..Len(S)
        /\ \A p \in n + 1..Len(S) : p \in 1..Len(S) /\ p \notin 1..n
        /\ \A p \in n + 1..Len(S) : p = n + 1 \/ p \in (n + 1) + 1..Len(S)
        /\ \A p \in (n + 1) + 1..Len(S) : p \in n + 1..Len(S) /\ p # n + 1
        /\ n + 1 \in n + 1..Len(S)
    BY DEF StartedAre
  <1>4. /\ \A p \in 1..Len(S) : S[p][1] \in DOMAIN k /\ k[S[p][1]] = "entered" /\ b[S[p][1]] = S[p][2]
        /\ \A p, r \in 1..Len(S) : S[p][1] = S[r][1] => p = r
        /\ \A j \in DOMAIN k : k[j] = "entered" => \E p \in 1..Len(S) : S[p][1] = j
    BY <1>3 DEF StartedAre
  <1>5. /\ DOMAIN k1 = DOMAIN k
        /\ \A j \in DOMAIN k : (\E p \in 1..n : S[p][1] = j) => k1[j] = "told"
        /\ \A j \in DOMAIN k : ~ (\E p \in 1..n : S[p][1] = j) => k1[j] = k[j]
    BY <1>1 DEF ToldSome
  <1>6. Untold(k1) = Untaken(S, n)
    <2>1. ASSUME NEW j \in Untold(k1) PROVE j \in Untaken(S, n)
      <3>1. j \in DOMAIN k /\ k1[j] = "entered"
        BY <1>5, <2>1 DEF Untold
      <3>2. ~ (\E p \in 1..n : S[p][1] = j)
        BY <1>5, <3>1
      <3>3. PICK p \in 1..Len(S) : S[p][1] = j
        BY <1>4, <1>5, <3>1, <3>2
      <3> QED BY <1>3, <3>2, <3>3 DEF Untaken
    <2>2. ASSUME NEW j \in Untaken(S, n) PROVE j \in Untold(k1)
      <3>1. PICK p \in n + 1..Len(S) : S[p][1] = j
        BY <2>2 DEF Untaken
      <3>2. p \in 1..Len(S) /\ p \notin 1..n
        BY <1>3, <3>1
      <3>3. ~ (\E r \in 1..n : S[r][1] = j)
        BY <1>3, <1>4, <3>1, <3>2
      <3> QED BY <1>4, <1>5, <3>1, <3>2, <3>3 DEF Untold
    <2> QED BY <2>1, <2>2
  <1>7. i \in DOMAIN k1 /\ k1[i] = "entered" /\ b[i] = c
    <2>1. i \in Untaken(S, n)
      BY <1>2, <1>3 DEF Untaken
    <2>2. b[i] = c
      BY <1>2, <1>3, <1>4
    <2> QED BY <1>6, <2>1, <2>2 DEF Untold
  <1>8. \A j \in DOMAIN k1 : k1[j] = "entered" /\ b[j] = c => j = i
    <2> SUFFICES ASSUME NEW j \in DOMAIN k1, k1[j] = "entered", b[j] = c PROVE j = i
      OBVIOUS
    <2>1. j \in Untaken(S, n)
      BY <1>6 DEF Untold
    <2>2. PICK p \in n + 1..Len(S) : S[p][1] = j
      BY <2>1 DEF Untaken
    <2>3. p \in 1..Len(S) /\ S[p][2] = S[n + 1][2]
      BY <1>2, <1>3, <1>4, <2>2
    <2> QED BY <1>2, <1>3, <2>2, <2>3
  <1>9. Untaken(S, n + 1) = Untaken(S, n) \ {i}
    <2>1. S[n + 1][1] = i
      BY <1>2
    <2>2. \A p \in (n + 1) + 1..Len(S) : S[p][1] # i
      BY <1>3, <1>4, <2>1
    <2> QED BY <1>3, <2>1, <2>2 DEF Untaken
  <1>10. PICK N, M, R : N = Untold(k1) /\ M = N \ {i} /\ R = {i}
    OBVIOUS
  <1>11. PICK m : m = Assign(g, i, "Running", c)
    OBVIOUS
  <1>12. e = CpuStart(m, i, c)
    BY <1>2, <1>11 DEF Tell
  <1>13. HostButLists(g, k1, b) /\ Fits(g.containers, g.cpu, N)
    BY <1>1, <1>6, <1>10 DEF HostAt, HostButLists, FitsTold
  <1>14. /\ e.containers = g.containers /\ Fits(g.containers, e.cpu, M)
         /\ WorkGrows(e.cpu, g.cpu, R)
    <2>1. /\ i \in DOMAIN k1 /\ k1[i] = "entered" /\ b[i] = c
          /\ \A j \in DOMAIN k1 : k1[j] = "entered" /\ b[j] = c => j = i
      BY <1>7, <1>8
    <2>2. N = Untold(k1) /\ M = N \ {i} /\ R = {i}
      BY <1>10
    <2> QED BY ONLY <1>11, <1>12, <1>13, <2>1, <2>2, TellFits
  <1>15. i \in Items(S)
    BY <1>2, <1>3 DEF Items
  <1>16. WorkGrows(e.cpu, t.cpu, Items(S))
    BY <1>10, <1>14, <1>15 DEF WorkGrows, FitsTold
  <1> QED BY <1>6, <1>9, <1>10, <1>14, <1>16 DEF FitsTold

LEMMA TellAllFits ==
    ASSUME NEW t, NEW k, NEW b, HostAt(t, k, b, {}), NEW S, StartedAre(S, k, b),
           \A p, r \in DOMAIN S : S[p][2] = S[r][2] => p = r,
           Fits(t.containers, t.cpu, Items(S)), NEW g, g = TellAll(t, S)
    PROVE  FitsTold(g, t, S, Len(S))
  <1>1. S \in Seq(Nat \X Int) /\ Len(S) \in Nat /\ DOMAIN b = DOMAIN k /\ DOMAIN S = 1..Len(S)
    <2>1. EntriesOf(t.registry, k, b)
      BY DEF HostAt
    <2>2. S \in Seq(Nat \X Int)
      BY DEF StartedAre
    <2> QED BY <2>1, <2>2 DEF EntriesOf
  <1>2. PICK f : /\ f[0] = t /\ \A n \in 1..Len(S) : f[n] = Tell(f[n - 1], S[n])
                 /\ TellAll(t, S) = f[Len(S)]
    <2>1. PICK N : N = Nat \X Int
      OBVIOUS
    <2>2. S \in Seq(N)
      BY <1>1, <2>1
    <2> QED BY ONLY <2>2, TellAllFolds
  <1> DEFINE F == {n \in 0..Len(S) : Telling(f[n], t, k, b, S, n) /\ FitsTold(f[n], t, S, n)}
  <1>3. 0 \in F
    <2>1. ToldSome(k, k, S, 0)
      BY DEF ToldSome
    <2>2. SameBooks(t, t) /\ SameApps(t, t) /\ SameQueue(t, t)
      BY DEF SameBooks, SameApps, SameQueue
    <2>3. Telling(t, t, k, b, S, 0)
      BY <2>1, <2>2 DEF Telling
    <2>4. Untaken(S, 0) = Items(S)
      <3>1. 0 + 1..Len(S) = DOMAIN S
        BY <1>1
      <3> QED BY <3>1 DEF Untaken, Items
    <2>5. FitsTold(t, t, S, 0)
      BY <2>4 DEF FitsTold, WorkGrows
    <2> QED BY <1>1, <1>2, <2>3, <2>5
  <1>4. ASSUME NEW n \in 1..Len(S), n - 1 \in F PROVE n \in F
    <2>1. PICK m, x, y, s : m = n - 1 /\ x = f[m] /\ y = f[n] /\ s = S[n]
      OBVIOUS
    <2>2. m \in Nat /\ m < Len(S) /\ n = m + 1 /\ n \in 0..Len(S)
      BY <1>1, <2>1
    <2>3. Telling(x, t, k, b, S, m) /\ FitsTold(x, t, S, m)
      BY <1>4, <2>1
    <2>4. y = Tell(x, s) /\ s = S[m + 1]
      BY <1>2, <2>1, <2>2
    <2>5. Telling(y, t, k, b, S, m + 1)
      BY <1>1, <2>2, <2>3, <2>4, TellOne
    <2>6. FitsTold(y, t, S, m + 1)
      BY <1>1, <2>2, <2>3, <2>4, TellOneFits
    <2> QED BY <2>1, <2>2, <2>5, <2>6
  <1> HIDE DEF F
  <1>5. \A n \in 0..Len(S) : n \in F
    BY <1>1, <1>3, <1>4, PrefixInduction
  <1>6. Len(S) \in F
    BY <1>1, <1>5
  <1> QED BY <1>2, <1>6 DEF F

\* The queue is gone through: the books of the cpu are right after it too.
LEMMA DequeueFits ==
    ASSUME NEW h, NEW k, NEW b, HostAt(h, k, b, {}), Settled(h, k), Snug(h),
           Fits(h.containers, h.cpu, {}), NEW g, g = DequeueRequests(h)
    PROVE  /\ Fits(g.containers, g.cpu, {}) /\ SameApps(g, h) /\ g.invoker = h.invoker
           /\ WorkGrows(g.cpu, h.cpu, Range(h.queue))
  <1>1. PICK q : q = h.queue
    OBVIOUS
  <1>2. PICK acc : acc = TryAll(Trial(h, <<>>, <<>>), q)
    OBVIOUS
  <1>3. Trying(acc, h, q, Len(q)) /\ FitsTrial(acc.host, acc.started, h, q)
    BY <1>1, <1>2, TryAllKeeps, TryAllFits
  <1>4. PICK k1, b1, H, S, K : acc = Trial(H, S, K) /\ Tries(H, S, K, k1, b1, h, q, Len(q))
    BY <1>3 DEF Trying
  <1>5. acc.host = H /\ acc.started = S /\ acc.kept = K
    BY <1>4 DEF Trial
  <1>6. /\ HostAt(H, k1, b1, {}) /\ SameApps(H, h) /\ H.invoker = h.invoker
        /\ StartedAre(S, k1, b1) /\ FitsTrial(H, S, h, q)
    BY <1>3, <1>4, <1>5 DEF Tries
  <1>7. PICK t : t = Requeued(H, K)
    OBVIOUS
  <1>8. g = TellAll(t, S)
    <2>1. g = TellAll([acc.host EXCEPT !.queue = acc.kept], acc.started)
      BY <1>1, <1>2, DequeueUnbound DEF Trial
    <2> QED BY <1>5, <1>7, <2>1 DEF Requeued
  <1>9. Requeues(t, H, K)
    BY <1>6, <1>7, RequeuedDoes DEF HostAt
  <1>10. HostAt(t, k1, b1, {}) /\ t.containers = H.containers /\ t.cpu = h.cpu
    BY <1>6, <1>9 DEF HostAt, Requeues, SameBooks, FitsTrial
  <1>11. Telling(g, t, k1, b1, S, Len(S))
    BY <1>6, <1>8, <1>10, TellAllKeeps
  <1>12. FitsTold(g, t, S, Len(S))
    <2>1. \A p, r \in DOMAIN S : S[p][2] = S[r][2] => p = r
      BY <1>6 DEF FitsTrial, Apart
    <2>2. Fits(t.containers, t.cpu, Items(S))
      BY <1>6, <1>10 DEF FitsTrial
    <2> QED BY <1>6, <1>8, <1>10, <2>1, <2>2, TellAllFits
  <1>13. Untaken(S, Len(S)) = {}
    <2>1. Len(S) \in Nat
      BY <1>6 DEF StartedAre
    <2>2. Len(S) + 1..Len(S) = {}
      BY <2>1
    <2> QED BY <2>2 DEF Untaken
  <1>14. Fits(g.containers, g.cpu, {})
    BY <1>12, <1>13 DEF FitsTold
  <1>15. SameApps(g, h) /\ g.invoker = h.invoker
    BY <1>6, <1>9, <1>11 DEF Telling, SameApps, SameQueue, Requeues
  <1>16. WorkGrows(g.cpu, h.cpu, Range(h.queue))
    <2>1. Items(S) \subseteq Range(q)
      BY <1>6 DEF FitsTrial, Items
    <2> QED BY <1>1, <1>10, <1>12, <2>1 DEF FitsTold, WorkGrows
  <1> QED BY <1>14, <1>15, <1>16

-----------------------------------------------------------------------------
(* The books of the cpu between two events.                                 *)

EndRight(u) == u.policy = "Contended" => (u.end # 0 <=> u.work # {})

Booked(h) == Fits(h.containers, h.cpu, {}) /\ EndRight(h.cpu) /\ Single(h)

\* Before the end event of Contended is chosen again, if the work is another.
Rebooks(g, h) ==
    /\ Fits(g.containers, g.cpu, {}) /\ Single(g) /\ g.cpu.policy = h.cpu.policy
    /\ g.cpu.policy = "Contended" /\ g.cpu.work = h.cpu.work => g.cpu.end = h.cpu.end

LEMMA SingleStill ==
    ASSUME NEW h, Single(h), NEW g, SameApps(g, h), g.invoker = h.invoker
    PROVE  Single(g)
  BY DEF Single, SameApps, AppOf

LEMMA RescheduledFits ==
    ASSUME NEW h, EndRight(h.cpu), NEW m, Sound(m), Rebooks(m, h), NEW g, g \in Rescheduled(h, m)
    PROVE  Booked(g)
  <1>1. PICK k, b : HostAt(m, k, b, {}) /\ Settled(m, k)
    BY DEF Sound, HostInv
  <1>2. CASE m.cpu.work = h.cpu.work
    <2>1. g = m
      BY <1>2 DEF Rescheduled
    <2> QED BY <1>2, <2>1 DEF Rebooks, EndRight, Booked
  <1>3. CASE m.cpu.work # h.cpu.work
    <2>1. PICK n : n \in (IF m.cpu.work = {} THEN {0} ELSE m.cpu.work) /\ g = Reended(m, n)
      BY <1>3 DEF Rescheduled, Reended, NoInvocation
    <2>2. IsHost(m) /\ KnowsOf(m.cpu, m.pending, k, b)
          /\ Inside(m.containers, k, b) /\ EntriesOf(m.registry, k, b)
      BY <1>1 DEF HostAt
    <2>3. Reends(g, m, n)
      BY <2>1, <2>2, ReendedDoes
    <2>4. PICK u, v, cs : u = m.cpu /\ v = g.cpu /\ cs = m.containers
      OBVIOUS
    <2>5. v = EndSet(u, n) /\ g.containers = cs /\ g.registry = m.registry /\ g.invoker = m.invoker
      BY <2>3, <2>4 DEF Reends, SameBooks, SameRegistry
    <2>6. SameLoad(v, u) /\ v.work = u.work /\ v.end = n
      BY <2>2, <2>4, <2>5, EndSetLoad DEF KnowsOf
    <2>7. HeadIn(cs, u)
      BY <2>2, <2>4, WaitersInside
    <2>8. PICK N : N = {}
      OBVIOUS
    <2>9. Fits(cs, u, N)
      BY <2>4, <2>8 DEF Rebooks
    <2>10. Fits(cs, v, N)
      BY ONLY <2>6, <2>7, <2>9, FitsSame
    <2>11. EndRight(v)
      <3> SUFFICES ASSUME v.policy = "Contended" PROVE v.end # 0 <=> v.work # {}
        BY DEF EndRight
      <3>1. u.work = {j \in DOMAIN k : k[j] \in {"told", "ending"}}
        BY <2>2, <2>4, <2>6 DEF KnowsOf, Told, SameLoad
      <3>2. \A j \in DOMAIN k : j # 0
        BY <2>2 DEF EntriesOf
      <3> QED BY <2>1, <2>4, <2>6, <3>1, <3>2
    <2>12. Single(g)
      BY <2>5 DEF Rebooks, Single, AppOf
    <2> QED BY <2>4, <2>5, <2>8, <2>10, <2>11, <2>12 DEF Booked
  <1> QED BY <1>2, <1>3

\* A container has changed, and the queue is gone through.
LEMMA ShiftedFits ==
    ASSUME NEW h, NEW k, NEW b, HostAt(h, k, b, {}), Settled(h, k), Served(h), Booked(h),
           NEW m, NEW k2, NEW b2, HostAt(m, k2, b2, {}), Settled(m, k2), m.invoker = h.invoker,
           NEW c, Shifts(m, h, c), Filled(m, h, k, b, c),
           NEW g, g = DequeueRequests(m)
    PROVE  /\ Fits(g.containers, g.cpu, {}) /\ Single(g)
           /\ WorkGrows(g.cpu, m.cpu, Range(h.queue))
  <1>1. Single(h) /\ Fits(m.containers, m.cpu, {}) /\ SameApps(m, h) /\ m.queue = h.queue
    BY DEF Booked, Shifts
  <1>2. Snug(m)
    BY <1>1, SnugAfter
  <1>3. /\ Fits(g.containers, g.cpu, {}) /\ SameApps(g, m) /\ g.invoker = m.invoker
        /\ WorkGrows(g.cpu, m.cpu, Range(m.queue))
    BY <1>1, <1>2, DequeueFits
  <1>4. SameApps(g, h)
    BY <1>1, <1>3 DEF SameApps
  <1>5. Single(g)
    BY <1>1, <1>3, <1>4, SingleStill
  <1> QED BY <1>1, <1>3, <1>5

LEMMA StartBooked ==
    ASSUME NEW h, Sound(h), Booked(h), NEW c, BagIn(ContainerStart(c), h.pending),
           NEW d, Decides(h, c, d),
           NEW m, m = OnContainerStart(Delivered(h, ContainerStart(c)), c, d),
           NEW g, g = DequeueRequests(m)
    PROVE  Rebooks(g, h)
  <1>1. PICK k, b : HostAt(h, k, b, {}) /\ Settled(h, k)
    BY DEF Sound, HostInv
  <1>2. Served(h) /\ Fits(h.containers, h.cpu, {})
    BY DEF Sound, Booked
  <1>3. PICK k2 : HostAt(m, k2, b, {}) /\ Settled(m, k2) /\ m.invoker = h.invoker
    BY <1>1, OnStartKeeps
  <1>4. Shifts(m, h, c) /\ Filled(m, h, k, b, c) /\ EndKept(m.cpu, h.cpu)
    BY <1>1, <1>2, OnStartFits
  <1>5. Fits(g.containers, g.cpu, {}) /\ Single(g) /\ WorkGrows(g.cpu, m.cpu, Range(h.queue))
    BY <1>1, <1>2, <1>3, <1>4, ShiftedFits
  <1> QED BY <1>4, <1>5 DEF Rebooks, WorkGrows, EndKept

LEMMA EndBooked ==
    ASSUME NEW h, Sound(h), Booked(h), NEW c, BagIn(ContainerEnd(c), h.pending),
           NEW m, m = OnContainerEnd(Delivered(h, ContainerEnd(c)), c),
           NEW g, g = DequeueRequests(m)
    PROVE  Rebooks(g, h)
  <1>1. PICK k, b : HostAt(h, k, b, {}) /\ Settled(h, k)
    BY DEF Sound, HostInv
  <1>2. Served(h) /\ Fits(h.containers, h.cpu, {})
    BY DEF Sound, Booked
  <1>3. HostAt(m, k, b, {}) /\ Settled(m, k) /\ m.invoker = h.invoker
    BY <1>1, OnEndKeeps
  <1>4. Shifts(m, h, c) /\ Filled(m, h, k, b, c) /\ EndKept(m.cpu, h.cpu)
    BY <1>1, <1>2, OnEndFits
  <1>5. Fits(g.containers, g.cpu, {}) /\ Single(g) /\ WorkGrows(g.cpu, m.cpu, Range(h.queue))
    BY <1>1, <1>2, <1>3, <1>4, ShiftedFits
  <1> QED BY <1>4, <1>5 DEF Rebooks, WorkGrows, EndKept

\* The work of Contended is another, whatever is started: the end is chosen again.
LEMMA InvocationEndBooked ==
    ASSUME NEW h, Sound(h), Booked(h), NEW i \in DOMAIN h.registry, MayEnd(h, i),
           NEW d, Decides(h, h.registry[i].container, d),
           NEW m, m = OnInvocationEnd(Delivered(h, InvocationEnd(i)), i, d),
           NEW g, g = DequeueRequests(m)
    PROVE  Rebooks(g, h)
  <1>1. PICK k, b : HostAt(h, k, b, {}) /\ Settled(h, k)
    BY DEF Sound, HostInv
  <1>2. Served(h) /\ Fits(h.containers, h.cpu, {})
    BY DEF Sound, Booked
  <1>3. DOMAIN k = DOMAIN h.registry
    BY <1>1, KindsKnown
  <1>4. PICK c : c = h.registry[i].container
    OBVIOUS
  <1>5. PICK k2 : HostAt(m, k2, b, {}) /\ Settled(m, k2) /\ m.invoker = h.invoker
    BY <1>1, <1>3, <1>4, OnInvocationEndKeeps
  <1>6. Shifts(m, h, c) /\ Filled(m, h, k, b, c) /\ EndTaken(m.cpu, h.cpu, i)
    BY <1>1, <1>2, <1>3, <1>4, OnInvocationEndFits
  <1>7. Fits(g.containers, g.cpu, {}) /\ Single(g) /\ WorkGrows(g.cpu, m.cpu, Range(h.queue))
    BY <1>1, <1>2, <1>5, <1>6, ShiftedFits
  <1>8. h.cpu.policy = "Contended" => i \in h.cpu.work /\ i \notin g.cpu.work
    <2> SUFFICES ASSUME h.cpu.policy = "Contended"
                 PROVE  i \in h.cpu.work /\ i \notin g.cpu.work
      OBVIOUS
    <2>1. i \in h.cpu.work /\ i \notin m.cpu.work
      BY <1>6 DEF EndTaken
    <2>2. h.cpu.work = {j \in DOMAIN k : k[j] \in {"told", "ending"}}
      BY <1>1 DEF HostAt, KnowsOf, Told
    <2>3. i \notin Range(h.queue)
      BY <1>1, <2>1, <2>2 DEF Settled
    <2> QED BY <1>7, <2>1, <2>3 DEF WorkGrows
  <1> QED BY <1>6, <1>7, <1>8 DEF Rebooks, WorkGrows, EndTaken

LEMMA DeployBooked ==
    ASSUME NEW h, Sound(h), Booked(h), NEW a \in App, NEW g, g = HostTryDeploy(h, a)
    PROVE  Booked(g)
  <1>1. PICK k, b : HostAt(h, k, b, {}) /\ Settled(h, k)
    BY DEF Sound, HostInv
  <1>2. CASE ~ CanAllocate(h, a)
    <2>1. g = h
      BY <1>2 DEF HostTryDeploy
    <2> QED BY <2>1
  <1>3. CASE CanAllocate(h, a)
    <2>1. g = DeployContainer(h, a)
      BY <1>3 DEF HostTryDeploy
    <2>2. Deploys(g, h, a)
      BY <1>1, <2>1, DeployDoes DEF HostAt
    <2>3. Widens(g, h)
      BY <1>1, <2>1, DeployWidens
    <2>4. Inside(h.containers, k, b) /\ KnowsOf(h.cpu, h.pending, k, b)
      BY <1>1 DEF HostAt
    <2>5. HeadIn(h.containers, h.cpu)
      BY <2>4, WaitersInside
    <2>6. PICK N : N = {}
      OBVIOUS
    <2>7. Fits(h.containers, h.cpu, N)
      BY <2>6 DEF Booked
    <2>8. Fits(g.containers, g.cpu, N)
      BY <2>3, <2>5, <2>7, WidensFits
    <2>9. g.cpu = h.cpu /\ SameApps(g, h) /\ g.invoker = h.invoker
      BY <2>2, <2>3 DEF Deploys, SameRegistry, SameApps, Widens
    <2>10. Single(g)
      BY <2>9, SingleStill DEF Booked
    <2> QED BY <2>6, <2>8, <2>9, <2>10 DEF Booked
  <1> QED BY <1>2, <1>3

LEMMA InvokeBooked ==
    ASSUME NEW h, Sound(h), Booked(h), NEW i \in Nat \ {0}, i \notin DOMAIN h.registry,
           NEW a \in App, h.invoker = "Naive" \/ Limit[a] = 1, NEW g, g = HostInvoke(h, i, a)
    PROVE  Rebooks(g, h)
  <1>1. PICK k, b : HostAt(h, k, b, {}) /\ Settled(h, k)
    BY DEF Sound, HostInv
  <1>2. PICK e, m : e = NewEntry(a) /\ m = Arrived(h, i, e)
    OBVIOUS
  <1>3. PICK t : t = TryInvoke(m, a)
    OBVIOUS
  <1>4. g = Decided(t, i)
    BY <1>2, <1>3, HostInvokeIs
  <1>5. DOMAIN k = DOMAIN h.registry /\ DOMAIN b = DOMAIN k
    BY <1>1 DEF HostAt, EntriesOf
  <1>6. PICK k1, b1 : Extended(k1, b1, k, b, i)
    BY <1>5, ExtendedExists
  <1>7. /\ HostAt(m, k1, b1, {}) /\ SameBooks(m, h) /\ SameQueue(m, h)
        /\ AppOf(m, i) = a /\ \A j \in DOMAIN k : AppOf(m, j) = AppOf(h, j)
    BY <1>1, <1>2, <1>5, <1>6, ArriveKeeps
  <1>8. m.cpu = h.cpu /\ m.containers = h.containers /\ m.invoker = h.invoker /\ IsHost(m)
    <2>1. IsHost(h)
      BY <1>1 DEF HostAt
    <2>2. Arrives(m, h, i, e)
      BY <1>2, <2>1, ArrivedDoes
    <2> QED BY <1>7, <2>2 DEF Arrives, SameBooks
  <1>9. Offers(t, m, k1, b1, a)
    BY <1>3, <1>7, TryInvokeKeeps
  <1>10. /\ i \in DOMAIN k1 /\ k1[i] = "nowhere" /\ DOMAIN k1 = DOMAIN h.registry \cup {i}
         /\ \A j \in DOMAIN k1 : k1[j] \notin {"starting", "entered", "ending"}
    BY <1>1, <1>5, <1>6 DEF Extended, Settled
  <1>11. Fits(m.containers, m.cpu, {}) /\ HeadIn(m.containers, m.cpu)
    <2>1. Inside(m.containers, k1, b1) /\ KnowsOf(m.cpu, m.pending, k1, b1)
      BY <1>7 DEF HostAt
    <2> QED BY <1>8, <2>1, WaitersInside DEF Booked
  <1>12. ASSUME Fits(g.containers, g.cpu, {}), SameApps(g, m), NEW S, WorkGrows(g.cpu, m.cpu, S)
         PROVE  Rebooks(g, h)
    <2>1. g.invoker = h.invoker
      BY <1>2, InvokeSound
    <2>2. DOMAIN m.registry = DOMAIN h.registry \cup {i}
      BY <1>7, <1>10, KindsKnown
    <2>3. \A j \in DOMAIN m.registry : AppOf(g, j) = AppOf(m, j)
      BY <1>12 DEF SameApps, AppOf
    <2>4. Single(g)
      BY <1>5, <1>7, <1>12, <2>1, <2>2, <2>3 DEF Booked, Single, SameApps
    <2> QED BY <1>8, <1>12, <2>4 DEF Rebooks, WorkGrows
  <1>13. WorkGrows(m.cpu, m.cpu, {})
    BY DEF WorkGrows
  <1>14. CASE t.kind = "Rejected"
    <2>1. t.host = m
      BY <1>9, <1>14 DEF Offers
    <2>2. g = Enqueue(m, i)
      BY <1>4, <1>14, <2>1, DecidedIs
    <2>3. Queues(g, m, i)
      BY <1>8, <2>2, EnqueueDoes
    <2>4. g.containers = m.containers /\ g.cpu = m.cpu /\ SameApps(g, m)
      BY <2>3 DEF Queues, SameBooks, SameApps
    <2> QED BY <1>11, <1>12, <1>13, <2>4
  <1>15. CASE t.kind # "Rejected"
    <2>1. PICK c, G : c = t.container /\ G = t.host
      OBVIOUS
    <2>2. /\ HostAt(G, k1, b1, {}) /\ SameRegistry(G, m)
          /\ t.kind \in {"Warm", "Cold"} /\ c \in DOMAIN G.containers
          /\ t.kind = "Warm" => G.containers[c].status \in {"Idle", "Running"}
      BY <1>9, <1>15, <2>1 DEF Offers
    <2>3. Widens(G, m) /\ (t.kind = "Warm" => G = m)
      BY <1>3, <1>7, <2>1, TryWidens
    <2>4. CASE t.kind = "Cold"
      <3>1. g = EnterReservation(G, c, i)
        BY <1>4, <2>1, <2>4, DecidedIs
      <3>2. Widens(g, G)
        BY <2>2, <3>1, ReserveWidens
      <3>3. Widens(g, m)
        BY <2>3, <3>2, WidensTwice
      <3>4. PICK N : N = {}
        OBVIOUS
      <3>5. Fits(m.containers, m.cpu, N)
        BY <1>11, <3>4
      <3>6. Fits(g.containers, g.cpu, N) /\ g.cpu = m.cpu
        BY <1>11, <3>3, <3>5, WidensFits DEF Widens
      <3>7. PICK x : x = G.containers[c].app
        OBVIOUS
      <3>8. Admits(g, G, x)
        BY <1>10, <2>2, <3>1, <3>7, ReserveAdmits
      <3>9. SameApps(g, m)
        BY <2>2, <3>8 DEF Admits, SameRegistry, SameApps
      <3> QED BY <1>12, <1>13, <3>4, <3>6, <3>9
    <2>5. CASE t.kind = "Warm"
      <3>1. PICK s, S, X : s = StartInvocation(m, c, i) /\ S = {i} /\ X = {}
        OBVIOUS
      <3>2. PICK n : n = Cardinality(Invocations(s, c))
        OBVIOUS
      <3>3. g = IfFull(s, c, n)
        BY <1>4, <2>1, <2>3, <2>5, <3>1, <3>2, DecidedIs
      <3>4. c \in DOMAIN m.containers /\ X \subseteq {c} /\ HostAt(m, k1, b1, X)
        BY <1>7, <2>2, <2>3, <2>5, <3>1
      <3>5. Startable(m, c)
        BY <1>7, <2>2, <2>3, <2>5 DEF HostAt, CyclesOf, CycleOf, Startable
      <3>6. Untold(k1) = {} /\ k1[i] \in {"nowhere", "starting"} /\ k1[i] # "starting"
        BY <1>10 DEF Untold
      <3>7. Loads(s, m, c, S) /\ IsHost(s)
        BY <1>10, <1>11, <3>1, <3>4, <3>5, <3>6, StartFits
      <3>8. PICK y : y = s.containers[c].app
        OBVIOUS
      <3>9. Relists(g, s, c, y, n = Limit[y])
        BY <3>3, <3>7, <3>8, IfFullDoes
      <3>10. Fits(g.containers, g.cpu, {}) /\ SameApps(g, m) /\ WorkGrows(g.cpu, m.cpu, S)
        BY <3>7, <3>9 DEF Relists, SameRegistry, Loads, SameApps
      <3> QED BY <1>12, <3>10
    <2> QED BY <2>2, <2>4, <2>5
  <1> QED BY <1>14, <1>15

\* A new host has nothing to share.
LEMMA NewHostBooked ==
    ASSUME NEW cap, \A r \in DOMAIN cap : cap[r] \in Nat, NEW co \in Nat, NEW iv,
           NEW po, po \in {"Ignored", "Isolated", "Contended"},
           NEW h, h = NewHost(cap, co, iv, po)
    PROVE  Booked(h)
  <1>1. PICK u, cs : u = h.cpu /\ cs = h.containers
    OBVIOUS
  <1>2. u = NewCpu(po, co) /\ DOMAIN cs = {}
    BY <1>1 DEF NewHost
  <1>3. /\ u.policy = po /\ u.cores = co /\ u.load = 0 /\ u.waiting = <<>> /\ u.queue = <<>>
        /\ u.work = {} /\ u.end = 0 /\ ~ u.panicked
    BY <1>2 DEF NewCpu, NoInvocation
  <1>4. Busy(cs, u.waiting, {}) = {}
    BY <1>2 DEF Busy
  <1>5. Shares(cs, {}) = 0
    <2>1. PICK S : S = {}
      OBVIOUS
    <2>2. PICK f : f = [c \in S |-> ShareIn(cs, c)]
      OBVIOUS
    <2>3. f \in [S -> Nat] /\ \A x \in S : f[x] = 0
      BY <2>1, <2>2
    <2>4. IsFiniteSet(S)
      BY <2>1, FS_EmptySet
    <2>5. SumFunction(f) = 0
      BY <2>3, <2>4, SumOfZeros
    <2> QED BY <2>1, <2>2, <2>5 DEF Shares
  <1>6. Fits(cs, u, {})
    <2>1. PICK x : x = Shares(cs, Busy(cs, u.waiting, {}))
      OBVIOUS
    <2>2. x = 0 /\ 0 <= co
      BY <1>4, <1>5, <2>1
    <2>3. LoadFits(cs, u, {})
      BY ONLY <1>3, <2>1, <2>2, co \in Nat DEF LoadFits
    <2>4. Crowded(cs, u)
      BY <1>3 DEF Crowded
    <2> QED BY <2>3, <2>4 DEF Fits
  <1>7. EndRight(u)
    BY <1>3 DEF EndRight
  <1>8. Single(h)
    <2>1. DOMAIN h.registry = {}
      BY NewHostSound
    <2> QED BY <2>1 DEF Single
  <1> QED BY <1>1, <1>6, <1>7, <1>8 DEF Booked

\* Between two events the cpu's books are right on every host, if the queue cannot
\* start two invocations in one container.
CpuInv == FaasInv /\ (OneAtATime => \A x \in DOMAIN hosts : Booked(hosts[x]))

\* Host x has handled an event.
LEMMA HostSetBooked ==
    ASSUME \A y \in DOMAIN hosts : Booked(hosts[y]), NEW x,
           NEW m, x \in DOMAIN hosts => Sound(m) /\ Rebooks(m, hosts[x]), SetHost(x, m)
    PROVE  \A y \in DOMAIN hosts' : Booked(hosts'[y])
  <1>1. PICK g \in Rescheduled(hosts[x], m) : hosts' = [hosts EXCEPT ![x] = g]
    BY DEF SetHost
  <1>2. DOMAIN hosts' = DOMAIN hosts /\ \A y \in DOMAIN hosts : hosts'[y] = IF y = x THEN g ELSE hosts[y]
    BY <1>1
  <1>3. PICK h : h = hosts[x]
    OBVIOUS
  <1>4. x \in DOMAIN hosts => Booked(g)
    <2> SUFFICES ASSUME x \in DOMAIN hosts PROVE Booked(g)
      OBVIOUS
    <2>1. EndRight(h.cpu) /\ Sound(m) /\ Rebooks(m, h) /\ g \in Rescheduled(h, m)
      BY <1>1, <1>3 DEF Booked
    <2> QED BY ONLY <2>1, RescheduledFits
  <1> QED BY <1>2, <1>4

LEMMA InitCpu == Init => CpuInv
  <1> SUFFICES ASSUME Init PROVE CpuInv
    OBVIOUS
  <1>1. FaasInv
    BY InitFaas
  <1>2. ASSUME NEW x \in DOMAIN hosts PROVE Booked(hosts[x])
    <2>1. DOMAIN hosts = DOMAIN config.hosts /\ config \in Scenarios
      BY DEF Init
    <2>2. PICK cap, co, iv, po : /\ cap = config.hosts[x].capacity /\ co = config.hosts[x].cores
                                 /\ iv = config.invoker /\ po = config.cpu
      OBVIOUS
    <2>3. PICK h : h = hosts[x]
      OBVIOUS
    <2>4. h = NewHost(cap, co, iv, po)
      BY <1>2, <2>1, <2>2, <2>3 DEF Init
    <2>5. /\ \A r \in DOMAIN cap : cap[r] \in Nat
          /\ po \in {"Ignored", "Isolated", "Contended"} /\ co \in Nat
      BY <1>2, <2>1, <2>2, ScenariosAssumption
    <2>6. Booked(h)
      BY ONLY <2>4, <2>5, NewHostBooked
    <2> QED BY <2>3, <2>6
  <1> QED BY <1>1, <1>2 DEF CpuInv

LEMMA InvokeCpu ==
    ASSUME FaasInv, OneAtATime, \A y \in DOMAIN hosts : Booked(hosts[y]), Invoke
    PROVE  \A y \in DOMAIN hosts' : Booked(hosts'[y])
  <1>1. PICK i, a : i = arrived + 1 /\ a = config.trace[i]
    OBVIOUS
  <1>2. arrived < Len(config.trace) /\ arrived \in Nat /\ config \in Scenarios
    BY DEF Invoke, RequestsLeft, FaasInv
  <1>3. config.trace \in Seq(App)
    BY <1>2, ScenariosAssumption
  <1>4. i \in Nat \ {0} /\ i \in DOMAIN config.trace /\ a \in App
    BY <1>1, <1>2, <1>3
  <1>5. PICK x, m : m = HostInvoke(hosts[x], i, a) /\ SetHost(x, m)
    BY <1>1 DEF Invoke
  <1>6. ASSUME x \in DOMAIN hosts PROVE Sound(m) /\ Rebooks(m, hosts[x])
    <2>1. PICK h : h = hosts[x]
      OBVIOUS
    <2>2. /\ Sound(h) /\ Booked(h) /\ h.invoker = config.invoker
          /\ \A j \in DOMAIN h.registry : j <= arrived
      BY <1>6, <2>1 DEF FaasInv
    <2>3. \A j \in DOMAIN h.registry : j \in Nat
      BY <2>2 DEF Sound, HostInv, HostAt, EntriesOf
    <2>4. i \notin DOMAIN h.registry
      BY <1>1, <1>2, <2>2, <2>3
    <2>5. h.invoker = "Naive" \/ Limit[a] = 1
      BY <1>1, <1>4, <2>2 DEF OneAtATime
    <2>6. m = HostInvoke(h, i, a)
      BY <1>5, <2>1
    <2>7. Sound(m)
      BY <1>4, <2>2, <2>4, <2>6, InvokeSound
    <2>8. Rebooks(m, h)
      BY <1>4, <2>2, <2>4, <2>5, <2>6, InvokeBooked
    <2> QED BY <2>1, <2>7, <2>8
  <1> QED BY <1>5, <1>6, HostSetBooked

LEMMA IdleDeployCpu ==
    ASSUME FaasInv, \A y \in DOMAIN hosts : Booked(hosts[y]), IdleDeploy
    PROVE  \A y \in DOMAIN hosts' : Booked(hosts'[y])
  <1>1. PICK e \in BagToSet(idleDeploys) :
          LET x == IF invocations[e.app] = e.expected
                   THEN DeployerHost(hosts, e.app, config.deployer) ELSE 0
          IN hosts' = IF x = 0 THEN hosts
                      ELSE [hosts EXCEPT ![x] = HostTryDeploy(@, e.app)]
    BY DEF IdleDeploy
  <1>2. PICK a : a = e.app
    OBVIOUS
  <1>3. a \in App
    BY <1>2 DEF FaasInv
  <1>4. \E x : hosts' = hosts \/ hosts' = [hosts EXCEPT ![x] = HostTryDeploy(hosts[x], a)]
    BY <1>1, <1>2
  <1>5. PICK x : hosts' = hosts \/ hosts' = [hosts EXCEPT ![x] = HostTryDeploy(hosts[x], a)]
    BY <1>4
  <1>6. /\ DOMAIN hosts' = DOMAIN hosts
        /\ \A y \in DOMAIN hosts : hosts'[y] = hosts[y] \/ hosts'[y] = HostTryDeploy(hosts[y], a)
    BY <1>5
  <1>7. ASSUME NEW y \in DOMAIN hosts' PROVE Booked(hosts'[y])
    <2>1. Sound(hosts[y]) /\ Booked(hosts[y])
      BY <1>6, <1>7 DEF FaasInv
    <2>2. PICK h, g : h = hosts[y] /\ g = HostTryDeploy(h, a)
      OBVIOUS
    <2>3. Booked(g)
      BY <1>3, <2>1, <2>2, DeployBooked
    <2> QED BY <1>6, <1>7, <2>1, <2>2, <2>3
  <1> QED BY <1>7

LEMMA EventCpu ==
    ASSUME FaasInv, \A y \in DOMAIN hosts : Booked(hosts[y]), NEW x \in DOMAIN hosts, Event(x)
    PROVE  \A y \in DOMAIN hosts' : Booked(hosts'[y])
  <1>1. PICK h : h = hosts[x]
    OBVIOUS
  <1>2. Sound(h) /\ HostInv(h) /\ Booked(h)
    BY <1>1 DEF FaasInv, Sound
  <1>3. PolicyKnown(config.coldstart)
    BY PolicyIsKnown
  <1>4. CASE \E c \in Deployed(x) : DeliverContainerStart(x, c)
    <2>1. PICK c \in Deployed(x) : DeliverContainerStart(x, c)
      BY <1>4
    <2>2. PICK d \in KeepAliveDecisions(h, c, config.coldstart) :
            SetHost(x, DequeueRequests(OnContainerStart(Delivered(h, ContainerStart(c)), c, d)))
      BY <1>1, <2>1 DEF DeliverContainerStart
    <2>3. PICK m, g : /\ m = OnContainerStart(Delivered(h, ContainerStart(c)), c, d)
                      /\ g = DequeueRequests(m)
      OBVIOUS
    <2>4. BagIn(ContainerStart(c), h.pending) /\ SetHost(x, g)
      BY <1>1, <2>1, <2>2, <2>3 DEF DeliverContainerStart
    <2>5. Decides(h, c, d)
      BY <1>2, <1>3, KeepAliveDecides
    <2>6. Sound(g) /\ Rebooks(g, h)
      BY <1>2, <2>3, <2>4, <2>5, StartSound, StartBooked DEF Follows
    <2> QED BY <1>1, <2>4, <2>6, HostSetBooked
  <1>5. CASE \E c \in Deployed(x) : DeliverContainerEnd(x, c)
    <2>1. PICK c \in Deployed(x) : DeliverContainerEnd(x, c)
      BY <1>5
    <2>3. PICK m, g : /\ m = OnContainerEnd(Delivered(h, ContainerEnd(c)), c)
                      /\ g = DequeueRequests(m)
      OBVIOUS
    <2>4. BagIn(ContainerEnd(c), h.pending) /\ SetHost(x, g)
      BY <1>1, <2>1, <2>3 DEF DeliverContainerEnd
    <2>6. Sound(g) /\ Rebooks(g, h)
      BY <1>2, <2>3, <2>4, EndSound, EndBooked DEF Follows
    <2> QED BY <1>1, <2>4, <2>6, HostSetBooked
  <1>6. CASE \E i \in DOMAIN hosts[x].registry : DeliverInvocationEnd(x, i)
    <2>1. PICK i \in DOMAIN hosts[x].registry : DeliverInvocationEnd(x, i)
      BY <1>6
    <2>2. PICK c : c = h.registry[i].container
      OBVIOUS
    <2>3. PICK d \in IdleDecisions(h, c, config.coldstart) :
            SetHost(x, DequeueRequests(OnInvocationEnd(Delivered(h, InvocationEnd(i)), i, d)))
      BY <1>1, <2>1, <2>2 DEF DeliverInvocationEnd
    <2>4. PICK m, g : /\ m = OnInvocationEnd(Delivered(h, InvocationEnd(i)), i, d)
                      /\ g = DequeueRequests(m)
      OBVIOUS
    <2>5. MayEnd(h, i) /\ i \in DOMAIN h.registry /\ SetHost(x, g)
      BY <1>1, <2>1, <2>3, <2>4 DEF MayEnd, DeliverInvocationEnd
    <2>6. Decides(h, h.registry[i].container, d)
      BY <1>2, <1>3, <2>2, IdleDecides
    <2>7. Sound(g) /\ Rebooks(g, h)
      BY <1>2, <2>4, <2>5, <2>6, InvocationEndSound, InvocationEndBooked DEF Follows
    <2> QED BY <1>1, <2>5, <2>7, HostSetBooked
  <1> QED BY <1>4, <1>5, <1>6 DEF Event

LEMMA NextCpu == CpuInv /\ [Next]_vars => CpuInv'
  <1> SUFFICES ASSUME CpuInv, [Next]_vars PROVE CpuInv'
    OBVIOUS
  <1>1. FaasInv /\ FaasInv'
    BY NextFaas DEF CpuInv
  <1>2. config' = config
    BY DEF Next, Invoke, IdleDeploy, Event, DeliverContainerStart, DeliverContainerEnd,
           DeliverInvocationEnd, vars
  <1>3. ASSUME OneAtATime PROVE \A y \in DOMAIN hosts' : Booked(hosts'[y])
    <2>1. \A y \in DOMAIN hosts : Booked(hosts[y])
      BY <1>3 DEF CpuInv
    <2>2. CASE Invoke
      BY <1>1, <1>3, <2>1, <2>2, InvokeCpu
    <2>3. CASE IdleDeploy
      BY <1>1, <2>1, <2>3, IdleDeployCpu
    <2>4. CASE \E x \in DOMAIN hosts : Event(x)
      BY <1>1, <2>1, <2>4, EventCpu
    <2>5. CASE UNCHANGED vars
      BY <2>1, <2>5 DEF vars
    <2> QED BY <2>2, <2>3, <2>4, <2>5 DEF Next
  <1>4. OneAtATime' => OneAtATime
    BY <1>2 DEF OneAtATime
  <1> QED BY <1>1, <1>3, <1>4 DEF CpuInv

\* The load the model sums up is the shares of the containers that execute.
LoadAt(h) == MapThenSumSet(LAMBDA c : ShareOf(h, c), Executing(h))

LEMMA LoadIsShares ==
    ASSUME NEW h, NEW cs, cs = h.containers, NEW T, T = Executing(h), AppsIn(cs, T)
    PROVE  LoadAt(h) = Shares(cs, T)
  <1> DEFINE step(g) == [s \in SUBSET T |->
                IF s = {} THEN 0
                ELSE ShareIn(cs, CHOOSE y \in s : TRUE) + g[s \ {CHOOSE y \in s : TRUE}]]
             iter == CHOOSE g : g = step(g)
  <1>1. LoadAt(h) = iter[T]
    BY DEF LoadAt, MapThenSumSet, MapThenFoldSet, ShareOf, ShareIn
  <1>2. PICK f : f = [c \in T |-> ShareIn(cs, c)]
    OBVIOUS
  <1>3. f \in [T -> Nat] /\ IsFiniteSet(T)
    BY <1>2, AppAssumption DEF AppsIn, ShareIn
  <1>4. \A g : step(g) = SumStep(f, T, g)
    BY <1>2 DEF SumStep
  <1>5. PICK count : count = [s \in SUBSET T |-> Cardinality(UnitsOf(f, s))]
    OBVIOUS
  <1>6. Shares(cs, T) = SumFunction(f)
    BY <1>2 DEF Shares
  <1>7. count = SumStep(f, T, count)
    BY <1>3, <1>5, SumStepCounts
  <1>8. iter = step(iter)
    <2>1. count = step(count)
      BY <1>4, <1>7
    <2> HIDE DEF step
    <2> QED BY <2>1
  <1> HIDE DEF iter, step
  <1>9. iter = SumStep(f, T, iter)
    BY <1>4, <1>8
  <1>10. iter[T] = SumFunction(f)
    BY <1>3, <1>9, SumStepUnique
  <1> QED BY <1>1, <1>6, <1>10

LEMMA AccountedWhenBooked ==
    ASSUME NEW h, Sound(h), Booked(h)
    PROVE  CpuAccounted(h)
  <1>1. PICK k, b : HostAt(h, k, b, {}) /\ Settled(h, k)
    BY DEF Sound, HostInv
  <1>2. PICK u, cs, T : u = h.cpu /\ cs = h.containers /\ T = Executing(h)
    OBVIOUS
  <1>3. StockOf(cs, h.next) /\ KnowsOf(u, h.pending, k, b)
    BY <1>1, <1>2 DEF HostAt
  <1>4. T = Busy(cs, u.waiting, {})
    BY <1>2 DEF Executing, Busy, Containers, Invocations
  <1>5. AppsIn(cs, T)
    BY <1>3, <1>4, FS_Subset DEF StockOf, AppsIn, Busy
  <1>6. LoadAt(h) = Shares(cs, T)
    BY <1>2, <1>5, LoadIsShares
  <1>7. /\ ~ u.panicked /\ u.load = LoadAt(h)
        /\ u.policy = "Isolated" => u.load <= u.cores
        /\ u.policy = "Isolated" /\ u.queue # <<>> => u.load + ShareOf(h, Head(u.queue)) > u.cores
    BY <1>2, <1>4, <1>6 DEF Booked, Fits, LoadFits, Crowded, ShareIn, ShareOf
  <1>8. u.policy = "Isolated" => DOMAIN u.waiting = Range(u.queue)
    BY <1>3 DEF KnowsOf, Told, WaitingOf
  <1>9. u.policy = "Contended" => (u.end # NoInvocation <=> u.work # {})
    BY <1>2 DEF Booked, EndRight, NoInvocation
  <1> QED BY <1>2, <1>7, <1>8, <1>9 DEF CpuAccounted, LoadAt

\* The load is that of the containers that execute, Isolated keeps it within the
\* cores and lets no container wait that fits, and Contended has an end event to
\* come while there is work, if the queue cannot start two invocations of a
\* container at once.  (cpu.rs, host.rs: told of in every handler.)
THEOREM CpuAlwaysShared == Spec => []CpuShared
  <1>1. CpuInv => CpuShared
    BY AccountedWhenBooked DEF CpuInv, CpuShared, FaasInv
  <1>2. Spec => []CpuInv
    BY InitCpu, NextCpu, PTL DEF Spec
  <1> QED BY <1>1, <1>2, PTL
===============================================================================
