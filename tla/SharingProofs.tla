---------------------------- MODULE SharingProofs ----------------------------
(***************************************************************************)
(* SharingExact: all models share as meant, and the single core announces  *)
(* the end of the computation that ends next.                              *)
(*                                                                         *)
(* The argument: a set of ids of activities and, for each, the work left   *)
(* of it.  A model is right at a time if what it keeps of each activity is *)
(* this work, up to what all activities got since the model was last       *)
(* looked at, and, in the fast models, up to the total.  Every operation   *)
(* leads from a right model to a right model; then the first of its heap   *)
(* is the activity with the least work left.  All amounts of work remain   *)
(* divisible by all shares, so no division is rounded.  The core has, in   *)
(* addition, one event for the end of its first computation, and events    *)
(* for requests, which all come before time passes.                        *)
(***************************************************************************)
EXTENDS SingleCore, FoldTheorems

(* Arithmetic of exact divisions.                                          *)

LEMMA ExactQuotient ==
    ASSUME NEW x \in Int, NEW s \in Nat \ {0}, x % s = 0
    PROVE  x \div s \in Int /\ (x \div s) * s = x
  OBVIOUS

LEMMA QuotientOfProduct ==
    ASSUME NEW q \in Int, NEW s \in Nat \ {0}
    PROVE  (q * s) \div s = q /\ (q * s) % s = 0
  OBVIOUS

LEMMA QuotientOfSum ==
    ASSUME NEW x \in Int, NEW t \in Int, NEW s \in Nat \ {0}, x % s = 0
    PROVE  (x + t * s) \div s = x \div s + t
  OBVIOUS

LEMMA QuotientOfNatural ==
    ASSUME NEW x \in Nat, NEW s \in Nat \ {0}
    PROVE  x \div s \in Nat
  OBVIOUS

LEMMA ProductBelow ==
    ASSUME NEW t \in Nat, NEW x \in Int, NEW s \in Nat \ {0}, t <= x \div s, x % s = 0
    PROVE  t * s \in Nat /\ t * s <= x
  OBVIOUS

LEMMA QuotientsOrdered ==
    ASSUME NEW x \in Int, NEW y \in Int, x <= y, NEW s \in Nat \ {0}
    PROVE  x \div s <= y \div s /\ x \div s \in Int /\ y \div s \in Int
  OBVIOUS

LEMMA Distributes ==
    ASSUME NEW a \in Int, NEW b \in Int, NEW c \in Int, NEW s \in Int
    PROVE  (a + b - c) * s = (a - c) * s + b * s /\ (a - c) * s \in Int /\ b * s \in Int
  OBVIOUS

LEMMA ShiftKeepsOrder ==
    ASSUME NEW a \in Int, NEW b \in Int, NEW w \in Int
    PROVE  (a < b <=> a + w < b + w) /\ (a = b <=> a + w = b + w)
  OBVIOUS

LEMMA DifferenceExact ==
    ASSUME NEW x \in Int, NEW y \in Int, NEW s \in Nat \ {0}, x % s = 0, y % s = 0
    PROVE  (x - y) % s = 0
  <1>1. PICK p \in Int : p * s = x
    BY ExactQuotient
  <1>2. PICK q \in Int : q * s = y
    BY ExactQuotient
  <1>3. (p - q) * s = x - y
    BY <1>1, <1>2
  <1>4. ((p - q) * s) % s = 0
    BY QuotientOfProduct
  <1> QED BY <1>3, <1>4

LEMMA DivisibleDifference ==
    ASSUME NEW x \in Int, NEW y \in Int, Divisible(x), Divisible(y)
    PROVE  Divisible(x - y)
  <1> SUFFICES ASSUME NEW n \in DOMAIN PerActivity PROVE (x - y) % PerActivity[n] = 0
    BY DEF Divisible
  <1>1. PerActivity[n] \in Nat \ {0}
    BY SharingAssumption
  <1>2. x % PerActivity[n] = 0 /\ y % PerActivity[n] = 0
    BY DEF Divisible
  <1> QED BY <1>1, <1>2, DifferenceExact

-----------------------------------------------------------------------------
(* Ids of activities and the work left of each.                            *)

Books(ids, L, next) ==
    /\ IsFiniteSet(ids) /\ ids \subseteq Nat /\ next \in Nat /\ \A i \in ids : i < next
    /\ Cardinality(ids) \in 0..Len(PerActivity)
    /\ \A i \in ids : L[i] \in Nat /\ Divisible(L[i])

Each(ids) == Share(Cardinality(ids))

Started(ids, L, n, v) == [i \in ids \cup {n} |-> IF i = n THEN v ELSE L[i]]

Passed(ids, L, d) == [i \in ids |-> L[i] - d]

IsFirst(ids, K, i) ==
    i \in ids /\ \A j \in ids : K[i] < K[j] \/ (K[i] = K[j] /\ i <= j)

LEMMA ShareTyped ==
    ASSUME NEW ids, NEW L, NEW next, Books(ids, L, next)
    PROVE  /\ Each(ids) \in Nat
           /\ ids # {} => /\ Each(ids) \in Nat \ {0}
                          /\ Cardinality(ids) \in DOMAIN PerActivity
                          /\ Each(ids) = PerActivity[Cardinality(ids)]
                          /\ \A i \in ids : L[i] % Each(ids) = 0
  <1>1. Cardinality(ids) \in 0..Len(PerActivity) /\ PerActivity \in Seq(Nat \ {0})
    BY SharingAssumption DEF Books
  <1>2. CASE ids = {}
    <2>1. Cardinality(ids) = 0
      BY <1>2, FS_EmptySet
    <2> QED BY <1>2, <2>1 DEF Each, Share
  <1>3. CASE ids # {}
    <2>1. Cardinality(ids) # 0
      BY <1>3, FS_EmptySet DEF Books
    <2>2. Cardinality(ids) \in DOMAIN PerActivity
      BY <1>1, <2>1
    <2>3. Each(ids) = PerActivity[Cardinality(ids)]
      BY <2>1 DEF Each, Share
    <2>4. Each(ids) \in Nat \ {0}
      BY <1>1, <2>2, <2>3
    <2>5. \A i \in ids : L[i] % Each(ids) = 0
      BY <2>2, <2>3 DEF Books, Divisible
    <2> QED BY <2>2, <2>3, <2>4, <2>5
  <1> QED BY <1>2, <1>3

LEMMA FirstExists ==
    ASSUME NEW ids, IsFiniteSet(ids), ids \subseteq Nat, ids # {},
           NEW K, \A i \in ids : K[i] \in Int
    PROVE  \E i \in ids : IsFirst(ids, K, i)
  <1> DEFINE F == {T \in SUBSET ids : T = {} \/ \E i \in T : IsFirst(T, K, i)}
  <1>1. ASSUME NEW T \in SUBSET ids, \A x \in T : T \ {x} \in F
        PROVE  T \in F
    <2>1. CASE T = {}
      BY <2>1
    <2>2. CASE T # {}
      <3>1. PICK x \in T : TRUE
        BY <2>2
      <3>2. CASE T \ {x} = {}
        <4>1. T = {x} /\ K[x] \in Int /\ x \in Nat
          BY <3>1, <3>2
        <4>2. IsFirst(T, K, x)
          BY <4>1 DEF IsFirst
        <4> QED BY <4>2
      <3>3. CASE T \ {x} # {}
        <4>1. PICK i \in T \ {x} : IsFirst(T \ {x}, K, i)
          BY <1>1, <3>3
        <4>2. /\ \A j \in T \ {x} : K[i] < K[j] \/ (K[i] = K[j] /\ i <= j)
              /\ \A j \in T : K[j] \in Int /\ j \in Nat
          BY <4>1 DEF IsFirst
        <4>3. CASE K[i] < K[x] \/ (K[i] = K[x] /\ i <= x)
          <5>1. IsFirst(T, K, i)
            BY <4>2, <4>3 DEF IsFirst
          <5> QED BY <5>1
        <4>4. CASE ~ (K[i] < K[x] \/ (K[i] = K[x] /\ i <= x))
          <5>1. K[x] < K[i] \/ (K[x] = K[i] /\ x <= i)
            BY <4>2, <4>4
          <5>2. \A j \in T : K[x] < K[j] \/ (K[x] = K[j] /\ x <= j)
            BY <4>2, <5>1
          <5>3. IsFirst(T, K, x)
            BY <5>2 DEF IsFirst
          <5> QED BY <5>3
        <4> QED BY <4>3, <4>4
      <3> QED BY <3>2, <3>3
    <2> QED BY <2>1, <2>2
  <1> HIDE DEF F
  <1>2. ids \in F
    BY <1>1, FiniteInduction
  <1> QED BY <1>2 DEF F

\* The first element is unique where ids are.
LEMMA FirstFinish ==
    ASSUME NEW S, NEW a \in S,
           \A b \in S : b.finish \in Int /\ b.id \in Nat,
           \A b \in S : b.id = a.id => b = a,
           \A b \in S : a.finish < b.finish \/ (a.finish = b.finish /\ a.id <= b.id)
    PROVE  FirstBy(S, FinishWork) = a
  <1>1. ASSUME NEW c \in S,
               \A b \in S : c.finish < b.finish \/ (c.finish = b.finish /\ c.id <= b.id)
        PROVE  c = a
    <2>1. c.finish < a.finish \/ (c.finish = a.finish /\ c.id <= a.id)
      BY <1>1
    <2>2. a.finish < c.finish \/ (a.finish = c.finish /\ a.id <= c.id)
      OBVIOUS
    <2>3. c.finish \in Int /\ a.finish \in Int /\ c.id \in Nat /\ a.id \in Nat
      OBVIOUS
    <2>4. c.id = a.id
      BY <2>1, <2>2, <2>3
    <2> QED BY <2>4
  <1> QED BY <1>1 DEF FirstBy, FinishWork

LEMMA FirstLeft ==
    ASSUME NEW S, NEW a \in S,
           \A b \in S : b.left \in Int /\ b.id \in Nat,
           \A b \in S : b.id = a.id => b = a,
           \A b \in S : a.left < b.left \/ (a.left = b.left /\ a.id <= b.id)
    PROVE  FirstBy(S, VolumeLeft) = a
  <1>1. ASSUME NEW c \in S,
               \A b \in S : c.left < b.left \/ (c.left = b.left /\ c.id <= b.id)
        PROVE  c = a
    <2>1. c.left < a.left \/ (c.left = a.left /\ c.id <= a.id)
      BY <1>1
    <2>2. a.left < c.left \/ (a.left = c.left /\ a.id <= c.id)
      OBVIOUS
    <2>3. c.left \in Int /\ a.left \in Int /\ c.id \in Nat /\ a.id \in Nat
      OBVIOUS
    <2>4. c.id = a.id
      BY <2>1, <2>2, <2>3
    <2> QED BY <2>4
  <1> QED BY <1>1 DEF FirstBy, VolumeLeft

\* The operations on the books.
LEMMA BooksEmpty ==
    ASSUME NEW L, NEW next \in Nat
    PROVE  Books({}, L, next)
  <1>1. Len(PerActivity) \in Nat
    BY SharingAssumption
  <1> QED BY <1>1, FS_EmptySet DEF Books

LEMMA BooksStarted ==
    ASSUME NEW ids, NEW L, NEW next, Books(ids, L, next),
           Cardinality(ids) < Len(PerActivity),
           NEW v \in Nat, Divisible(v),
           NEW X, X = ids \cup {next}
    PROVE  Books(X, Started(ids, L, next, v), next + 1)
  <1> DEFINE S == Started(ids, L, next, v)
  <1>1. next \notin ids /\ next \in Nat /\ IsFiniteSet(ids) /\ Len(PerActivity) \in Nat
    BY SharingAssumption DEF Books
  <1>2. IsFiniteSet(X) /\ Cardinality(X) = Cardinality(ids) + 1
    BY <1>1, FS_AddElement
  <1>3. Cardinality(X) \in 0..Len(PerActivity)
    BY <1>1, <1>2 DEF Books
  <1>4. \A i \in X : S[i] \in Nat /\ Divisible(S[i])
    BY DEF Started, Books
  <1>5. X \subseteq Nat /\ next + 1 \in Nat /\ \A i \in X : i < next + 1
    BY DEF Books
  <1> QED BY <1>2, <1>3, <1>4, <1>5 DEF Books

LEMMA BooksPassed ==
    ASSUME NEW ids, NEW L, NEW next, Books(ids, L, next),
           NEW d \in Nat, Divisible(d), \A i \in ids : d <= L[i]
    PROVE  Books(ids, Passed(ids, L, d), next)
  <1>1. \A i \in ids : L[i] - d \in Nat /\ Divisible(L[i] - d)
    <2> SUFFICES ASSUME NEW i \in ids
                 PROVE  L[i] - d \in Nat /\ Divisible(L[i] - d)
      OBVIOUS
    <2>1. PICK x \in Nat : x = L[i] /\ Divisible(x) /\ d <= x
      BY DEF Books
    <2>2. x \in Int /\ d \in Int /\ Divisible(x) /\ Divisible(d)
      BY <2>1
    <2>3. Divisible(x - d)
      BY ONLY <2>2, DivisibleDifference
    <2> QED BY <2>1, <2>3
  <1>2. \A i \in ids : Passed(ids, L, d)[i] = L[i] - d
    BY DEF Passed
  <1> QED BY <1>1, <1>2 DEF Books

LEMMA BooksWithout ==
    ASSUME NEW ids, NEW L, NEW next, Books(ids, L, next), NEW c \in ids,
           NEW X, X = ids \ {c}
    PROVE  Books(X, L, next) /\ Cardinality(X) = Cardinality(ids) - 1
  <1>1. IsFiniteSet(X) /\ Cardinality(X) = Cardinality(ids) - 1
    BY FS_RemoveElement DEF Books
  <1>2. Cardinality(X) \in 0..Len(PerActivity)
    <2>1. Cardinality(X) \in Nat /\ Len(PerActivity) \in Nat /\ Cardinality(ids) \in 0..Len(PerActivity)
      BY <1>1, FS_CardinalityType, SharingAssumption DEF Books
    <2> QED BY <1>1, <2>1
  <1>3. \A i \in X : L[i] \in Nat /\ Divisible(L[i]) /\ i \in Nat /\ i < next
    BY DEF Books
  <1> QED BY <1>1, <1>2, <1>3 DEF Books

\* The time until the first ends is exact, and all last so long.
LEMMA FirstEnds ==
    ASSUME NEW ids, NEW L, NEW next, Books(ids, L, next), NEW i, IsFirst(ids, L, i)
    PROVE  /\ L[i] \div Each(ids) \in Nat
           /\ (L[i] \div Each(ids)) * Each(ids) = L[i]
           /\ L[i] \in Nat /\ Divisible(L[i])
           /\ \A j \in ids : L[i] <= L[j]
  <1>1. i \in ids /\ L[i] \in Nat /\ Divisible(L[i])
    BY DEF IsFirst, Books
  <1>2. Each(ids) \in Nat \ {0} /\ L[i] % Each(ids) = 0
    BY <1>1, ShareTyped
  <1>3. L[i] \div Each(ids) \in Nat /\ (L[i] \div Each(ids)) * Each(ids) = L[i]
    BY <1>1, <1>2, ExactQuotient, QuotientOfNatural
  <1>4. \A j \in ids : L[i] <= L[j]
    BY DEF IsFirst, Books
  <1> QED BY <1>1, <1>3, <1>4

\* A time is waited only if no activity ends before.
LEMMA BooksWaited ==
    ASSUME NEW ids, NEW L, NEW next, Books(ids, L, next),
           NEW t \in Nat, \A n \in DOMAIN PerActivity : Divisible(t * PerActivity[n]),
           \A i \in ids : t <= L[i] \div Each(ids),
           NEW d, d = t * Each(ids)
    PROVE  Books(ids, Passed(ids, L, d), next)
  <1>1. CASE ids = {}
    BY <1>1 DEF Books
  <1>2. CASE ids # {}
    <2>1. /\ Each(ids) \in Nat \ {0} /\ \A i \in ids : L[i] % Each(ids) = 0
          /\ Divisible(d)
      BY <1>2, ShareTyped
    <2>2. \A i \in ids : L[i] \in Int
      BY DEF Books
    <2>3. \A i \in ids : d \in Nat /\ d <= L[i]
      BY <2>1, <2>2, ProductBelow
    <2> QED BY <1>2, <2>1, <2>3, BooksPassed
  <1> QED BY <1>1, <1>2

LEMMA BooksEnded ==
    ASSUME NEW ids, NEW L, NEW next, Books(ids, L, next), NEW i, IsFirst(ids, L, i),
           NEW X, X = ids \ {i}, NEW K, K = Passed(ids, L, L[i])
    PROVE  Books(ids, K, next) /\ Books(X, K, next)
  <1>1. Books(ids, K, next)
    BY FirstEnds, BooksPassed
  <1>2. i \in ids
    BY DEF IsFirst
  <1> QED BY <1>1, <1>2, BooksWithout

\* Waiting leaves the first the first.
LEMMA FirstPassed ==
    ASSUME NEW ids, NEW L, NEW i, NEW d \in Int, \A j \in ids : L[j] \in Int
    PROVE  IsFirst(ids, L, i) <=> IsFirst(ids, Passed(ids, L, d), i)
  <1>1. PICK K : K = Passed(ids, L, d)
    OBVIOUS
  <1>2. \A j \in ids : K[j] = L[j] - d
    BY <1>1 DEF Passed
  <1>3. ASSUME NEW j \in ids, i \in ids
        PROVE  (L[i] < L[j] <=> K[i] < K[j]) /\ (L[i] = L[j] <=> K[i] = K[j])
    <2>1. L[i] \in Int /\ L[j] \in Int /\ K[i] = L[i] - d /\ K[j] = L[j] - d
      BY <1>2, <1>3
    <2> QED BY <2>1
  <1>4. IsFirst(ids, L, i) <=> IsFirst(ids, K, i)
    BY <1>3 DEF IsFirst
  <1> QED BY <1>1, <1>4

-----------------------------------------------------------------------------
(* The work that is left in truth.                                         *)

Works(ids, L) == {[id |-> i, left |-> L[i]] : i \in ids}

\* A set with one element for each id.
LEMMA CountByIds ==
    ASSUME NEW ids, IsFiniteSet(ids), NEW S, NEW f \in [ids -> S],
           \A i \in ids : f[i].id = i, \A w \in S : \E i \in ids : f[i] = w
    PROVE  Cardinality(S) = Cardinality(ids)
  <1>1. \A i, j \in ids : f[i] = f[j] => i = j
    OBVIOUS
  <1>2. f \in Bijection(ids, S)
    BY <1>1 DEF Bijection, Injection, Surjection, IsInjective
  <1>3. ExistsBijection(ids, S)
    BY <1>2 DEF ExistsBijection
  <1> QED BY <1>3, FS_Bijection

LEMMA WorksCount ==
    ASSUME NEW ids, NEW L, IsFiniteSet(ids)
    PROVE  Cardinality(Works(ids, L)) = Cardinality(ids)
  <1> DEFINE f == [i \in ids |-> [id |-> i, left |-> L[i]]]
  <1>1. /\ f \in [ids -> Works(ids, L)] /\ \A i \in ids : f[i].id = i
        /\ \A w \in Works(ids, L) : \E i \in ids : f[i] = w
    BY DEF Works
  <1> HIDE DEF f
  <1> QED BY <1>1, CountByIds

LEMMA WorksFirst ==
    ASSUME NEW ids, NEW L, NEW next, Books(ids, L, next), NEW i, IsFirst(ids, L, i)
    PROVE  NextToEnd(Works(ids, L)) = [id |-> i, left |-> L[i]]
  <1> DEFINE S == Works(ids, L)
             a == [id |-> i, left |-> L[i]]
  <1>1. a \in S
    BY DEF Works, IsFirst
  <1>2. \A b \in S : b.id \in ids /\ b = [id |-> b.id, left |-> L[b.id]]
    BY DEF Works
  <1>3. \A b \in S : b.left \in Int /\ b.id \in Nat
    BY <1>2 DEF Books
  <1>4. \A b \in S : b.id = a.id => b = a
    BY <1>2
  <1>5. \A b \in S : a.left < b.left \/ (a.left = b.left /\ a.id <= b.id)
    BY <1>2 DEF IsFirst
  <1> HIDE DEF S, a
  <1>6. FirstBy(S, VolumeLeft) = a
    BY <1>1, <1>3, <1>4, <1>5, FirstLeft
  <1> QED BY <1>6 DEF NextToEnd, S, a

LEMMA WorksTimeToEnd ==
    ASSUME NEW ids, NEW L, NEW next, Books(ids, L, next), NEW i, IsFirst(ids, L, i)
    PROVE  TimeToEnd(Works(ids, L)) = L[i] \div Each(ids)
  <1>1. Cardinality(Works(ids, L)) = Cardinality(ids)
    BY WorksCount DEF Books
  <1>2. NextToEnd(Works(ids, L)).left = L[i]
    BY WorksFirst
  <1> QED BY <1>1, <1>2 DEF TimeToEnd, Each

LEMMA WorksPassed ==
    ASSUME NEW ids, NEW L, IsFiniteSet(ids), NEW t, NEW d, d = t * Each(ids)
    PROVE  WorkAfter(Works(ids, L), t) = Works(ids, Passed(ids, L, d))
  <1>1. Cardinality(Works(ids, L)) = Cardinality(ids)
    BY WorksCount
  <1>2. \A a : [a EXCEPT !.left = @ - t * Share(Cardinality(Works(ids, L)))]
                 = [a EXCEPT !.left = @ - d]
    BY <1>1 DEF Each
  <1>3. WorkAfter(Works(ids, L), t) = {[a EXCEPT !.left = @ - d] : a \in Works(ids, L)}
    BY <1>2 DEF WorkAfter
  <1>4. \A i \in ids : [[id |-> i, left |-> L[i]] EXCEPT !.left = @ - d]
                         = [id |-> i, left |-> L[i] - d]
    OBVIOUS
  <1>5. {[a EXCEPT !.left = @ - d] : a \in Works(ids, L)} = {[id |-> i, left |-> L[i] - d] : i \in ids}
    <2> DEFINE after(a) == [a EXCEPT !.left = @ - d]
               old(i) == [id |-> i, left |-> L[i]]
               new(i) == [id |-> i, left |-> L[i] - d]
    <2>1. \A i \in ids : after(old(i)) = new(i)
      BY <1>4
    <2> HIDE DEF after, old, new
    <2>2. {after(a) : a \in {old(i) : i \in ids}} = {new(i) : i \in ids}
      BY <2>1
    <2> QED BY <2>2 DEF Works, after, old, new
  <1>6. {[id |-> i, left |-> L[i] - d] : i \in ids} = Works(ids, Passed(ids, L, d))
    BY DEF Works, Passed
  <1> QED BY <1>3, <1>5, <1>6

LEMMA WorksStarted ==
    ASSUME NEW ids, NEW L, NEW next, Books(ids, L, next), NEW v, NEW X, X = ids \cup {next}
    PROVE  Works(ids, L) \cup {[id |-> next, left |-> v]} = Works(X, Started(ids, L, next, v))
  <1>1. PICK K : K = Started(ids, L, next, v)
    OBVIOUS
  <1>2. K[next] = v /\ \A i \in ids : K[i] = L[i]
    BY <1>1 DEF Started, Books
  <1>3. Works(ids, L) \cup {[id |-> next, left |-> v]} = Works(X, K)
    BY <1>2 DEF Works
  <1> QED BY <1>1, <1>3

LEMMA WorksWithout ==
    ASSUME NEW ids, NEW L, NEW c, NEW X, X = ids \ {c}
    PROVE  /\ Works(ids, L) \ {[id |-> c, left |-> L[c]]} = Works(X, L)
           /\ {a \in Works(ids, L) : a.id # c} = Works(X, L)
  BY DEF Works

LEMMA WorksEnded ==
    ASSUME NEW ids, NEW L, NEW next, Books(ids, L, next), NEW i, IsFirst(ids, L, i),
           NEW X, X = ids \ {i}, NEW K, K = Passed(ids, L, L[i])
    PROVE  WithoutEnded(Works(ids, L)) = Works(X, K)
  <1>1. PICK t : t = TimeToEnd(Works(ids, L))
    OBVIOUS
  <1>2. L[i] = t * Each(ids)
    BY <1>1, WorksTimeToEnd, FirstEnds
  <1>3. PICK d : d = L[i]
    OBVIOUS
  <1>4. WorkAfter(Works(ids, L), t) = Works(ids, K)
    <2>1. WorkAfter(Works(ids, L), t) = Works(ids, Passed(ids, L, d))
      BY <1>2, <1>3, WorksPassed DEF Books
    <2> QED BY <2>1, <1>3
  <1>5. [NextToEnd(Works(ids, L)) EXCEPT !.left = 0] = [id |-> i, left |-> K[i]]
    <2>1. NextToEnd(Works(ids, L)) = [id |-> i, left |-> L[i]]
      BY WorksFirst
    <2>2. i \in ids /\ L[i] \in Int
      BY DEF IsFirst, Books
    <2>3. K[i] = 0
      BY <2>2 DEF Passed
    <2> QED BY <2>1, <2>3
  <1>6. WithoutEnded(Works(ids, L)) = Works(ids, K) \ {[id |-> i, left |-> K[i]]}
    BY <1>1, <1>4, <1>5 DEF WithoutEnded
  <1>7. Works(ids, K) \ {[id |-> i, left |-> K[i]]} = Works(X, K)
    BY DEF Works
  <1> QED BY <1>6, <1>7

-----------------------------------------------------------------------------
(* FairThroughputSharingModel                                              *)

Fasts(ids, item, F) == {[id |-> i, item |-> item[i], finish |-> F[i]] : i \in ids}

FastRecord(activities, share, next, total, last) ==
    [activities |-> activities, share |-> share, nextId |-> next, total |-> total, last |-> last]

FastOf(ids, item, F, total, last, next) ==
    FastRecord(Fasts(ids, item, F), Each(ids), next, total, last)

\* What an activity ends at: what is left of it after the total and what all got since.
Finishes(ids, L, F, total, last, now) ==
    /\ total \in Int /\ last \in Int /\ now \in Int
    /\ \A i \in ids : F[i] \in Int /\ F[i] = L[i] + total + (now - last) * Each(ids)

FastIs(m, ids, L, item, now, next) ==
    \E F, total, last : /\ Finishes(ids, L, F, total, last, now)
                        /\ m = FastOf(ids, item, F, total, last, next)

LEMMA FastsCount ==
    ASSUME NEW ids, NEW item, NEW F, IsFiniteSet(ids)
    PROVE  Cardinality(Fasts(ids, item, F)) = Cardinality(ids)
  <1> DEFINE f == [i \in ids |-> [id |-> i, item |-> item[i], finish |-> F[i]]]
  <1>1. /\ f \in [ids -> Fasts(ids, item, F)] /\ \A i \in ids : f[i].id = i
        /\ \A w \in Fasts(ids, item, F) : \E i \in ids : f[i] = w
    BY DEF Fasts
  <1> HIDE DEF f
  <1> QED BY <1>1, CountByIds

\* What ends first is what has the least left.
LEMMA FirstFinishes ==
    ASSUME NEW ids, NEW L, NEW next, Books(ids, L, next), NEW i,
           NEW F, NEW total, NEW last, NEW now, Finishes(ids, L, F, total, last, now)
    PROVE  IsFirst(ids, L, i) <=> IsFirst(ids, F, i)
  <1>1. PICK w : w = total + (now - last) * Each(ids)
    OBVIOUS
  <1>2. w \in Int
    BY <1>1, ShareTyped DEF Finishes
  <1>3. \A j \in ids : F[j] \in Int /\ L[j] \in Int /\ F[j] = L[j] + w
    <2>1. Each(ids) \in Int
      BY ShareTyped
    <2>2. (now - last) * Each(ids) \in Int /\ total \in Int
      BY <2>1 DEF Finishes
    <2> QED BY <1>1, <2>2 DEF Finishes, Books
  <1>4. ASSUME NEW j \in ids, i \in ids
        PROVE  (L[i] < L[j] <=> F[i] < F[j]) /\ (L[i] = L[j] <=> F[i] = F[j])
    <2>1. /\ L[i] \in Int /\ F[i] = L[i] + w
          /\ L[j] \in Int /\ F[j] = L[j] + w
      BY <1>3, <1>4
    <2>2. (L[i] < L[j] <=> L[i] + w < L[j] + w) /\ (L[i] = L[j] <=> L[i] + w = L[j] + w)
      BY <1>2, <2>1, ShiftKeepsOrder
    <2> QED BY <2>1, <2>2
  <1> QED BY <1>4 DEF IsFirst

LEMMA FastsFirst ==
    ASSUME NEW ids, NEW L, NEW next, Books(ids, L, next), NEW i, IsFirst(ids, L, i), NEW item,
           NEW F, NEW total, NEW last, NEW now, Finishes(ids, L, F, total, last, now)
    PROVE  FirstBy(Fasts(ids, item, F), FinishWork) = [id |-> i, item |-> item[i], finish |-> F[i]]
  <1> DEFINE S == Fasts(ids, item, F)
             a == [id |-> i, item |-> item[i], finish |-> F[i]]
  <1>0. IsFirst(ids, F, i)
    BY FirstFinishes
  <1>1. a \in S
    BY DEF Fasts, IsFirst
  <1>2. \A b \in S : b.id \in ids /\ b = [id |-> b.id, item |-> item[b.id], finish |-> F[b.id]]
    BY DEF Fasts
  <1>3. \A b \in S : b.finish \in Int /\ b.id \in Nat
    BY <1>2 DEF Books, Finishes
  <1>4. \A b \in S : b.id = a.id => b = a
    BY <1>2
  <1>5. \A b \in S : a.finish < b.finish \/ (a.finish = b.finish /\ a.id <= b.id)
    BY <1>0, <1>2 DEF IsFirst
  <1> HIDE DEF S, a
  <1>6. FirstBy(S, FinishWork) = a
    BY <1>1, <1>3, <1>4, <1>5, FirstFinish
  <1> QED BY <1>6 DEF S, a

LEMMA FinishTime ==
    ASSUME NEW ids, NEW L, NEW next, Books(ids, L, next), NEW i, IsFirst(ids, L, i),
           NEW F, NEW total, NEW last, NEW now, Finishes(ids, L, F, total, last, now)
    PROVE  /\ F[i] \in Int /\ total \in Int
           /\ F[i] - total = L[i] + (now - last) * Each(ids)
           /\ last + (F[i] - total) \div Each(ids) = now + L[i] \div Each(ids)
  <1>1. i \in ids /\ ids # {}
    BY DEF IsFirst
  <1>2. PICK s \in Nat \ {0} : s = Each(ids) /\ L[i] % s = 0
    BY <1>1, ShareTyped
  <1>3. PICK x \in Int : x = L[i]
    BY <1>1 DEF Books
  <1>4. PICK t \in Int : t = now - last
    BY DEF Finishes
  <1>5. F[i] \in Int /\ total \in Int /\ F[i] = x + total + t * s
    BY <1>1, <1>2, <1>3, <1>4 DEF Finishes
  <1>6. (x + t * s) \div s = x \div s + t
    BY <1>2, <1>3, QuotientOfSum
  <1>7. t * s \in Int /\ x \div s \in Int
    BY <1>2, <1>3, ExactQuotient
  <1>8. F[i] - total = x + t * s
    BY <1>5, <1>7
  <1>9. last + (x \div s + t) = now + x \div s
    <2>1. PICK q \in Int : q = x \div s
      BY <1>7
    <2>2. last \in Int /\ now \in Int /\ t = now - last
      BY <1>4 DEF Finishes
    <2> QED BY <2>1, <2>2
  <1> QED BY <1>2, <1>3, <1>4, <1>5, <1>6, <1>8, <1>9

LEMMA FastPeekIs ==
    ASSUME NEW ids, NEW L, NEW next, Books(ids, L, next), NEW i, IsFirst(ids, L, i),
           NEW item, NEW now, NEW m, FastIs(m, ids, L, item, now, next)
    PROVE  /\ FastPeek(m) = [item |-> item[i], time |-> now + L[i] \div Each(ids)]
           /\ FirstBy(m.activities, FinishWork).id = i
  <1>1. PICK F, total, last : /\ Finishes(ids, L, F, total, last, now)
                              /\ m = FastOf(ids, item, F, total, last, next)
    BY DEF FastIs
  <1>2. /\ m.activities = Fasts(ids, item, F) /\ m.share = Each(ids)
        /\ m.total = total /\ m.last = last
    BY <1>1 DEF FastOf, FastRecord
  <1>3. PICK a : a = FirstBy(Fasts(ids, item, F), FinishWork)
    OBVIOUS
  <1>4. a = [id |-> i, item |-> item[i], finish |-> F[i]]
    BY <1>1, <1>3, FastsFirst
  <1>5. FastPeek(m) = [item |-> a.item, time |-> last + (a.finish - total) \div Each(ids)]
    BY <1>2, <1>3 DEF FastPeek
  <1>6. last + (F[i] - total) \div Each(ids) = now + L[i] \div Each(ids)
    BY <1>1, FinishTime
  <1>7. a.id = i /\ a.item = item[i] /\ a.finish = F[i]
    BY <1>4
  <1> QED BY <1>2, <1>3, <1>5, <1>6, <1>7

LEMMA FinishesPassed ==
    ASSUME NEW ids, NEW L, NEW next, Books(ids, L, next),
           NEW F, NEW total, NEW last, NEW now, Finishes(ids, L, F, total, last, now),
           NEW t \in Int, NEW d, d = t * Each(ids)
    PROVE  Finishes(ids, Passed(ids, L, d), F, total, last, now + t)
  <1>1. PICK K : K = Passed(ids, L, d)
    OBVIOUS
  <1>2. ASSUME NEW j \in ids
        PROVE  F[j] \in Int /\ F[j] = K[j] + total + ((now + t) - last) * Each(ids)
    <2>1. PICK s \in Nat : s = Each(ids)
      BY ShareTyped
    <2>2. PICK x \in Int : x = L[j]
      BY DEF Books
    <2>3. K[j] = x - d
      BY <1>1, <2>2 DEF Passed
    <2>4. /\ F[j] \in Int /\ F[j] = x + total + (now - last) * s
          /\ total \in Int /\ now \in Int /\ last \in Int
      BY <2>1, <2>2 DEF Finishes
    <2>5. (now + t - last) * s = (now - last) * s + d /\ (now - last) * s \in Int /\ d \in Int
      BY <2>1, <2>4, Distributes
    <2> QED BY <2>1, <2>2, <2>3, <2>4, <2>5
  <1>3. Finishes(ids, K, F, total, last, now + t)
    BY <1>2 DEF Finishes
  <1> QED BY <1>1, <1>3

LEMMA FastPassedIs ==
    ASSUME NEW ids, NEW L, NEW next, Books(ids, L, next),
           NEW item, NEW now, NEW m, FastIs(m, ids, L, item, now, next),
           NEW t \in Int, NEW d, d = t * Each(ids)
    PROVE  FastIs(m, ids, Passed(ids, L, d), item, now + t, next)
  <1>1. PICK F, total, last : /\ Finishes(ids, L, F, total, last, now)
                              /\ m = FastOf(ids, item, F, total, last, next)
    BY DEF FastIs
  <1>2. Finishes(ids, Passed(ids, L, d), F, total, last, now + t)
    BY <1>1, FinishesPassed
  <1> QED BY <1>1, <1>2 DEF FastIs

\* When the first has ended, and the total is what it ended at or has started from 0.
LEMMA FinishesEnded ==
    ASSUME NEW ids, NEW L, NEW next, Books(ids, L, next), NEW i, IsFirst(ids, L, i),
           NEW F, NEW total, NEW last, NEW now, Finishes(ids, L, F, total, last, now),
           NEW X, X = ids \ {i}, NEW K, K = Passed(ids, L, L[i]),
           NEW t \in Int, NEW G, \A j \in X : G[j] \in Int /\ G[j] = F[j] - F[i] + t,
           NEW n \in Int
    PROVE  Finishes(X, K, G, t, n, n)
  <1>1. PICK w \in Int : w = (now - last) * Each(ids)
    BY ShareTyped DEF Finishes
  <1>2. /\ total \in Int /\ i \in ids
        /\ \A j \in ids : F[j] \in Int /\ L[j] \in Int /\ F[j] = L[j] + total + w
    BY <1>1 DEF Finishes, Books, IsFirst
  <1>3. (n - n) * Each(X) = 0
    <2>1. Books(X, K, next)
      BY BooksEnded
    <2>2. PICK e \in Nat : e = Each(X)
      BY <2>1, ShareTyped
    <2>3. (n - n) * e = 0
      OBVIOUS
    <2> QED BY <2>2, <2>3
  <1>4. ASSUME NEW j \in X PROVE G[j] \in Int /\ K[j] \in Int /\ G[j] = K[j] + t
    <2>1. /\ F[i] = L[i] + total + w /\ F[j] = L[j] + total + w
          /\ L[i] \in Int /\ L[j] \in Int /\ K[j] = L[j] - L[i]
      BY <1>2 DEF Passed
    <2> QED BY <1>1, <1>2, <2>1
  <1> QED BY <1>3, <1>4 DEF Finishes

\* The total grows, or starts again from 0 and what activities end at moves with it.
LEMMA FastIncrement ==
    ASSUME NEW ids, NEW item, NEW F, NEW share, NEW next, NEW total \in Int, NEW last,
           \A i \in ids : F[i] \in Int, NEW delta \in Int,
           NEW m, m = FastRecord(Fasts(ids, item, F), share, next, total, last)
    PROVE  \E G, t : /\ t \in Int
                     /\ \A i \in ids : G[i] \in Int /\ G[i] = F[i] - (total + delta) + t
                     /\ IncrementTotalWork(m, delta)
                          = FastRecord(Fasts(ids, item, G), share, next, t, last)
  <1>1. PICK w \in Int : w = total + delta
    OBVIOUS
  <1>2. /\ m.total = total /\ m.activities = Fasts(ids, item, F)
        /\ m = [activities |-> Fasts(ids, item, F), share |-> share, nextId |-> next,
                total |-> total, last |-> last]
    BY DEF FastRecord
  <1>3. CASE w <= TotalWorkMax
    <2>1. IncrementTotalWork(m, delta) = [m EXCEPT !.total = w]
      BY <1>1, <1>2, <1>3 DEF IncrementTotalWork
    <2>2. [m EXCEPT !.total = w] = FastRecord(Fasts(ids, item, F), share, next, w, last)
      BY <1>2 DEF FastRecord
    <2>3. \A i \in ids : F[i] \in Int /\ F[i] = F[i] - (total + delta) + w
      BY <1>1
    <2> QED BY <2>1, <2>2, <2>3
  <1>4. CASE ~ (w <= TotalWorkMax)
    <2> DEFINE G == [i \in ids |-> F[i] - w]
               moved(a) == [a EXCEPT !.finish = @ - w]
               old(i) == [id |-> i, item |-> item[i], finish |-> F[i]]
               new(i) == [id |-> i, item |-> item[i], finish |-> G[i]]
    <2>1. IncrementTotalWork(m, delta)
            = [m EXCEPT !.activities = {moved(a) : a \in @}, !.total = 0]
      BY <1>1, <1>2, <1>4 DEF IncrementTotalWork
    <2>2. {moved(a) : a \in m.activities} = Fasts(ids, item, G)
      <3>1. \A i \in ids : moved(old(i)) = new(i)
        OBVIOUS
      <3>2. Fasts(ids, item, F) = {old(i) : i \in ids} /\ Fasts(ids, item, G) = {new(i) : i \in ids}
        BY DEF Fasts
      <3> HIDE DEF moved, old, new
      <3>3. {moved(a) : a \in {old(i) : i \in ids}} = {new(i) : i \in ids}
        BY <3>1
      <3> QED BY <1>2, <3>2, <3>3
    <2>3. PICK S : S = {moved(a) : a \in m.activities}
      OBVIOUS
    <2>4. [m EXCEPT !.activities = S, !.total = 0] = FastRecord(S, share, next, 0, last)
      <3>1. PICK A : A = Fasts(ids, item, F)
        OBVIOUS
      <3>2. m = [activities |-> A, share |-> share, nextId |-> next, total |-> total, last |-> last]
        BY <1>2, <3>1
      <3>3. [m EXCEPT !.activities = S]
              = [activities |-> S, share |-> share, nextId |-> next, total |-> total, last |-> last]
        BY ONLY <3>2
      <3>4. PICK n : n = [activities |-> S, share |-> share, nextId |-> next,
                          total |-> total, last |-> last]
        OBVIOUS
      <3>5. [n EXCEPT !.total = 0]
              = [activities |-> S, share |-> share, nextId |-> next, total |-> 0, last |-> last]
        BY ONLY <3>4
      <3>6. [m EXCEPT !.activities = S, !.total = 0] = [n EXCEPT !.total = 0]
        BY <3>3, <3>4
      <3> QED BY <3>5, <3>6 DEF FastRecord
    <2>5. \A i \in ids : G[i] \in Int /\ G[i] = F[i] - (total + delta) + 0
      BY <1>1
    <2>6. IncrementTotalWork(m, delta) = [m EXCEPT !.activities = S, !.total = 0]
      BY <2>1, <2>3
    <2>7. IncrementTotalWork(m, delta) = FastRecord(Fasts(ids, item, G), share, next, 0, last)
      BY <2>2, <2>3, <2>4, <2>6
    <2> HIDE DEF G, moved
    <2>8. PICK H : H = G
      OBVIOUS
    <2> QED BY <2>5, <2>7, <2>8
  <1> QED BY <1>3, <1>4

\* FastInsert and FastPop, but for the work that is counted before.
FastAdded(u, item, volume, now) ==
    [u EXCEPT !.activities = @ \cup {[id |-> u.nextId, item |-> item, finish |-> u.total + volume]},
              !.nextId = @ + 1,
              !.share = Share(Cardinality(u.activities) + 1),
              !.last = now]

LEMMA FastAddedIs ==
    ASSUME NEW A, NEW share, NEW next, NEW t, NEW last, NEW item, NEW v, NEW now,
           NEW u, u = FastRecord(A, share, next, t, last)
    PROVE  FastAdded(u, item, v, now)
             = FastRecord(A \cup {[id |-> next, item |-> item, finish |-> t + v]},
                          Share(Cardinality(A) + 1), next + 1, t, now)
  <1>1. u = [activities |-> A, share |-> share, nextId |-> next, total |-> t, last |-> last]
    BY DEF FastRecord
  <1>2. PICK B : B = A \cup {[id |-> next, item |-> item, finish |-> t + v]}
    OBVIOUS
  <1>3. PICK s : s = Share(Cardinality(A) + 1)
    OBVIOUS
  <1>4. FastAdded(u, item, v, now) = [u EXCEPT !.activities = B, !.nextId = next + 1,
                                              !.share = s, !.last = now]
    BY <1>1, <1>2, <1>3 DEF FastAdded
  <1>5. [u EXCEPT !.activities = B, !.nextId = next + 1, !.share = s, !.last = now]
          = [activities |-> B, share |-> s, nextId |-> next + 1, total |-> t, last |-> now]
    <2>1. PICK a : a = [activities |-> B, share |-> share, nextId |-> next, total |-> t, last |-> last]
      OBVIOUS
    <2>2. PICK b : b = [activities |-> B, share |-> share, nextId |-> next + 1,
                        total |-> t, last |-> last]
      OBVIOUS
    <2>3. PICK e : e = [activities |-> B, share |-> s, nextId |-> next + 1, total |-> t, last |-> last]
      OBVIOUS
    <2>4. [u EXCEPT !.activities = B] = a
      BY ONLY <1>1, <2>1
    <2>5. [a EXCEPT !.nextId = next + 1] = b
      BY ONLY <2>1, <2>2
    <2>6. [b EXCEPT !.share = s] = e
      BY ONLY <2>2, <2>3
    <2>7. [e EXCEPT !.last = now]
            = [activities |-> B, share |-> s, nextId |-> next + 1, total |-> t, last |-> now]
      BY ONLY <2>3
    <2> QED BY <2>4, <2>5, <2>6, <2>7
  <1> QED BY <1>2, <1>3, <1>4, <1>5 DEF FastRecord

LEMMA FastInsertIs ==
    ASSUME NEW ids, NEW L, NEW next, Books(ids, L, next),
           NEW item, NEW now, NEW m, FastIs(m, ids, L, item, now, next),
           NEW c, NEW v \in Nat, NEW X, X = ids \cup {next},
           Books(X, Started(ids, L, next, v), next + 1)
    PROVE  FastIs(FastInsert(m, c, v, now), X, Started(ids, L, next, v),
                  Started(ids, item, next, c), now, next + 1)
  <1>1. PICK F, total, last : /\ Finishes(ids, L, F, total, last, now)
                              /\ m = FastOf(ids, item, F, total, last, next)
    BY DEF FastIs
  <1>2. /\ m = FastRecord(Fasts(ids, item, F), Each(ids), next, total, last)
        /\ m.activities = Fasts(ids, item, F) /\ m.last = last /\ m.share = Each(ids)
    BY <1>1 DEF FastOf, FastRecord
  <1>3. PICK s \in Nat : s = Each(ids)
    BY ShareTyped
  <1>4. /\ total \in Int /\ last \in Int /\ now \in Int /\ \A i \in ids : L[i] \in Int
        /\ \A i \in ids : F[i] \in Int /\ F[i] = L[i] + total + (now - last) * s
    BY <1>1, <1>3 DEF Finishes, Books
  <1>5. PICK delta \in Int : delta = (now - last) * s
    BY <1>4
  <1>6. PICK u : u = IF m.activities = {} THEN m ELSE IncrementTotalWork(m, (now - m.last) * m.share)
    OBVIOUS
  <1>7. FastInsert(m, c, v, now) = FastAdded(u, c, v, now)
    BY <1>6 DEF FastInsert, FastAdded
  <1>8. \E G, t : /\ t \in Int /\ \A i \in ids : G[i] \in Int /\ G[i] = L[i] + t
                  /\ u = FastRecord(Fasts(ids, item, G), Each(ids), next, t, last)
    <2>1. CASE ids = {}
      <3>1. m.activities = {}
        BY <1>2, <2>1 DEF Fasts
      <3>2. u = m
        BY <1>6, <3>1
      <3> QED BY <1>2, <1>4, <2>1, <3>2
    <2>2. CASE ids # {}
      <3>1. m.activities # {}
        BY <1>2, <2>2 DEF Fasts
      <3>2. u = IncrementTotalWork(m, delta)
        BY <1>2, <1>3, <1>5, <1>6, <3>1
      <3>3. PICK G, t : /\ t \in Int
                        /\ \A i \in ids : G[i] \in Int /\ G[i] = F[i] - (total + delta) + t
                        /\ IncrementTotalWork(m, delta)
                             = FastRecord(Fasts(ids, item, G), Each(ids), next, t, last)
        BY <1>2, <1>4, FastIncrement
      <3>4. \A i \in ids : G[i] = L[i] + t
        BY <1>4, <1>5, <3>3
      <3> QED BY <3>2, <3>3, <3>4
    <2> QED BY <2>1, <2>2
  <1>9. PICK G, t : /\ t \in Int /\ \A i \in ids : G[i] \in Int /\ G[i] = L[i] + t
                    /\ u = FastRecord(Fasts(ids, item, G), Each(ids), next, t, last)
    BY <1>8
  <1>10. PICK K, N, H : /\ K = Started(ids, L, next, v) /\ N = Started(ids, item, next, c)
                        /\ H = Started(ids, G, next, t + v)
    OBVIOUS
  <1>11. /\ K[next] = v /\ N[next] = c /\ H[next] = t + v
         /\ \A i \in ids : i # next /\ K[i] = L[i] /\ N[i] = item[i] /\ H[i] = G[i]
    BY <1>10 DEF Started, Books
  <1>12. Fasts(ids, item, G) \cup {[id |-> next, item |-> c, finish |-> t + v]} = Fasts(X, N, H)
    BY <1>11 DEF Fasts
  <1>13. Share(Cardinality(Fasts(ids, item, G)) + 1) = Each(X)
    <2>1. Cardinality(Fasts(ids, item, G)) = Cardinality(ids) /\ next \notin ids /\ IsFiniteSet(ids)
      BY FastsCount DEF Books
    <2>2. Cardinality(X) = Cardinality(ids) + 1
      BY <2>1, FS_AddElement
    <2> QED BY <2>1, <2>2 DEF Each
  <1>14. FastAdded(u, c, v, now) = FastOf(X, N, H, t, now, next + 1)
    <2>1. FastAdded(u, c, v, now)
            = FastRecord(Fasts(ids, item, G) \cup {[id |-> next, item |-> c, finish |-> t + v]},
                         Share(Cardinality(Fasts(ids, item, G)) + 1), next + 1, t, now)
      BY <1>9, FastAddedIs
    <2> QED BY <2>1, <1>12, <1>13 DEF FastOf
  <1>15. Finishes(X, K, H, t, now, now)
    <2>1. (now - now) * Each(X) = 0
      <3>1. PICK e \in Nat : e = Each(X)
        BY ShareTyped
      <3>2. (now - now) * e = 0
        BY <1>4
      <3> QED BY <3>1, <3>2
    <2>2. \A i \in X : H[i] \in Int /\ K[i] \in Int /\ H[i] = K[i] + t
      BY <1>4, <1>9, <1>11
    <2> QED BY <1>4, <1>9, <2>1, <2>2 DEF Finishes
  <1> QED BY <1>7, <1>10, <1>14, <1>15 DEF FastIs

FastSettled(u, s, now) == [u EXCEPT !.share = s, !.last = now]

LEMMA FastSettledIs ==
    ASSUME NEW A, NEW share, NEW next, NEW t, NEW last, NEW s, NEW now,
           NEW u, u = FastRecord(A, share, next, t, last)
    PROVE  FastSettled(u, s, now) = FastRecord(A, s, next, t, now)
  <1>1. u = [activities |-> A, share |-> share, nextId |-> next, total |-> t, last |-> last]
    BY DEF FastRecord
  <1>2. PICK b : b = [activities |-> A, share |-> s, nextId |-> next, total |-> t, last |-> last]
    OBVIOUS
  <1>3. [u EXCEPT !.share = s] = b
    BY ONLY <1>1, <1>2
  <1>4. [b EXCEPT !.last = now]
          = [activities |-> A, share |-> s, nextId |-> next, total |-> t, last |-> now]
    BY ONLY <1>2
  <1> QED BY <1>3, <1>4 DEF FastRecord, FastSettled

LEMMA FastPopIs ==
    ASSUME NEW ids, NEW L, NEW next, Books(ids, L, next), NEW i, IsFirst(ids, L, i),
           NEW item, NEW now, NEW m, FastIs(m, ids, L, item, now, next),
           NEW X, X = ids \ {i}, NEW K, K = Passed(ids, L, L[i])
    PROVE  FastIs(FastPop(m), X, K, item, now + L[i] \div Each(ids), next)
  <1>1. PICK F, total, last : /\ Finishes(ids, L, F, total, last, now)
                              /\ m = FastOf(ids, item, F, total, last, next)
    BY DEF FastIs
  <1>2. PICK A : A = Fasts(ids, item, F)
    OBVIOUS
  <1>3. /\ m = [activities |-> A, share |-> Each(ids), nextId |-> next,
                total |-> total, last |-> last]
        /\ m.activities = A /\ m.total = total
    BY <1>1, <1>2 DEF FastOf, FastRecord
  <1>4. PICK a : a = FirstBy(A, FinishWork)
    OBVIOUS
  <1>5. a = [id |-> i, item |-> item[i], finish |-> F[i]]
    BY <1>1, <1>2, <1>4, FastsFirst
  <1>6. A \ {a} = Fasts(X, item, F)
    BY <1>2, <1>5 DEF Fasts
  <1>7. PICK r : r = [m EXCEPT !.activities = @ \ {a}]
    OBVIOUS
  <1>8. r = FastRecord(Fasts(X, item, F), Each(ids), next, total, last)
    BY <1>3, <1>6, <1>7 DEF FastRecord
  <1>9. PICK s \in Nat \ {0} : s = Each(ids)
    BY ShareTyped DEF IsFirst
  <1>10. /\ total \in Int /\ last \in Int /\ now \in Int /\ i \in ids /\ L[i] \in Int
         /\ \A j \in ids : F[j] \in Int /\ L[j] \in Int /\ F[j] = L[j] + total + (now - last) * s
    BY <1>1, <1>9 DEF Finishes, Books, IsFirst
  <1>11. PICK delta \in Int : delta = F[i] - total
    BY <1>10
  <1>12. PICK G, t : /\ t \in Int
                     /\ \A j \in X : G[j] \in Int /\ G[j] = F[j] - (total + delta) + t
                     /\ IncrementTotalWork(r, delta)
                          = FastRecord(Fasts(X, item, G), Each(ids), next, t, last)
    <2>1. \A j \in X : F[j] \in Int
      BY <1>10
    <2>2. PICK e : e = Each(ids)
      OBVIOUS
    <2>3. r = FastRecord(Fasts(X, item, F), e, next, total, last)
      BY <1>8, <2>2
    <2>4. \E G, t : /\ t \in Int
                    /\ \A j \in X : G[j] \in Int /\ G[j] = F[j] - (total + delta) + t
                    /\ IncrementTotalWork(r, delta)
                         = FastRecord(Fasts(X, item, G), e, next, t, last)
      BY <1>10, <2>1, <2>3, FastIncrement
    <2> QED BY <2>2, <2>4
  <1>13. PICK u : u = IncrementTotalWork(r, delta)
    OBVIOUS
  <1>14. PICK n \in Int : n = now + L[i] \div Each(ids)
    BY <1>10, FirstEnds
  <1>15. FastPop(m) = [u EXCEPT !.share = Share(Cardinality(u.activities)), !.last = n]
    <2>1. FastPeek(m).time = n
      BY <1>14, FastPeekIs
    <2>2. a.finish - m.total = delta
      BY <1>3, <1>5, <1>11
    <2> QED BY <1>3, <1>4, <1>7, <1>13, <2>1, <2>2 DEF FastPop
  <1>16. Share(Cardinality(u.activities)) = Each(X)
    <2>1. u.activities = Fasts(X, item, G)
      BY <1>12, <1>13 DEF FastRecord
    <2>2. IsFiniteSet(X)
      BY <1>10, BooksWithout DEF Books
    <2> QED BY <2>1, <2>2, FastsCount DEF Each
  <1>17. FastPop(m) = FastOf(X, item, G, t, n, next)
    <2>1. PICK B, e, s1 : B = Fasts(X, item, G) /\ e = Each(ids) /\ s1 = Each(X)
      OBVIOUS
    <2>2. u = FastRecord(B, e, next, t, last)
      BY <1>12, <1>13, <2>1
    <2>3. FastPop(m) = FastSettled(u, s1, n)
      BY <1>15, <1>16, <2>1 DEF FastSettled
    <2>4. FastSettled(u, s1, n) = FastRecord(B, s1, next, t, n)
      BY ONLY <2>2, FastSettledIs
    <2> QED BY <2>1, <2>3, <2>4 DEF FastOf
  <1>18. Finishes(X, K, G, t, n, n)
    <2>1. \A j \in X : G[j] \in Int /\ G[j] = F[j] - F[i] + t
      BY <1>10, <1>11, <1>12
    <2>2. Finishes(ids, L, F, total, last, now) /\ t \in Int
      BY <1>1, <1>12
    <2> QED BY <1>14, <2>1, <2>2, FinishesEnded
  <1> QED BY <1>14, <1>17, <1>18 DEF FastIs

-----------------------------------------------------------------------------
(* SlowFairThroughputSharingModel                                          *)

Slows(ids, item, V) == {[id |-> i, item |-> item[i], left |-> V[i]] : i \in ids}

SlowRecord(entries, share, next, last) ==
    [entries |-> entries, share |-> share, nextId |-> next, last |-> last]

\* What was left of an activity when the model was last looked at.
WasLeft(ids, L, V, last, now) ==
    /\ last \in Int /\ now \in Int
    /\ \A i \in ids : V[i] \in Int /\ V[i] = L[i] + (now - last) * Each(ids)

SlowIs(m, ids, L, item, now, next) ==
    \E V, last : /\ WasLeft(ids, L, V, last, now)
                 /\ m = SlowRecord(Slows(ids, item, V), Each(ids), next, last)

LEMMA SlowsCount ==
    ASSUME NEW ids, NEW item, NEW V, IsFiniteSet(ids)
    PROVE  Cardinality(Slows(ids, item, V)) = Cardinality(ids)
  <1> DEFINE f == [i \in ids |-> [id |-> i, item |-> item[i], left |-> V[i]]]
  <1>1. /\ f \in [ids -> Slows(ids, item, V)] /\ \A i \in ids : f[i].id = i
        /\ \A w \in Slows(ids, item, V) : \E i \in ids : f[i] = w
    BY DEF Slows
  <1> HIDE DEF f
  <1> QED BY <1>1, CountByIds

\* A model that has what is left up to a total of 0 is a fast model too.
LEMMA WasLeftFinishes ==
    ASSUME NEW ids, NEW L, NEW next, Books(ids, L, next), NEW V, NEW last, NEW now,
           WasLeft(ids, L, V, last, now)
    PROVE  Finishes(ids, L, V, 0, last, now)
  <1>1. PICK s \in Nat : s = Each(ids)
    BY ShareTyped
  <1>2. /\ last \in Int /\ now \in Int
        /\ \A i \in ids : L[i] \in Int /\ V[i] \in Int /\ V[i] = L[i] + (now - last) * s
    BY <1>1 DEF WasLeft, Books
  <1>3. (now - last) * s \in Int
    BY <1>2
  <1>4. \A i \in ids : V[i] \in Int /\ V[i] = L[i] + 0 + (now - last) * s
    BY <1>2, <1>3
  <1> QED BY <1>1, <1>2, <1>4 DEF Finishes

LEMMA SlowsFirst ==
    ASSUME NEW ids, NEW L, NEW next, Books(ids, L, next), NEW i, IsFirst(ids, L, i), NEW item,
           NEW V, NEW last, NEW now, WasLeft(ids, L, V, last, now)
    PROVE  FirstBy(Slows(ids, item, V), VolumeLeft) = [id |-> i, item |-> item[i], left |-> V[i]]
  <1> DEFINE S == Slows(ids, item, V)
             a == [id |-> i, item |-> item[i], left |-> V[i]]
  <1>0. IsFirst(ids, V, i)
    BY WasLeftFinishes, FirstFinishes
  <1>1. a \in S
    BY DEF Slows, IsFirst
  <1>2. \A b \in S : b.id \in ids /\ b = [id |-> b.id, item |-> item[b.id], left |-> V[b.id]]
    BY DEF Slows
  <1>3. \A b \in S : b.left \in Int /\ b.id \in Nat
    BY <1>2 DEF Books, WasLeft
  <1>4. \A b \in S : b.id = a.id => b = a
    BY <1>2
  <1>5. \A b \in S : a.left < b.left \/ (a.left = b.left /\ a.id <= b.id)
    BY <1>0, <1>2 DEF IsFirst
  <1> HIDE DEF S, a
  <1>6. FirstBy(S, VolumeLeft) = a
    BY <1>1, <1>3, <1>4, <1>5, FirstLeft
  <1> QED BY <1>6 DEF S, a

LEMMA SlowPeekIs ==
    ASSUME NEW ids, NEW L, NEW next, Books(ids, L, next), NEW i, IsFirst(ids, L, i),
           NEW item, NEW now, NEW m, SlowIs(m, ids, L, item, now, next)
    PROVE  SlowPeek(m) = [item |-> item[i], time |-> now + L[i] \div Each(ids)]
  <1>1. PICK V, last : /\ WasLeft(ids, L, V, last, now)
                       /\ m = SlowRecord(Slows(ids, item, V), Each(ids), next, last)
    BY DEF SlowIs
  <1>2. m.entries = Slows(ids, item, V) /\ m.share = Each(ids) /\ m.last = last
    BY <1>1 DEF SlowRecord
  <1>3. PICK a : a = FirstBy(Slows(ids, item, V), VolumeLeft)
    OBVIOUS
  <1>4. a = [id |-> i, item |-> item[i], left |-> V[i]]
    BY <1>1, <1>3, SlowsFirst
  <1>5. SlowPeek(m) = [item |-> a.item, time |-> last + a.left \div Each(ids)]
    BY <1>2, <1>3 DEF SlowPeek
  <1>6. last + V[i] \div Each(ids) = now + L[i] \div Each(ids)
    <2>1. /\ V[i] \in Int /\ last + (V[i] - 0) \div Each(ids) = now + L[i] \div Each(ids)
      BY <1>1, WasLeftFinishes, FinishTime
    <2>2. V[i] - 0 = V[i]
      BY <2>1
    <2> QED BY <2>1, <2>2
  <1> QED BY <1>4, <1>5, <1>6

LEMMA SlowPassedIs ==
    ASSUME NEW ids, NEW L, NEW next, Books(ids, L, next),
           NEW item, NEW now, NEW m, SlowIs(m, ids, L, item, now, next),
           NEW t \in Int, NEW d, d = t * Each(ids)
    PROVE  SlowIs(m, ids, Passed(ids, L, d), item, now + t, next)
  <1>1. PICK V, last : /\ WasLeft(ids, L, V, last, now)
                       /\ m = SlowRecord(Slows(ids, item, V), Each(ids), next, last)
    BY DEF SlowIs
  <1>2. PICK K : K = Passed(ids, L, d)
    OBVIOUS
  <1>3. ASSUME NEW j \in ids
        PROVE  V[j] \in Int /\ V[j] = K[j] + ((now + t) - last) * Each(ids)
    <2>1. PICK s \in Nat : s = Each(ids)
      BY ShareTyped
    <2>2. PICK x \in Int : x = L[j]
      BY DEF Books
    <2>3. K[j] = x - d
      BY <1>2, <2>2 DEF Passed
    <2>4. /\ V[j] \in Int /\ V[j] = x + (now - last) * s
          /\ now \in Int /\ last \in Int
      BY <1>1, <2>1, <2>2 DEF WasLeft
    <2>5. (now + t - last) * s = (now - last) * s + d /\ (now - last) * s \in Int /\ d \in Int
      BY <2>1, <2>4, Distributes
    <2> QED BY <2>1, <2>2, <2>3, <2>4, <2>5
  <1>4. WasLeft(ids, K, V, last, now + t)
    BY <1>1, <1>3 DEF WasLeft
  <1> QED BY <1>1, <1>2, <1>4 DEF SlowIs

LEMMA RecalculateIs ==
    ASSUME NEW ids, NEW item, NEW V, NEW share, NEW next, NEW last,
           NEW m, m = SlowRecord(Slows(ids, item, V), share, next, last),
           NEW now, NEW w, w = (now - last) * share, NEW s
    PROVE  Recalculate(m, now, s) = SlowRecord(Slows(ids, item, Passed(ids, V, w)), s, next, now)
  <1> DEFINE after(e) == [e EXCEPT !.left = @ - w]
             old(i) == [id |-> i, item |-> item[i], left |-> V[i]]
             new(i) == [id |-> i, item |-> item[i], left |-> Passed(ids, V, w)[i]]
  <1>1. /\ m = [entries |-> Slows(ids, item, V), share |-> share, nextId |-> next, last |-> last]
        /\ m.last = last /\ m.share = share
    BY DEF SlowRecord
  <1>2. Recalculate(m, now, s) = [m EXCEPT !.entries = {after(e) : e \in @}, !.share = s, !.last = now]
    BY <1>1 DEF Recalculate
  <1>3. {after(e) : e \in Slows(ids, item, V)} = Slows(ids, item, Passed(ids, V, w))
    <2>1. \A i \in ids : after(old(i)) = new(i)
      BY DEF Passed
    <2>2. /\ Slows(ids, item, V) = {old(i) : i \in ids}
          /\ Slows(ids, item, Passed(ids, V, w)) = {new(i) : i \in ids}
      BY DEF Slows
    <2> HIDE DEF after, old, new
    <2>3. {after(e) : e \in {old(i) : i \in ids}} = {new(i) : i \in ids}
      BY <2>1
    <2> QED BY <2>2, <2>3
  <1>4. PICK E : E = {after(e) : e \in Slows(ids, item, V)}
    OBVIOUS
  <1>5. Recalculate(m, now, s) = [m EXCEPT !.entries = E, !.share = s, !.last = now]
    BY <1>1, <1>2, <1>4
  <1>6. PICK a, b : /\ a = [entries |-> E, share |-> share, nextId |-> next, last |-> last]
                    /\ b = [entries |-> E, share |-> s, nextId |-> next, last |-> last]
    OBVIOUS
  <1>7. PICK A : A = Slows(ids, item, V)
    OBVIOUS
  <1>8. m = [entries |-> A, share |-> share, nextId |-> next, last |-> last]
    BY <1>1, <1>7
  <1>9. [m EXCEPT !.entries = E] = a
    BY ONLY <1>6, <1>8
  <1>10. [a EXCEPT !.share = s] = b
    BY ONLY <1>6
  <1>11. [b EXCEPT !.last = now] = [entries |-> E, share |-> s, nextId |-> next, last |-> now]
    BY ONLY <1>6
  <1> HIDE DEF after
  <1> QED BY <1>3, <1>4, <1>5, <1>9, <1>10, <1>11 DEF SlowRecord

SlowAdded(u, item, volume) ==
    [u EXCEPT !.entries = @ \cup {[id |-> u.nextId, item |-> item, left |-> volume]},
              !.nextId = @ + 1]

LEMMA SlowInsertIs ==
    ASSUME NEW ids, NEW L, NEW next, Books(ids, L, next),
           NEW item, NEW now, NEW m, SlowIs(m, ids, L, item, now, next),
           NEW c, NEW v \in Nat, NEW X, X = ids \cup {next},
           Books(X, Started(ids, L, next, v), next + 1)
    PROVE  SlowIs(SlowInsert(m, c, v, now), X, Started(ids, L, next, v),
                  Started(ids, item, next, c), now, next + 1)
  <1>1. PICK V, last : /\ WasLeft(ids, L, V, last, now)
                       /\ m = SlowRecord(Slows(ids, item, V), Each(ids), next, last)
    BY DEF SlowIs
  <1>2. PICK s \in Nat : s = Each(ids)
    BY ShareTyped
  <1>3. /\ last \in Int /\ now \in Int
        /\ \A i \in ids : L[i] \in Int /\ V[i] \in Int /\ V[i] = L[i] + (now - last) * s
    BY <1>1, <1>2 DEF WasLeft, Books
  <1>4. PICK w \in Int : w = (now - last) * s
    BY <1>3
  <1>5. PICK e : e = Each(X)
    OBVIOUS
  <1>6. Share(Cardinality(m.entries) + 1) = e
    <2>1. m.entries = Slows(ids, item, V) /\ IsFiniteSet(ids) /\ next \notin ids
      BY <1>1 DEF SlowRecord, Books
    <2>2. Cardinality(m.entries) = Cardinality(ids)
      BY <2>1, SlowsCount
    <2>3. Cardinality(X) = Cardinality(ids) + 1
      BY <2>1, FS_AddElement
    <2> QED BY <1>5, <2>2, <2>3 DEF Each
  <1>7. PICK U : U = Passed(ids, V, w)
    OBVIOUS
  <1>8. PICK u : u = Recalculate(m, now, e)
    OBVIOUS
  <1>9. u = SlowRecord(Slows(ids, item, U), e, next, now)
    <2>1. m = SlowRecord(Slows(ids, item, V), s, next, last)
      BY <1>1, <1>2
    <2> QED BY <1>4, <1>7, <1>8, <2>1, RecalculateIs
  <1>10. \A i \in ids : U[i] = L[i]
    BY <1>3, <1>4, <1>7 DEF Passed
  <1>11. SlowInsert(m, c, v, now) = SlowAdded(u, c, v)
    BY <1>6, <1>8 DEF SlowInsert, SlowAdded
  <1>12. PICK K, N : K = Started(ids, L, next, v) /\ N = Started(ids, item, next, c)
    OBVIOUS
  <1>13. /\ K[next] = v /\ N[next] = c
         /\ \A i \in ids : i # next /\ K[i] = L[i] /\ N[i] = item[i]
    BY <1>12 DEF Started, Books
  <1>14. Slows(ids, item, U) \cup {[id |-> next, item |-> c, left |-> v]} = Slows(X, N, K)
    BY <1>10, <1>13 DEF Slows
  <1>15. SlowAdded(u, c, v) = SlowRecord(Slows(X, N, K), e, next + 1, now)
    <2>1. PICK A, B : A = Slows(ids, item, U) /\ B = Slows(X, N, K)
      OBVIOUS
    <2>2. u = [entries |-> A, share |-> e, nextId |-> next, last |-> now]
      BY <1>9, <2>1 DEF SlowRecord
    <2>3. PICK b : b = [entries |-> B, share |-> e, nextId |-> next, last |-> now]
      OBVIOUS
    <2>4. [u EXCEPT !.entries = B] = b
      BY ONLY <2>2, <2>3
    <2>5. [b EXCEPT !.nextId = next + 1] = [entries |-> B, share |-> e, nextId |-> next + 1, last |-> now]
      BY ONLY <2>3
    <2>6. u.nextId = next /\ u.entries = A
      BY <2>2
    <2>7. SlowAdded(u, c, v) = [u EXCEPT !.entries = B, !.nextId = next + 1]
      BY <1>14, <2>1, <2>2, <2>6 DEF SlowAdded
    <2> QED BY <2>1, <2>4, <2>5, <2>7 DEF SlowRecord
  <1>16. WasLeft(X, K, K, now, now)
    <2>1. (now - now) * Each(X) = 0
      <3>1. PICK f \in Nat : f = Each(X)
        BY ShareTyped
      <3>2. (now - now) * f = 0
        BY <1>3
      <3> QED BY <3>1, <3>2
    <2>2. \A i \in X : K[i] \in Int
      BY <1>3, <1>13
    <2> QED BY <1>3, <2>1, <2>2 DEF WasLeft
  <1> QED BY <1>5, <1>11, <1>12, <1>15, <1>16 DEF SlowIs

LEMMA SlowPopIs ==
    ASSUME NEW ids, NEW L, NEW next, Books(ids, L, next), NEW i, IsFirst(ids, L, i),
           NEW item, NEW now, NEW m, SlowIs(m, ids, L, item, now, next),
           NEW X, X = ids \ {i}, NEW K, K = Passed(ids, L, L[i])
    PROVE  SlowIs(SlowPop(m), X, K, item, now + L[i] \div Each(ids), next)
  <1>1. PICK V, last : /\ WasLeft(ids, L, V, last, now)
                       /\ m = SlowRecord(Slows(ids, item, V), Each(ids), next, last)
    BY DEF SlowIs
  <1>2. PICK A : A = Slows(ids, item, V)
    OBVIOUS
  <1>3. PICK s \in Nat \ {0} : s = Each(ids)
    BY ShareTyped DEF IsFirst
  <1>4. m = [entries |-> A, share |-> s, nextId |-> next, last |-> last] /\ m.entries = A
    BY <1>1, <1>2, <1>3 DEF SlowRecord
  <1>5. PICK a : a = FirstBy(A, VolumeLeft)
    OBVIOUS
  <1>6. a = [id |-> i, item |-> item[i], left |-> V[i]]
    BY <1>1, <1>2, <1>5, SlowsFirst
  <1>7. A \ {a} = Slows(X, item, V)
    BY <1>2, <1>6 DEF Slows
  <1>8. PICK r : r = [m EXCEPT !.entries = @ \ {a}]
    OBVIOUS
  <1>9. r = SlowRecord(Slows(X, item, V), s, next, last) /\ r.entries = Slows(X, item, V)
    BY <1>4, <1>7, <1>8 DEF SlowRecord
  <1>10. /\ last \in Int /\ now \in Int /\ i \in ids /\ L[i] \in Int
         /\ \A j \in ids : V[j] \in Int /\ L[j] \in Int /\ V[j] = L[j] + (now - last) * s
    BY <1>1, <1>3 DEF WasLeft, Books, IsFirst
  <1>11. PICK q \in Nat : q = L[i] \div Each(ids) /\ q * s = L[i]
    BY <1>3, FirstEnds
  <1>12. PICK n \in Int : n = now + q
    BY <1>10
  <1>13. PICK w : w = (n - last) * s
    OBVIOUS
  <1>14. w \in Int /\ w = (now - last) * s + L[i]
    <2>1. (now + q - last) * s = (now - last) * s + q * s /\ (now - last) * s \in Int
      BY <1>10, Distributes
    <2> QED BY <1>10, <1>11, <1>12, <1>13, <2>1
  <1>15. Books(X, K, next) /\ IsFiniteSet(X)
    <2>1. Books(X, K, next)
      BY BooksEnded
    <2> QED BY <2>1 DEF Books
  <1>16. PICK e \in Nat : e = Each(X)
    BY <1>15, ShareTyped
  <1>17. SlowPop(m) = Recalculate(r, n, e)
    <2>1. SlowPeek(m).time = n
      BY <1>11, <1>12, SlowPeekIs
    <2>2. Share(Cardinality(r.entries)) = e
      BY <1>9, <1>15, <1>16, SlowsCount DEF Each
    <2> QED BY <1>4, <1>5, <1>8, <2>1, <2>2 DEF SlowPop
  <1>18. PICK U : U = Passed(X, V, w)
    OBVIOUS
  <1>19. SlowPop(m) = SlowRecord(Slows(X, item, U), e, next, n)
    BY <1>9, <1>13, <1>17, <1>18, RecalculateIs
  <1>20. WasLeft(X, K, U, n, n)
    <2>1. (n - n) * e = 0
      OBVIOUS
    <2>2. ASSUME NEW j \in X
          PROVE  U[j] \in Int /\ K[j] \in Int /\ U[j] = K[j]
      <3>1. U[j] = V[j] - w /\ K[j] = L[j] - L[i] /\ j \in ids
        BY <1>18 DEF Passed
      <3>2. PICK y \in Int : y = (now - last) * s
        BY <1>10
      <3>3. V[j] = L[j] + y /\ w = y + L[i] /\ L[j] \in Int /\ L[i] \in Int
        BY <1>10, <1>14, <3>1, <3>2
      <3> QED BY <3>1, <3>2, <3>3
    <2> QED BY <1>16, <2>1, <2>2 DEF WasLeft
  <1> QED BY <1>11, <1>12, <1>16, <1>19, <1>20 DEF SlowIs

-----------------------------------------------------------------------------
(* FairThroughputSharingModelWithCancel: Q, the ids in the queue, are more *)
(* than those that run.                                                    *)

Queued(Q, F) == {[id |-> q, finish |-> F[q]] : q \in Q}

Runs(ids, item, R) == {[id |-> i, item |-> item[i], start |-> R[i]] : i \in ids}

CancelRecord(queue, running, share, next, total, last) ==
    [queue |-> queue, running |-> running, share |-> share, nextId |-> next,
     total |-> total, last |-> last]

CancelOf(Q, F, ids, R, item, share, next, total, last) ==
    CancelRecord(Queued(Q, F), Runs(ids, item, R), share, next, total, last)

Entries(Q, F, ids, R, next) ==
    /\ ids \subseteq Q /\ \A q \in Q : q \in Nat /\ q < next /\ F[q] \in Int
    /\ \A i \in ids : R[i] \in Int

CancelIs(m, ids, L, item, now, next) ==
    \E Q, F, R, total, last :
      /\ Entries(Q, F, ids, R, next) /\ Finishes(ids, L, F, total, last, now)
      /\ m = CancelOf(Q, F, ids, R, item, Each(ids), next, total, last)

LEMMA RunsCount ==
    ASSUME NEW ids, NEW item, NEW R, IsFiniteSet(ids)
    PROVE  Cardinality(Runs(ids, item, R)) = Cardinality(ids)
  <1> DEFINE f == [i \in ids |-> [id |-> i, item |-> item[i], start |-> R[i]]]
  <1>1. /\ f \in [ids -> Runs(ids, item, R)] /\ \A i \in ids : f[i].id = i
        /\ \A w \in Runs(ids, item, R) : \E i \in ids : f[i] = w
    BY DEF Runs
  <1> HIDE DEF f
  <1> QED BY <1>1, CountByIds

LEMMA LiveIs ==
    ASSUME NEW Q, NEW F, NEW ids \in SUBSET Q, NEW R, NEW item, NEW share, NEW next,
           NEW total, NEW last, NEW m, m = CancelOf(Q, F, ids, R, item, share, next, total, last)
    PROVE  Live(m) = Queued(ids, F)
  <1>1. m.queue = Queued(Q, F) /\ m.running = Runs(ids, item, R)
    BY DEF CancelOf, CancelRecord
  <1>2. \A i : (\E a \in Runs(ids, item, R) : a.id = i) <=> i \in ids
    <2>1. \A a \in Runs(ids, item, R) : a.id \in ids
      BY DEF Runs
    <2>2. ASSUME NEW i \in ids PROVE \E a \in Runs(ids, item, R) : a.id = i
      <3>1. PICK a : a = [id |-> i, item |-> item[i], start |-> R[i]]
        OBVIOUS
      <3>2. a \in Runs(ids, item, R) /\ a.id = i
        BY <3>1 DEF Runs
      <3> QED BY <3>2
    <2> QED BY <2>1, <2>2
  <1>3. Live(m) = {e \in Queued(Q, F) : e.id \in ids}
    BY <1>1, <1>2 DEF Live
  <1>4. {e \in Queued(Q, F) : e.id \in ids} = Queued(ids, F)
    BY DEF Queued
  <1> QED BY <1>3, <1>4

LEMMA RunningAsIs ==
    ASSUME NEW Q, NEW F, NEW ids, NEW R, NEW item, NEW share, NEW next,
           NEW total, NEW last, NEW m, m = CancelOf(Q, F, ids, R, item, share, next, total, last),
           NEW i \in ids, NEW e, e.id = i
    PROVE  RunningAs(m, e) = [id |-> i, item |-> item[i], start |-> R[i]]
  <1>1. m.running = Runs(ids, item, R)
    BY DEF CancelOf, CancelRecord
  <1> DEFINE a == [id |-> i, item |-> item[i], start |-> R[i]]
  <1>2. a \in Runs(ids, item, R) /\ a.id = i /\ \A b \in Runs(ids, item, R) : b.id = i => b = a
    BY DEF Runs
  <1> HIDE DEF a
  <1>3. (CHOOSE b \in Runs(ids, item, R) : b.id = i) = a
    BY <1>2
  <1> QED BY <1>1, <1>3 DEF RunningAs, a

LEMMA QueuedFirst ==
    ASSUME NEW Q, NEW F, \A q \in Q : q \in Nat /\ F[q] \in Int, NEW i, IsFirst(Q, F, i)
    PROVE  FirstBy(Queued(Q, F), FinishWork) = [id |-> i, finish |-> F[i]]
  <1> DEFINE S == Queued(Q, F)
             a == [id |-> i, finish |-> F[i]]
  <1>1. a \in S
    BY DEF Queued, IsFirst
  <1>2. \A b \in S : b.id \in Q /\ b = [id |-> b.id, finish |-> F[b.id]]
    BY DEF Queued
  <1>3. \A b \in S : b.finish \in Int /\ b.id \in Nat
    BY <1>2
  <1>4. \A b \in S : b.id = a.id => b = a
    BY <1>2
  <1>5. \A b \in S : a.finish < b.finish \/ (a.finish = b.finish /\ a.id <= b.id)
    BY <1>2 DEF IsFirst
  <1> HIDE DEF S, a
  <1>6. FirstBy(S, FinishWork) = a
    BY <1>1, <1>3, <1>4, <1>5, FirstFinish
  <1> QED BY <1>6 DEF S, a

\* The total is now work, or has started again from 0.
Moved(Q, F, ids, item, share, next, work, last, u) ==
    \E G, P, t : /\ t \in Int
                 /\ \A q \in Q : G[q] \in Int /\ G[q] = F[q] - work + t
                 /\ work <= TotalWorkMax => t = work
                 /\ Entries(Q, G, ids, P, next)
                 /\ u = CancelOf(Q, G, ids, P, item, share, next, t, last)

LEMMA CancelIncrement ==
    ASSUME NEW Q, NEW F, NEW ids, NEW R, NEW item, NEW share, NEW next, NEW total \in Int, NEW last,
           Entries(Q, F, ids, R, next), NEW delta \in Int,
           NEW m, m = CancelOf(Q, F, ids, R, item, share, next, total, last),
           NEW w, w = total + delta
    PROVE  Moved(Q, F, ids, item, share, next, w, last, IncrementCancelable(m, delta))
  <1>1. w \in Int
    OBVIOUS
  <1>2. PICK A, B : A = Queued(Q, F) /\ B = Runs(ids, item, R)
    OBVIOUS
  <1>3. /\ m = [queue |-> A, running |-> B, share |-> share, nextId |-> next,
                total |-> total, last |-> last]
        /\ m.total = total /\ m.queue = A /\ m.running = B
    BY <1>2 DEF CancelOf, CancelRecord
  <1>4. \A q \in Q : F[q] \in Int /\ F[q] - w \in Int
    BY DEF Entries
  <1>5. CASE w <= TotalWorkMax
    <2>1. IncrementCancelable(m, delta) = [m EXCEPT !.total = w]
      BY <1>1, <1>3, <1>5 DEF IncrementCancelable
    <2>2. [m EXCEPT !.total = w]
            = [queue |-> A, running |-> B, share |-> share, nextId |-> next, total |-> w, last |-> last]
      BY ONLY <1>3
    <2>3. IncrementCancelable(m, delta) = CancelOf(Q, F, ids, R, item, share, next, w, last)
      BY <1>2, <2>1, <2>2 DEF CancelOf, CancelRecord
    <2>4. \A q \in Q : F[q] \in Int /\ F[q] = F[q] - w + w
      BY <1>1, <1>4
    <2> QED BY <1>1, <2>3, <2>4 DEF Moved
  <1>6. CASE ~ (w <= TotalWorkMax)
    <2>1. PICK G, P : G = [q \in Q |-> F[q] - w] /\ P = [i \in ids |-> R[i] - w]
      OBVIOUS
    <2> DEFINE moved(e) == [e EXCEPT !.finish = @ - w]
               begun(a) == [a EXCEPT !.start = @ - w]
               oldq(q) == [id |-> q, finish |-> F[q]]
               newq(q) == [id |-> q, finish |-> G[q]]
               oldr(i) == [id |-> i, item |-> item[i], start |-> R[i]]
               newr(i) == [id |-> i, item |-> item[i], start |-> P[i]]
    <2>2. \A q \in Q : moved(oldq(q)) = newq(q)
      BY <2>1
    <2>3. \A i \in ids : begun(oldr(i)) = newr(i)
      BY <2>1
    <2>4. /\ A = {oldq(q) : q \in Q} /\ Queued(Q, G) = {newq(q) : q \in Q}
          /\ B = {oldr(i) : i \in ids} /\ Runs(ids, item, P) = {newr(i) : i \in ids}
      BY <1>2 DEF Queued, Runs
    <2>5. IncrementCancelable(m, delta)
            = [m EXCEPT !.queue = {moved(e) : e \in @}, !.running = {begun(a) : a \in @}, !.total = 0]
      BY <1>1, <1>3, <1>6 DEF IncrementCancelable
    <2>6. PICK C, D : C = {moved(e) : e \in A} /\ D = {begun(a) : a \in B}
      OBVIOUS
    <2>7. IncrementCancelable(m, delta) = [m EXCEPT !.queue = C, !.running = D, !.total = 0]
      BY <1>3, <2>5, <2>6
    <2> HIDE DEF moved, begun, oldq, newq, oldr, newr
    <2>8. C = Queued(Q, G) /\ D = Runs(ids, item, P)
      BY <2>2, <2>3, <2>4, <2>6
    <2>9. PICK a, b : /\ a = [queue |-> C, running |-> B, share |-> share, nextId |-> next,
                              total |-> total, last |-> last]
                      /\ b = [queue |-> C, running |-> D, share |-> share, nextId |-> next,
                              total |-> total, last |-> last]
      OBVIOUS
    <2>10. [m EXCEPT !.queue = C] = a
      BY ONLY <1>3, <2>9
    <2>11. [a EXCEPT !.running = D] = b
      BY ONLY <2>9
    <2>12. [b EXCEPT !.total = 0]
             = [queue |-> C, running |-> D, share |-> share, nextId |-> next, total |-> 0, last |-> last]
      BY ONLY <2>9
    <2>13. IncrementCancelable(m, delta) = CancelOf(Q, G, ids, P, item, share, next, 0, last)
      BY <2>7, <2>8, <2>10, <2>11, <2>12 DEF CancelOf, CancelRecord
    <2>14. \A q \in Q : G[q] \in Int /\ G[q] = F[q] - w + 0
      BY <1>1, <1>4, <2>1
    <2>15. \A i \in ids : P[i] \in Int
      BY <2>1 DEF Entries
    <2>16. Entries(Q, G, ids, P, next)
      BY <2>14, <2>15 DEF Entries
    <2> QED BY <1>1, <1>6, <2>13, <2>14, <2>16 DEF Moved
  <1> QED BY <1>5, <1>6

LEMMA CountWorkIs ==
    ASSUME NEW Q, NEW F, NEW ids, NEW R, NEW item, NEW share \in Nat, NEW next,
           NEW total \in Int, NEW last \in Int, NEW now \in Int,
           Entries(Q, F, ids, R, next),
           NEW w, w = total + (now - last) * share,
           NEW m, m = CancelOf(Q, F, ids, R, item, share, next, total, last)
    PROVE  \/ Q = {} /\ CountWork(m, now) = m
           \/ Q # {} /\ Moved(Q, F, ids, item, share, next, w, last, CountWork(m, now))
  <1>1. m.queue = Queued(Q, F) /\ m.last = last /\ m.share = share
    BY DEF CancelOf, CancelRecord
  <1>2. PICK delta \in Int : delta = (now - last) * share
    OBVIOUS
  <1>3. CASE Q = {}
    <2>1. m.queue = {}
      BY <1>1, <1>3 DEF Queued
    <2> QED BY <1>3, <2>1 DEF CountWork
  <1>4. CASE Q # {}
    <2>1. m.queue # {}
      BY <1>1, <1>4 DEF Queued
    <2>2. CountWork(m, now) = IncrementCancelable(m, delta)
      BY <1>1, <1>2, <2>1 DEF CountWork
    <2>3. Moved(Q, F, ids, item, share, next, w, last, IncrementCancelable(m, delta))
      BY <1>2, CancelIncrement
    <2> QED BY <1>4, <2>2, <2>3
  <1> QED BY <1>3, <1>4

\* CancelableInsert, but for the work that is counted before.
CancelAdded(u, item, volume, now) ==
    RecalculateThroughput(
      [u EXCEPT !.queue = @ \cup {[id |-> u.nextId, finish |-> u.total + volume]},
                !.running = @ \cup {[id |-> u.nextId, item |-> item, start |-> u.total]},
                !.nextId = @ + 1, !.last = now])

LEMMA CancelAddedIs ==
    ASSUME NEW A, NEW B, NEW share, NEW next, NEW t, NEW last, NEW item, NEW v, NEW now,
           NEW u, u = CancelRecord(A, B, share, next, t, last),
           NEW C, C = A \cup {[id |-> next, finish |-> t + v]},
           NEW D, D = B \cup {[id |-> next, item |-> item, start |-> t]}
    PROVE  CancelAdded(u, item, v, now)
             = CancelRecord(C, D, Share(Cardinality(D)), next + 1, t, now)
  <1>1. u = [queue |-> A, running |-> B, share |-> share, nextId |-> next, total |-> t, last |-> last]
    BY DEF CancelRecord
  <1>2. PICK a, b, c, d :
          /\ a = [queue |-> C, running |-> B, share |-> share, nextId |-> next,
                  total |-> t, last |-> last]
          /\ b = [queue |-> C, running |-> D, share |-> share, nextId |-> next,
                  total |-> t, last |-> last]
          /\ c = [queue |-> C, running |-> D, share |-> share, nextId |-> next + 1,
                  total |-> t, last |-> last]
          /\ d = [queue |-> C, running |-> D, share |-> share, nextId |-> next + 1,
                  total |-> t, last |-> now]
    OBVIOUS
  <1>3. [u EXCEPT !.queue = C] = a
    BY ONLY <1>1, <1>2
  <1>4. [a EXCEPT !.running = D] = b
    BY ONLY <1>2
  <1>5. [b EXCEPT !.nextId = next + 1] = c
    BY ONLY <1>2
  <1>6. [c EXCEPT !.last = now] = d
    BY ONLY <1>2
  <1>7. CancelAdded(u, item, v, now)
          = RecalculateThroughput([u EXCEPT !.queue = C, !.running = D, !.nextId = next + 1, !.last = now])
    BY <1>1 DEF CancelAdded
  <1>8. CancelAdded(u, item, v, now) = RecalculateThroughput(d)
    BY <1>3, <1>4, <1>5, <1>6, <1>7
  <1>9. PICK s : s = Share(Cardinality(D))
    OBVIOUS
  <1>10. RecalculateThroughput(d) = [d EXCEPT !.share = s]
    BY <1>2, <1>9 DEF RecalculateThroughput
  <1>11. [d EXCEPT !.share = s] = [queue |-> C, running |-> D, share |-> s, nextId |-> next + 1,
                                   total |-> t, last |-> now]
    BY ONLY <1>2
  <1> QED BY <1>8, <1>9, <1>10, <1>11 DEF CancelRecord

LEMMA CancelableInsertIs ==
    ASSUME NEW ids, NEW L, NEW next, Books(ids, L, next),
           NEW item, NEW now, NEW m, CancelIs(m, ids, L, item, now, next),
           NEW c, NEW v \in Nat, NEW X, X = ids \cup {next},
           Books(X, Started(ids, L, next, v), next + 1)
    PROVE  CancelIs(CancelableInsert(m, c, v, now), X, Started(ids, L, next, v),
                    Started(ids, item, next, c), now, next + 1)
  <1>1. PICK Q, F, R, total, last :
          /\ Entries(Q, F, ids, R, next) /\ Finishes(ids, L, F, total, last, now)
          /\ m = CancelOf(Q, F, ids, R, item, Each(ids), next, total, last)
    BY DEF CancelIs
  <1>2. PICK s \in Nat : s = Each(ids)
    BY ShareTyped
  <1>3. /\ total \in Int /\ last \in Int /\ now \in Int /\ next \in Nat
        /\ \A i \in ids : L[i] \in Int /\ F[i] \in Int /\ F[i] = L[i] + total + (now - last) * s
    BY <1>1, <1>2 DEF Finishes, Books
  <1>4. PICK delta \in Int : delta = (now - last) * s
    BY <1>3
  <1>5. PICK u : u = CountWork(m, now)
    OBVIOUS
  <1>6. PICK G, P, t : /\ t \in Int
                       /\ \A q \in Q : G[q] \in Int /\ G[q] = F[q] - (total + delta) + t
                       /\ Entries(Q, G, ids, P, next)
                       /\ u = CancelOf(Q, G, ids, P, item, s, next, t, last)
    <2>1. PICK w : w = total + (now - last) * s
      OBVIOUS
    <2>2. m = CancelOf(Q, F, ids, R, item, s, next, total, last)
      BY <1>1, <1>2
    <2>3. \/ Q = {} /\ u = m
          \/ Q # {} /\ Moved(Q, F, ids, item, s, next, w, last, u)
      BY <1>1, <1>3, <1>5, <2>1, <2>2, CountWorkIs
    <2>4. CASE Q = {} /\ u = m
      BY <1>1, <1>3, <2>2, <2>4
    <2>5. CASE Moved(Q, F, ids, item, s, next, w, last, u)
      <3>1. w = total + delta
        BY <1>4, <2>1
      <3> QED BY <2>5, <3>1 DEF Moved
    <2> QED BY <2>3, <2>4, <2>5
  <1>7. \A i \in ids : i \in Q /\ G[i] = L[i] + t
    BY <1>1, <1>3, <1>4, <1>6 DEF Entries
  <1>8. PICK K, N, H, T, Y :
          /\ K = Started(ids, L, next, v) /\ N = Started(ids, item, next, c)
          /\ H = Started(Q, G, next, t + v) /\ T = Started(ids, P, next, t)
          /\ Y = Q \cup {next}
    OBVIOUS
  <1>9. /\ K[next] = v /\ N[next] = c /\ H[next] = t + v /\ T[next] = t
        /\ \A q \in Q : q # next /\ H[q] = G[q]
        /\ \A i \in ids : i # next /\ K[i] = L[i] /\ N[i] = item[i] /\ T[i] = P[i]
    BY <1>1, <1>8 DEF Started, Books, Entries
  <1>10. Queued(Q, G) \cup {[id |-> next, finish |-> t + v]} = Queued(Y, H)
    BY <1>8, <1>9 DEF Queued
  <1>11. Runs(ids, item, P) \cup {[id |-> next, item |-> c, start |-> t]} = Runs(X, N, T)
    BY <1>9 DEF Runs
  <1>12. Cardinality(Runs(X, N, T)) = Cardinality(X)
    BY RunsCount DEF Books
  <1>13. CancelableInsert(m, c, v, now) = CancelAdded(u, c, v, now)
    BY <1>5 DEF CancelableInsert, CancelAdded
  <1>14. CancelAdded(u, c, v, now) = CancelOf(Y, H, X, T, N, Each(X), next + 1, t, now)
    <2>1. PICK A, B : A = Queued(Q, G) /\ B = Runs(ids, item, P)
      OBVIOUS
    <2>2. PICK C, D : /\ C = A \cup {[id |-> next, finish |-> t + v]}
                      /\ D = B \cup {[id |-> next, item |-> c, start |-> t]}
      OBVIOUS
    <2>3. u = CancelRecord(A, B, s, next, t, last)
      BY <1>6, <2>1 DEF CancelOf
    <2>4. CancelAdded(u, c, v, now) = CancelRecord(C, D, Share(Cardinality(D)), next + 1, t, now)
      BY <2>2, <2>3, CancelAddedIs
    <2> QED BY <1>10, <1>11, <1>12, <2>1, <2>2, <2>4 DEF CancelOf, Each
  <1>15. Entries(Y, H, X, T, next + 1)
    <2>1. X \subseteq Y
      BY <1>1, <1>8 DEF Entries
    <2>2. \A q \in Y : q \in Nat /\ q < next + 1 /\ H[q] \in Int
      BY <1>1, <1>3, <1>6, <1>8, <1>9 DEF Entries
    <2>3. \A i \in X : T[i] \in Int
      BY <1>6, <1>9 DEF Entries
    <2> QED BY <2>1, <2>2, <2>3 DEF Entries
  <1>16. Finishes(X, K, H, t, now, now)
    <2>1. (now - now) * Each(X) = 0
      <3>1. PICK e \in Nat : e = Each(X)
        BY ShareTyped
      <3>2. (now - now) * e = 0
        BY <1>3
      <3> QED BY <3>1, <3>2
    <2>2. \A i \in X : H[i] \in Int /\ K[i] \in Int /\ H[i] = K[i] + t
      BY <1>3, <1>6, <1>7, <1>9
    <2> QED BY <1>3, <1>6, <2>1, <2>2 DEF Finishes
  <1> QED BY <1>8, <1>13, <1>14, <1>15, <1>16 DEF CancelIs

LEMMA CancelPassedIs ==
    ASSUME NEW ids, NEW L, NEW next, Books(ids, L, next),
           NEW item, NEW now, NEW m, CancelIs(m, ids, L, item, now, next),
           NEW t \in Int, NEW d, d = t * Each(ids)
    PROVE  CancelIs(m, ids, Passed(ids, L, d), item, now + t, next)
  <1>1. PICK Q, F, R, total, last :
          /\ Entries(Q, F, ids, R, next) /\ Finishes(ids, L, F, total, last, now)
          /\ m = CancelOf(Q, F, ids, R, item, Each(ids), next, total, last)
    BY DEF CancelIs
  <1>2. Finishes(ids, Passed(ids, L, d), F, total, last, now + t)
    BY <1>1, FinishesPassed
  <1> QED BY <1>1, <1>2 DEF CancelIs

LEMMA CancelablePeekIs ==
    ASSUME NEW ids, NEW L, NEW next, Books(ids, L, next), NEW i, IsFirst(ids, L, i),
           NEW item, NEW now, NEW m, CancelIs(m, ids, L, item, now, next)
    PROVE  CancelablePeek(m) = [item |-> item[i], time |-> now + L[i] \div Each(ids)]
  <1>1. PICK Q, F, R, total, last :
          /\ Entries(Q, F, ids, R, next) /\ Finishes(ids, L, F, total, last, now)
          /\ m = CancelOf(Q, F, ids, R, item, Each(ids), next, total, last)
    BY DEF CancelIs
  <1>2. PICK e : e = FirstBy(Live(m), FinishWork)
    OBVIOUS
  <1>3. e = [id |-> i, finish |-> F[i]]
    <2>1. Live(m) = Queued(ids, F)
      BY <1>1, LiveIs DEF Entries
    <2>2. IsFirst(ids, F, i)
      BY <1>1, FirstFinishes
    <2>3. \A q \in ids : q \in Nat /\ F[q] \in Int
      BY <1>1 DEF Books, Finishes
    <2> QED BY <1>2, <2>1, <2>2, <2>3, QueuedFirst
  <1>4. RunningAs(m, e) = [id |-> i, item |-> item[i], start |-> R[i]]
    <2>1. i \in ids /\ e.id = i
      BY <1>3 DEF IsFirst
    <2>2. PICK s : s = Each(ids)
      OBVIOUS
    <2>3. m = CancelOf(Q, F, ids, R, item, s, next, total, last)
      BY <1>1, <2>2
    <2> QED BY <2>1, <2>3, RunningAsIs
  <1>5. m.last = last /\ m.total = total /\ m.share = Each(ids)
    BY <1>1 DEF CancelOf, CancelRecord
  <1>6. last + (F[i] - total) \div Each(ids) = now + L[i] \div Each(ids)
    BY <1>1, FinishTime
  <1>7. CancelablePeek(m) = [item |-> RunningAs(m, e).item,
                             time |-> last + (e.finish - total) \div Each(ids)]
    BY <1>2, <1>5 DEF CancelablePeek
  <1>8. e.finish = F[i] /\ RunningAs(m, e).item = item[i]
    BY <1>3, <1>4
  <1> QED BY <1>6, <1>7, <1>8

\* What is dropped was before the first that runs, which is then the first.
LEMMA DropCancelledIs ==
    ASSUME NEW Q, NEW F, NEW ids, NEW R, NEW item, NEW share, NEW next, NEW total, NEW last,
           Entries(Q, F, ids, R, next), NEW i, IsFirst(ids, F, i),
           NEW m, m = CancelOf(Q, F, ids, R, item, share, next, total, last)
    PROVE  \E Y \in SUBSET Q :
             /\ ids \subseteq Y /\ IsFirst(Y, F, i)
             /\ DropCancelled(m) = CancelOf(Y, F, ids, R, item, share, next, total, last)
  <1> DEFINE entry(q) == [id |-> q, finish |-> F[q]]
             first == entry(i)
             Y == {q \in Q : q \in ids \/ FirstBy({entry(q), first}, FinishWork) = first}
  <1>1. i \in ids /\ \A q \in Q : q \in Nat /\ F[q] \in Int
    BY DEF IsFirst, Entries
  <1>2. Live(m) = Queued(ids, F)
    BY LiveIs DEF Entries
  <1>3. Live(m) # {}
    BY <1>1, <1>2 DEF Queued
  <1>4. FirstBy(Live(m), FinishWork) = first
    BY <1>1, <1>2, QueuedFirst DEF Entries
  <1>5. m.queue = Queued(Q, F)
    BY DEF CancelOf, CancelRecord
  <1>6. DropCancelled(m)
          = [m EXCEPT !.queue = {e \in @ : e \in Queued(ids, F)
                                           \/ FirstBy({e, first}, FinishWork) = first}]
    BY <1>2, <1>3, <1>4 DEF DropCancelled
  <1>7. {e \in Queued(Q, F) : e \in Queued(ids, F) \/ FirstBy({e, first}, FinishWork) = first}
          = Queued(Y, F)
    <2>1. Queued(Q, F) = {entry(q) : q \in Q} /\ Queued(Y, F) = {entry(q) : q \in Y}
      BY DEF Queued
    <2>2. \A q \in Q : entry(q) \in Queued(ids, F) <=> q \in ids
      <3>1. \A q, r : entry(q) = entry(r) => q = r
        <4>1. \A q : entry(q).id = q
          OBVIOUS
        <4> HIDE DEF entry
        <4> QED BY <4>1
      <3>2. Queued(ids, F) = {entry(q) : q \in ids}
        BY DEF Queued
      <3> HIDE DEF entry
      <3> QED BY <3>1, <3>2
    <2>3. \A q \in Q : q \in Y <=> (entry(q) \in Queued(ids, F)
                                    \/ FirstBy({entry(q), first}, FinishWork) = first)
      BY <2>2
    <2> HIDE DEF entry, first, Y
    <2>4. Y \subseteq Q
      BY DEF Y
    <2> QED BY <2>1, <2>3, <2>4
  <1>8. PICK Z : Z = Queued(Y, F)
    OBVIOUS
  <1>9. DropCancelled(m) = [m EXCEPT !.queue = Z]
    BY <1>5, <1>6, <1>7, <1>8
  <1>10. DropCancelled(m) = CancelOf(Y, F, ids, R, item, share, next, total, last)
    <2>1. PICK A, B : A = Queued(Q, F) /\ B = Runs(ids, item, R)
      OBVIOUS
    <2>2. m = [queue |-> A, running |-> B, share |-> share, nextId |-> next,
               total |-> total, last |-> last]
      BY <2>1 DEF CancelOf, CancelRecord
    <2>3. [m EXCEPT !.queue = Z] = [queue |-> Z, running |-> B, share |-> share, nextId |-> next,
                                    total |-> total, last |-> last]
      BY ONLY <2>2
    <2> QED BY <1>8, <1>9, <2>1, <2>3 DEF CancelOf, CancelRecord
  <1>11. ids \subseteq Y /\ Y \subseteq Q
    BY DEF Entries
  <1>12. IsFirst(Y, F, i)
    <2>1. ASSUME NEW q \in Y, q \notin ids
          PROVE  F[i] < F[q] \/ (F[i] = F[q] /\ i <= q)
      <3>1. PICK T : T = {q, i}
        OBVIOUS
      <3>2. IsFiniteSet(T) /\ T # {} /\ T \subseteq Nat /\ \A r \in T : F[r] \in Int /\ r \in Nat
        <4>1. PICK U : U = {i}
          OBVIOUS
        <4>2. IsFiniteSet(U)
          BY <4>1, FS_Singleton
        <4>3. T = U \cup {q}
          BY <3>1, <4>1
        <4>4. IsFiniteSet(T)
          BY <4>2, <4>3, FS_AddElement
        <4> QED BY <1>1, <1>11, <3>1, <4>4
      <3>3. PICK r \in T : IsFirst(T, F, r)
        BY <3>2, FirstExists
      <3>4. FirstBy(Queued(T, F), FinishWork) = entry(r)
        BY <3>2, <3>3, QueuedFirst
      <3>5. Queued(T, F) = {entry(q), first}
        BY <3>1 DEF Queued
      <3>6. entry(r) = first
        BY <2>1, <3>4, <3>5
      <3>7. r = i
        BY <3>6
      <3> QED BY <3>1, <3>3, <3>7 DEF IsFirst
    <2>2. \A q \in ids : F[i] < F[q] \/ (F[i] = F[q] /\ i <= q)
      BY DEF IsFirst
    <2> HIDE DEF Y
    <2> QED BY <1>1, <1>11, <2>1, <2>2 DEF IsFirst
  <1> QED BY <1>10, <1>11, <1>12

CancelSettled(u, now) == [RecalculateThroughput(u) EXCEPT !.last = now]

LEMMA CancelSettledIs ==
    ASSUME NEW Q, NEW G, NEW X, IsFiniteSet(X), NEW P, NEW item, NEW share, NEW next, NEW t,
           NEW last, NEW u, u = CancelOf(Q, G, X, P, item, share, next, t, last), NEW now
    PROVE  CancelSettled(u, now) = CancelOf(Q, G, X, P, item, Each(X), next, t, now)
  <1>1. PICK A, B, e : A = Queued(Q, G) /\ B = Runs(X, item, P) /\ e = Each(X)
    OBVIOUS
  <1>2. u = [queue |-> A, running |-> B, share |-> share, nextId |-> next,
             total |-> t, last |-> last] /\ u.running = B
    BY <1>1 DEF CancelOf, CancelRecord
  <1>3. Share(Cardinality(u.running)) = e
    BY <1>1, <1>2, RunsCount DEF Each
  <1>4. PICK a : a = [queue |-> A, running |-> B, share |-> e, nextId |-> next,
                      total |-> t, last |-> last]
    OBVIOUS
  <1>5. [u EXCEPT !.share = e] = a
    BY ONLY <1>2, <1>4
  <1>6. [a EXCEPT !.last = now] = [queue |-> A, running |-> B, share |-> e, nextId |-> next,
                                   total |-> t, last |-> now]
    BY ONLY <1>4
  <1>7. RecalculateThroughput(u) = a
    BY <1>3, <1>5 DEF RecalculateThroughput
  <1> QED BY <1>1, <1>6, <1>7 DEF CancelSettled, CancelOf, CancelRecord

LEMMA CancelablePopIs ==
    ASSUME NEW ids, NEW L, NEW next, Books(ids, L, next), NEW i, IsFirst(ids, L, i),
           NEW item, NEW now, NEW m, CancelIs(m, ids, L, item, now, next),
           NEW X, X = ids \ {i}, NEW K, K = Passed(ids, L, L[i])
    PROVE  CancelIs(CancelablePop(m), X, K, item, now + L[i] \div Each(ids), next)
  <1>1. PICK Q, F, R, total, last :
          /\ Entries(Q, F, ids, R, next) /\ Finishes(ids, L, F, total, last, now)
          /\ m = CancelOf(Q, F, ids, R, item, Each(ids), next, total, last)
    BY DEF CancelIs
  <1>2. PICK s : s = Each(ids)
    OBVIOUS
  <1>3. IsFirst(ids, F, i) /\ i \in ids
    <2>1. IsFirst(ids, F, i)
      BY <1>1, FirstFinishes
    <2> QED BY <2>1 DEF IsFirst
  <1>4. PICK p : p = DropCancelled(m)
    OBVIOUS
  <1>5. PICK Y \in SUBSET Q : /\ ids \subseteq Y /\ IsFirst(Y, F, i)
                             /\ p = CancelOf(Y, F, ids, R, item, s, next, total, last)
    <2>1. m = CancelOf(Q, F, ids, R, item, s, next, total, last)
      BY <1>1, <1>2
    <2> QED BY <1>1, <1>3, <1>4, <2>1, DropCancelledIs
  <1>6. PICK A, B : A = Queued(Y, F) /\ B = Runs(ids, item, R)
    OBVIOUS
  <1>7. /\ p = [queue |-> A, running |-> B, share |-> s, nextId |-> next,
                total |-> total, last |-> last]
        /\ p.queue = A /\ p.running = B /\ p.total = total
    BY <1>5, <1>6 DEF CancelOf, CancelRecord
  <1>8. PICK e : e = FirstBy(p.queue, FinishWork)
    OBVIOUS
  <1>9. \A q \in Y : q \in Nat /\ q < next /\ F[q] \in Int
    BY <1>1 DEF Entries
  <1>10. e = [id |-> i, finish |-> F[i]]
    BY <1>5, <1>6, <1>7, <1>8, <1>9, QueuedFirst
  <1>11. RunningAs(p, e) = [id |-> i, item |-> item[i], start |-> R[i]]
    <2>1. e.id = i
      BY <1>10
    <2> QED BY <1>3, <1>5, <2>1, RunningAsIs
  <1>12. PICK Z : Z = Y \ {i}
    OBVIOUS
  <1>13. A \ {e} = Queued(Z, F) /\ B \ {RunningAs(p, e)} = Runs(X, item, R)
    <2>1. A \ {e} = Queued(Z, F)
      BY <1>6, <1>10, <1>12 DEF Queued
    <2>2. B \ {RunningAs(p, e)} = Runs(X, item, R)
      BY <1>6, <1>11 DEF Runs
    <2> QED BY <2>1, <2>2
  <1>14. PICK r : r = [p EXCEPT !.queue = @ \ {e}, !.running = @ \ {RunningAs(p, e)}]
    OBVIOUS
  <1>15. r = CancelOf(Z, F, X, R, item, s, next, total, last)
    <2>1. PICK C, D : C = Queued(Z, F) /\ D = Runs(X, item, R)
      OBVIOUS
    <2>2. r = [p EXCEPT !.queue = C, !.running = D]
      BY <1>7, <1>13, <1>14, <2>1
    <2>3. PICK a : a = [queue |-> C, running |-> B, share |-> s, nextId |-> next,
                        total |-> total, last |-> last]
      OBVIOUS
    <2>4. [p EXCEPT !.queue = C] = a
      BY ONLY <1>7, <2>3
    <2>5. [a EXCEPT !.running = D] = [queue |-> C, running |-> D, share |-> s, nextId |-> next,
                                      total |-> total, last |-> last]
      BY ONLY <2>3
    <2> QED BY <2>1, <2>2, <2>4, <2>5 DEF CancelOf, CancelRecord
  <1>16. Entries(Z, F, X, R, next)
    BY <1>1, <1>5, <1>9, <1>12 DEF Entries
  <1>17. total \in Int /\ F[i] \in Int
    BY <1>1, <1>3 DEF Finishes
  <1>18. PICK delta \in Int : delta = F[i] - total
    BY <1>17
  <1>19. PICK u : u = IncrementCancelable(r, delta)
    OBVIOUS
  <1>20. Moved(Z, F, X, item, s, next, F[i], last, u)
    <2>1. PICK w : w = total + delta
      OBVIOUS
    <2>2. w = F[i]
      BY <1>17, <1>18, <2>1
    <2>3. Moved(Z, F, X, item, s, next, w, last, u)
      BY <1>15, <1>16, <1>17, <1>19, <2>1, CancelIncrement
    <2> QED BY <2>2, <2>3
  <1>21. PICK G, P, t : /\ t \in Int
                        /\ \A q \in Z : G[q] \in Int /\ G[q] = F[q] - F[i] + t
                        /\ Entries(Z, G, X, P, next)
                        /\ u = CancelOf(Z, G, X, P, item, s, next, t, last)
    BY <1>20 DEF Moved
  <1>22. PICK n \in Int : n = now + L[i] \div Each(ids)
    BY <1>1, FirstEnds DEF Finishes
  <1>23. CancelablePop(m) = CancelSettled(u, n)
    <2>1. CancelablePeek(m).time = n
      BY <1>22, CancelablePeekIs
    <2>2. e.finish - p.total = delta
      BY <1>7, <1>10, <1>18
    <2> QED BY <1>4, <1>8, <1>14, <1>19, <2>1, <2>2 DEF CancelablePop, CancelSettled
  <1>24. CancelSettled(u, n) = CancelOf(Z, G, X, P, item, Each(X), next, t, n)
    <2>1. Books(X, K, next)
      BY BooksEnded
    <2>2. IsFiniteSet(X)
      BY <2>1 DEF Books
    <2> QED BY <1>21, <2>2, CancelSettledIs
  <1>25. Finishes(X, K, G, t, n, n)
    <2>1. \A j \in X : j \in Z
      BY <1>21 DEF Entries
    <2>2. \A j \in X : G[j] \in Int /\ G[j] = F[j] - F[i] + t
      BY <1>21, <2>1
    <2>3. Finishes(ids, L, F, total, last, now) /\ t \in Int
      BY <1>1, <1>21
    <2> QED BY <1>22, <2>2, <2>3, FinishesEnded
  <1> QED BY <1>21, <1>22, <1>23, <1>24, <1>25 DEF CancelIs

\* What is cancelled has got what VolumeDone says, if the total goes on.
LEMMA CancelledIs ==
    ASSUME NEW ids, NEW L, NEW next, Books(ids, L, next), NEW c \in ids,
           NEW item, NEW now, NEW m, CancelIs(m, ids, L, item, now, next),
           NEW X, X = ids \ {c}
    PROVE  /\ CancelIs(Cancel(m, c, now), X, L, item, now, next)
           /\ \/ m.total + (now - m.last) * m.share > TotalWorkMax
              \/ VolumeDone(m, c, now) = (CHOOSE e \in m.queue : e.id = c).finish
                                           - (CHOOSE r \in m.running : r.id = c).start - L[c]
  <1>1. PICK Q, F, R, total, last :
          /\ Entries(Q, F, ids, R, next) /\ Finishes(ids, L, F, total, last, now)
          /\ m = CancelOf(Q, F, ids, R, item, Each(ids), next, total, last)
    BY DEF CancelIs
  <1>2. PICK s \in Nat : s = Each(ids)
    BY ShareTyped
  <1>3. PICK A, B : A = Queued(Q, F) /\ B = Runs(ids, item, R)
    OBVIOUS
  <1>4. /\ m = [queue |-> A, running |-> B, share |-> s, nextId |-> next,
                total |-> total, last |-> last]
        /\ m.queue = A /\ m.running = B /\ m.total = total /\ m.last = last /\ m.share = s
    BY <1>1, <1>2, <1>3 DEF CancelOf, CancelRecord
  <1>5. PICK r : r = [m EXCEPT !.running = {a \in @ : a.id # c}]
    OBVIOUS
  <1>6. r = CancelOf(Q, F, X, R, item, s, next, total, last)
    <2>1. PICK D : D = Runs(X, item, R)
      OBVIOUS
    <2>2. {a \in B : a.id # c} = D
      BY <1>3, <2>1 DEF Runs
    <2>3. r = [m EXCEPT !.running = D]
      BY <1>4, <1>5, <2>2
    <2>4. [m EXCEPT !.running = D] = [queue |-> A, running |-> D, share |-> s, nextId |-> next,
                                      total |-> total, last |-> last]
      BY ONLY <1>4
    <2> QED BY <1>3, <2>1, <2>3, <2>4 DEF CancelOf, CancelRecord
  <1>7. Entries(Q, F, X, R, next) /\ Q # {} /\ c \in Q
    BY <1>1 DEF Entries
  <1>8. /\ total \in Int /\ last \in Int /\ now \in Int
        /\ \A i \in ids : L[i] \in Int /\ F[i] \in Int /\ F[i] = L[i] + total + (now - last) * s
    BY <1>1, <1>2 DEF Finishes, Books
  <1>9. PICK w \in Int : w = total + (now - last) * s
    BY <1>8
  <1>10. \A i \in ids : F[i] = L[i] + w
    BY <1>8, <1>9
  <1>11. PICK u : u = CountWork(r, now)
    OBVIOUS
  <1>12. Moved(Q, F, X, item, s, next, w, last, u)
    BY <1>6, <1>7, <1>8, <1>9, <1>11, CountWorkIs
  <1>13. PICK G, P, t : /\ t \in Int
                        /\ \A q \in Q : G[q] \in Int /\ G[q] = F[q] - w + t
                        /\ w <= TotalWorkMax => t = w
                        /\ Entries(Q, G, X, P, next)
                        /\ u = CancelOf(Q, G, X, P, item, s, next, t, last)
    BY <1>12 DEF Moved
  <1>14. Books(X, L, next) /\ IsFiniteSet(X)
    <2>1. Books(X, L, next)
      BY BooksWithout
    <2> QED BY <2>1 DEF Books
  <1>15. Cancel(m, c, now) = CancelOf(Q, G, X, P, item, Each(X), next, t, now)
    <2>1. Cancel(m, c, now) = CancelSettled(u, now)
      BY <1>5, <1>11 DEF Cancel, CancelSettled
    <2> QED BY <1>13, <1>14, <2>1, CancelSettledIs
  <1>16. Finishes(X, L, G, t, now, now)
    <2>1. (now - now) * Each(X) = 0
      <3>1. PICK e \in Nat : e = Each(X)
        BY <1>14, ShareTyped
      <3>2. (now - now) * e = 0
        BY <1>8
      <3> QED BY <3>1, <3>2
    <2>2. \A i \in X : G[i] \in Int /\ G[i] = L[i] + t /\ L[i] \in Int
      <3>1. \A i \in X : i \in Q /\ i \in ids
        BY <1>7 DEF Entries
      <3> QED BY <1>8, <1>9, <1>10, <1>13, <3>1
    <2> QED BY <1>8, <1>13, <2>1, <2>2 DEF Finishes
  <1>17. ASSUME w <= TotalWorkMax
         PROVE  VolumeDone(m, c, now) = (CHOOSE e \in m.queue : e.id = c).finish
                                          - (CHOOSE a \in m.running : a.id = c).start - L[c]
    <2>1. Cancel(m, c, now).total = w
      BY <1>13, <1>15, <1>17 DEF CancelOf, CancelRecord
    <2>2. PICK y : y = (CHOOSE a \in m.running : a.id = c).start
      OBVIOUS
    <2>3. y = R[c] /\ R[c] \in Int
      <3>1. PICK e : e = [id |-> c]
        OBVIOUS
      <3>2. RunningAs(m, e) = [id |-> c, item |-> item[c], start |-> R[c]]
        <4>1. m = CancelOf(Q, F, ids, R, item, s, next, total, last) /\ e.id = c
          BY <1>1, <1>2, <3>1
        <4> QED BY <4>1, RunningAsIs
      <3>3. RunningAs(m, e) = CHOOSE a \in m.running : a.id = c
        BY <3>1 DEF RunningAs
      <3>4. y = RunningAs(m, e).start
        BY <2>2, <3>3
      <3>5. y = R[c]
        BY ONLY <3>2, <3>4
      <3>6. R[c] \in Int
        BY <1>1 DEF Entries
      <3> QED BY <3>5, <3>6
    <2>4. (CHOOSE e \in m.queue : e.id = c).finish = F[c]
      <3>1. PICK a : a = [id |-> c, finish |-> F[c]]
        OBVIOUS
      <3>2. a \in A /\ a.id = c /\ \A b \in A : b.id = c => b = a
        BY <1>3, <1>7, <3>1 DEF Queued
      <3>3. (CHOOSE e \in A : e.id = c) = a
        BY <3>2
      <3>4. (CHOOSE e \in m.queue : e.id = c) = a
        BY <1>4, <3>3
      <3>5. a.finish = F[c]
        BY <3>1
      <3> QED BY <3>4, <3>5
    <2>5. VolumeDone(m, c, now) = w - y
      BY <2>1, <2>2 DEF VolumeDone
    <2>6. w - R[c] = F[c] - R[c] - L[c]
      BY <1>8, <1>9, <1>10, <2>3
    <2> QED BY <2>2, <2>3, <2>4, <2>5, <2>6
  <1>18. m.total + (now - m.last) * m.share = w
    BY <1>4, <1>9
  <1>19. w > TotalWorkMax \/ w <= TotalWorkMax
    BY <1>9, SharingAssumption
  <1>20. CancelIs(Cancel(m, c, now), X, L, item, now, next)
    BY <1>13, <1>15, <1>16 DEF CancelIs
  <1> QED BY <1>17, <1>18, <1>19, <1>20

-----------------------------------------------------------------------------
(* What the models believe is left is what is left.                        *)

LEMMA BelievedLeft ==
    ASSUME NEW ids, NEW L, NEW next, Books(ids, L, next),
           NEW F, NEW total, NEW last, NEW now, Finishes(ids, L, F, total, last, now),
           NEW i \in ids
    PROVE  F[i] - total - (now - last) * Each(ids) = L[i]
  <1>1. PICK w \in Int : w = (now - last) * Each(ids)
    BY ShareTyped DEF Finishes
  <1>2. total \in Int /\ L[i] \in Int /\ F[i] = L[i] + total + w
    BY <1>1 DEF Finishes, Books
  <1> QED BY <1>1, <1>2

LEMMA FastLeftIs ==
    ASSUME NEW ids, NEW L, NEW next, Books(ids, L, next),
           NEW item, NEW now, NEW m, FastIs(m, ids, L, item, now, next)
    PROVE  FastLeft(m, now) = Works(ids, L)
  <1>1. PICK F, total, last : /\ Finishes(ids, L, F, total, last, now)
                              /\ m = FastOf(ids, item, F, total, last, next)
    BY DEF FastIs
  <1> DEFINE old(i) == [id |-> i, item |-> item[i], finish |-> F[i]]
             believed(a) == [id |-> a.id, left |-> a.finish - total - (now - last) * Each(ids)]
             left(i) == [id |-> i, left |-> L[i]]
  <1>2. \A i \in ids : believed(old(i)) = left(i)
    BY <1>1, BelievedLeft
  <1>3. FastLeft(m, now) = {believed(a) : a \in {old(i) : i \in ids}}
    BY <1>1 DEF FastLeft, FastOf, FastRecord, Fasts
  <1>4. Works(ids, L) = {left(i) : i \in ids}
    BY DEF Works
  <1> HIDE DEF old, believed, left
  <1>5. {believed(a) : a \in {old(i) : i \in ids}} = {left(i) : i \in ids}
    BY <1>2
  <1> QED BY <1>3, <1>4, <1>5

LEMMA SlowLeftIs ==
    ASSUME NEW ids, NEW L, NEW next, Books(ids, L, next),
           NEW item, NEW now, NEW m, SlowIs(m, ids, L, item, now, next)
    PROVE  SlowLeft(m, now) = Works(ids, L)
  <1>1. PICK V, last : /\ WasLeft(ids, L, V, last, now)
                       /\ m = SlowRecord(Slows(ids, item, V), Each(ids), next, last)
    BY DEF SlowIs
  <1> DEFINE old(i) == [id |-> i, item |-> item[i], left |-> V[i]]
             believed(a) == [id |-> a.id, left |-> a.left - (now - last) * Each(ids)]
             left(i) == [id |-> i, left |-> L[i]]
  <1>2. \A i \in ids : believed(old(i)) = left(i)
    <2> SUFFICES ASSUME NEW i \in ids PROVE V[i] - (now - last) * Each(ids) = L[i]
      OBVIOUS
    <2>1. V[i] - 0 - (now - last) * Each(ids) = L[i]
      BY <1>1, WasLeftFinishes, BelievedLeft
    <2>2. V[i] \in Int
      BY <1>1 DEF WasLeft
    <2>3. V[i] - 0 = V[i]
      BY <2>2
    <2> QED BY <2>1, <2>3
  <1>3. SlowLeft(m, now) = {believed(a) : a \in {old(i) : i \in ids}}
    BY <1>1 DEF SlowLeft, SlowRecord, Slows
  <1>4. Works(ids, L) = {left(i) : i \in ids}
    BY DEF Works
  <1> HIDE DEF old, believed, left
  <1>5. {believed(a) : a \in {old(i) : i \in ids}} = {left(i) : i \in ids}
    BY <1>2
  <1> QED BY <1>3, <1>4, <1>5

LEMMA CancelableLeftIs ==
    ASSUME NEW ids, NEW L, NEW next, Books(ids, L, next),
           NEW item, NEW now, NEW m, CancelIs(m, ids, L, item, now, next)
    PROVE  CancelableLeft(m, now) = Works(ids, L)
  <1>1. PICK Q, F, R, total, last :
          /\ Entries(Q, F, ids, R, next) /\ Finishes(ids, L, F, total, last, now)
          /\ m = CancelOf(Q, F, ids, R, item, Each(ids), next, total, last)
    BY DEF CancelIs
  <1> DEFINE old(i) == [id |-> i, finish |-> F[i]]
             believed(e) == [id |-> e.id, left |-> e.finish - total - (now - last) * Each(ids)]
             left(i) == [id |-> i, left |-> L[i]]
  <1>2. \A i \in ids : believed(old(i)) = left(i)
    BY <1>1, BelievedLeft
  <1>3. Live(m) = {old(i) : i \in ids}
    BY <1>1, LiveIs DEF Queued, Entries
  <1>4. m.total = total /\ m.last = last /\ m.share = Each(ids)
    BY <1>1 DEF CancelOf, CancelRecord
  <1>5. CancelableLeft(m, now) = {believed(e) : e \in Live(m)}
    BY <1>4 DEF CancelableLeft
  <1>6. Works(ids, L) = {left(i) : i \in ids}
    BY DEF Works
  <1> HIDE DEF old, believed, left
  <1>7. {believed(e) : e \in {old(i) : i \in ids}} = {left(i) : i \in ids}
    BY <1>2
  <1> QED BY <1>3, <1>5, <1>6, <1>7

-----------------------------------------------------------------------------
(* The client of the three models.                                         *)

TesterBooks(t, ids, L, item) ==
    LET next == t.cancelable.nextId
    IN /\ Books(ids, L, next) /\ \A i \in ids : item[i] = i
       /\ t.work = Works(ids, L)
       /\ CancelIs(t.cancelable, ids, L, item, t.clock, next)
       /\ t.cancelled \/ (/\ FastIs(t.fast, ids, L, item, t.clock, next)
                          /\ SlowIs(t.slow, ids, L, item, t.clock, next))
       /\ t.volumeRight

TesterShape(t) ==
    t = [toStart |-> t.toStart, clock |-> t.clock, fast |-> t.fast, slow |-> t.slow,
         cancelable |-> t.cancelable, cancelled |-> t.cancelled, work |-> t.work,
         volumeRight |-> t.volumeRight]

TesterInv == TesterShape(tester) /\ \E ids, L, item : TesterBooks(tester, ids, L, item)

LEMMA NextIdIs ==
    ASSUME NEW m, NEW ids, NEW L, NEW item, NEW now, NEW next, CancelIs(m, ids, L, item, now, next)
    PROVE  m.nextId = next /\ now \in Int
  BY DEF CancelIs, CancelOf, CancelRecord, Finishes

LEMMA TesterInit ==
    ASSUME NEW n, tester = NewTester(n)
    PROVE  TesterInv
  <1>1. PICK L : L = [i \in {} |-> 0]
    OBVIOUS
  <1>2. /\ TesterShape(tester) /\ tester.cancelable = NewCancelable /\ tester.fast = NewFast
        /\ tester.slow = NewSlow /\ tester.clock = 0 /\ tester.work = {} /\ tester.volumeRight
    BY DEF NewTester, TesterShape
  <1>3. Books({}, L, 0)
    BY BooksEmpty
  <1>4. Each({}) = 0
    BY FS_EmptySet DEF Each, Share
  <1>5. Finishes({}, L, L, 0, 0, 0) /\ WasLeft({}, L, L, 0, 0) /\ Entries({}, L, {}, L, 0)
    BY DEF Finishes, WasLeft, Entries
  <1>6. /\ Fasts({}, L, L) = {} /\ Slows({}, L, L) = {} /\ Queued({}, L) = {} /\ Runs({}, L, L) = {}
        /\ Works({}, L) = {}
    BY DEF Fasts, Slows, Queued, Runs, Works
  <1>7. CancelIs(NewCancelable, {}, L, L, 0, 0)
    <2>1. NewCancelable = CancelOf({}, L, {}, L, L, Each({}), 0, 0, 0)
      BY <1>4, <1>6 DEF NewCancelable, CancelOf, CancelRecord
    <2> QED BY <1>5, <2>1 DEF CancelIs
  <1>8. FastIs(NewFast, {}, L, L, 0, 0)
    <2>1. NewFast = FastOf({}, L, L, 0, 0, 0)
      BY <1>4, <1>6 DEF NewFast, FastOf, FastRecord
    <2> QED BY <1>5, <2>1 DEF FastIs
  <1>9. SlowIs(NewSlow, {}, L, L, 0, 0)
    <2>1. NewSlow = SlowRecord(Slows({}, L, L), Each({}), 0, 0)
      BY <1>4, <1>6 DEF NewSlow, SlowRecord
    <2> QED BY <1>5, <2>1 DEF SlowIs
  <1>10. NewCancelable.nextId = 0
    BY DEF NewCancelable
  <1>11. TesterBooks(tester, {}, L, L)
    BY <1>2, <1>3, <1>6, <1>7, <1>8, <1>9, <1>10 DEF TesterBooks
  <1> QED BY <1>2, <1>11 DEF TesterInv

LEMMA StartKeeps ==
    ASSUME TesterInv, NEW v \in Volume, StartActivity(v)
    PROVE  TesterInv'
  <1>1. PICK ids, L, item : TesterBooks(tester, ids, L, item)
    BY DEF TesterInv
  <1>2. PICK next, now, f, s, m : /\ next = tester.cancelable.nextId /\ now = tester.clock
                                  /\ f = tester.fast /\ s = tester.slow /\ m = tester.cancelable
    OBVIOUS
  <1>3. /\ Books(ids, L, next) /\ \A i \in ids : item[i] = i
        /\ tester.work = Works(ids, L) /\ CancelIs(m, ids, L, item, now, next)
        /\ tester.cancelled \/ (FastIs(f, ids, L, item, now, next) /\ SlowIs(s, ids, L, item, now, next))
        /\ tester.volumeRight
    BY <1>1, <1>2 DEF TesterBooks
  <1>4. /\ TesterShape(tester') /\ tester'.clock = now /\ tester'.cancelled = tester.cancelled
        /\ tester'.fast = IF tester.cancelled THEN f ELSE FastInsert(f, next, v, now)
        /\ tester'.slow = IF tester.cancelled THEN s ELSE SlowInsert(s, next, v, now)
        /\ tester'.cancelable = CancelableInsert(m, next, v, now)
        /\ tester'.work = tester.work \cup {[id |-> next, left |-> v]}
        /\ tester'.volumeRight = tester.volumeRight
    BY <1>2 DEF TesterInv, TesterShape, StartActivity
  <1>5. PICK X, K, N : /\ X = ids \cup {next} /\ K = Started(ids, L, next, v)
                       /\ N = Started(ids, item, next, next)
    OBVIOUS
  <1>6. v \in Nat /\ Divisible(v) /\ Cardinality(ids) < Len(PerActivity)
    <2>1. Cardinality(Works(ids, L)) = Cardinality(ids)
      BY <1>3, WorksCount DEF Books
    <2>2. Cardinality(tester.work) < Len(PerActivity)
      BY DEF StartActivity
    <2> QED BY <1>3, <2>1, <2>2, TesterAssumption
  <1>7. Books(X, K, next + 1)
    BY <1>3, <1>5, <1>6, BooksStarted
  <1>8. CancelIs(tester'.cancelable, X, K, N, now, next + 1)
    BY <1>3, <1>4, <1>5, <1>6, <1>7, CancelableInsertIs
  <1>9. tester.cancelled \/ (/\ FastIs(tester'.fast, X, K, N, now, next + 1)
                             /\ SlowIs(tester'.slow, X, K, N, now, next + 1))
    <2> SUFFICES ASSUME ~ tester.cancelled
                 PROVE  /\ FastIs(FastInsert(f, next, v, now), X, K, N, now, next + 1)
                        /\ SlowIs(SlowInsert(s, next, v, now), X, K, N, now, next + 1)
      BY <1>4
    <2>1. FastIs(FastInsert(f, next, v, now), X, K, N, now, next + 1)
      BY <1>3, <1>5, <1>6, <1>7, FastInsertIs
    <2>2. SlowIs(SlowInsert(s, next, v, now), X, K, N, now, next + 1)
      BY <1>3, <1>5, <1>6, <1>7, SlowInsertIs
    <2> QED BY <2>1, <2>2
  <1>10. tester'.work = Works(X, K)
    BY <1>3, <1>4, <1>5, WorksStarted
  <1>11. \A i \in X : N[i] = i
    BY <1>3, <1>5 DEF Started
  <1>12. tester'.cancelable.nextId = next + 1
    BY <1>8, NextIdIs
  <1>13. TesterBooks(tester', X, K, N)
    BY <1>3, <1>4, <1>7, <1>8, <1>9, <1>10, <1>11, <1>12 DEF TesterBooks
  <1> QED BY <1>4, <1>13 DEF TesterInv

LEMMA PopKeeps ==
    ASSUME TesterInv, PopActivity
    PROVE  TesterInv'
  <1>1. PICK ids, L, item : TesterBooks(tester, ids, L, item)
    BY DEF TesterInv
  <1>2. PICK next, now, f, s, m : /\ next = tester.cancelable.nextId /\ now = tester.clock
                                  /\ f = tester.fast /\ s = tester.slow /\ m = tester.cancelable
    OBVIOUS
  <1>3. /\ Books(ids, L, next) /\ \A i \in ids : item[i] = i
        /\ tester.work = Works(ids, L) /\ CancelIs(m, ids, L, item, now, next)
        /\ tester.cancelled \/ (FastIs(f, ids, L, item, now, next) /\ SlowIs(s, ids, L, item, now, next))
        /\ tester.volumeRight
    BY <1>1, <1>2 DEF TesterBooks
  <1>4. PICK i \in ids : IsFirst(ids, L, i)
    <2>1. ids # {}
      BY <1>3 DEF PopActivity, Idle, Works
    <2>2. IsFiniteSet(ids) /\ ids \subseteq Nat /\ \A j \in ids : L[j] \in Int
      BY <1>3 DEF Books
    <2> QED BY <2>1, <2>2, FirstExists
  <1>5. TimeToEnd(tester.work) = L[i] \div Each(ids)
    BY <1>3, <1>4, WorksTimeToEnd
  <1>6. PICK n : n = now + L[i] \div Each(ids)
    OBVIOUS
  <1>7. /\ TesterShape(tester') /\ tester'.clock = n /\ tester'.cancelled = tester.cancelled
        /\ tester'.fast = IF tester.cancelled THEN f ELSE FastPop(f)
        /\ tester'.slow = IF tester.cancelled THEN s ELSE SlowPop(s)
        /\ tester'.cancelable = CancelablePop(m)
        /\ tester'.work = WithoutEnded(tester.work)
        /\ tester'.volumeRight = tester.volumeRight
    BY <1>2, <1>5, <1>6 DEF TesterInv, TesterShape, PopActivity
  <1>8. PICK X, K : X = ids \ {i} /\ K = Passed(ids, L, L[i])
    OBVIOUS
  <1>9. Books(X, K, next)
    BY <1>3, <1>4, <1>8, BooksEnded
  <1>10. CancelIs(tester'.cancelable, X, K, item, n, next)
    BY <1>3, <1>4, <1>6, <1>7, <1>8, CancelablePopIs
  <1>11. tester.cancelled \/ (/\ FastIs(tester'.fast, X, K, item, n, next)
                              /\ SlowIs(tester'.slow, X, K, item, n, next))
    <2> SUFFICES ASSUME ~ tester.cancelled
                 PROVE  /\ FastIs(FastPop(f), X, K, item, n, next)
                        /\ SlowIs(SlowPop(s), X, K, item, n, next)
      BY <1>7
    <2>1. FastIs(FastPop(f), X, K, item, n, next)
      BY <1>3, <1>4, <1>6, <1>8, FastPopIs
    <2>2. SlowIs(SlowPop(s), X, K, item, n, next)
      BY <1>3, <1>4, <1>6, <1>8, SlowPopIs
    <2> QED BY <2>1, <2>2
  <1>12. tester'.work = Works(X, K)
    BY <1>3, <1>4, <1>7, <1>8, WorksEnded
  <1>13. tester'.cancelable.nextId = next
    BY <1>10, NextIdIs
  <1>14. TesterBooks(tester', X, K, item)
    BY <1>3, <1>7, <1>8, <1>9, <1>10, <1>11, <1>12, <1>13 DEF TesterBooks
  <1> QED BY <1>7, <1>14 DEF TesterInv

LEMMA CancelKeeps ==
    ASSUME TesterInv, NEW a \in tester.work, CancelActivity(a)
    PROVE  TesterInv'
  <1>1. PICK ids, L, item : TesterBooks(tester, ids, L, item)
    BY DEF TesterInv
  <1>2. PICK next, now, m : /\ next = tester.cancelable.nextId /\ now = tester.clock
                            /\ m = tester.cancelable
    OBVIOUS
  <1>3. /\ Books(ids, L, next) /\ \A i \in ids : item[i] = i
        /\ tester.work = Works(ids, L) /\ CancelIs(m, ids, L, item, now, next)
    BY <1>1, <1>2 DEF TesterBooks
  <1>4. PICK c \in ids : a = [id |-> c, left |-> L[c]]
    BY <1>3 DEF Works
  <1>5. a.id = c /\ a.left = L[c]
    BY <1>4
  <1>6. /\ TesterShape(tester') /\ tester'.clock = now /\ tester'.cancelled
        /\ tester'.cancelable = Cancel(m, c, now)
        /\ tester'.work = tester.work \ {a}
    BY <1>2, <1>5 DEF TesterInv, TesterShape, CancelActivity
  <1>7. tester'.volumeRight
          = (\/ m.total + (now - m.last) * m.share > TotalWorkMax
             \/ VolumeDone(m, c, now) = (CHOOSE e \in m.queue : e.id = c).finish
                                          - (CHOOSE r \in m.running : r.id = c).start - L[c])
    BY <1>2, <1>5 DEF TesterInv, TesterShape, CancelActivity
  <1>8. PICK X : X = ids \ {c}
    OBVIOUS
  <1>9. /\ CancelIs(Cancel(m, c, now), X, L, item, now, next)
        /\ \/ m.total + (now - m.last) * m.share > TotalWorkMax
           \/ VolumeDone(m, c, now) = (CHOOSE e \in m.queue : e.id = c).finish
                                        - (CHOOSE r \in m.running : r.id = c).start - L[c]
    BY <1>3, <1>8, CancelledIs
  <1>10. tester'.volumeRight
    BY <1>7, <1>9
  <1>11. Books(X, L, next)
    BY <1>3, <1>8, BooksWithout
  <1>12. tester'.work = Works(X, L)
    <2>1. tester'.work = Works(ids, L) \ {[id |-> c, left |-> L[c]]}
      BY <1>3, <1>4, <1>6
    <2>2. Works(ids, L) \ {[id |-> c, left |-> L[c]]} = Works(X, L)
      BY <1>8 DEF Works
    <2> QED BY <2>1, <2>2
  <1>13. tester'.cancelable.nextId = next
    BY <1>6, <1>9, NextIdIs
  <1>14. TesterBooks(tester', X, L, item)
    BY <1>3, <1>6, <1>8, <1>9, <1>10, <1>11, <1>12, <1>13 DEF TesterBooks
  <1> QED BY <1>6, <1>14 DEF TesterInv

LEMMA WaitKeeps ==
    ASSUME TesterInv, TimePasses
    PROVE  TesterInv'
  <1>1. PICK ids, L, item : TesterBooks(tester, ids, L, item)
    BY DEF TesterInv
  <1>2. PICK next, now, f, s, m : /\ next = tester.cancelable.nextId /\ now = tester.clock
                                  /\ f = tester.fast /\ s = tester.slow /\ m = tester.cancelable
    OBVIOUS
  <1>3. /\ Books(ids, L, next) /\ \A i \in ids : item[i] = i
        /\ tester.work = Works(ids, L) /\ CancelIs(m, ids, L, item, now, next)
        /\ tester.cancelled \/ (FastIs(f, ids, L, item, now, next) /\ SlowIs(s, ids, L, item, now, next))
        /\ tester.volumeRight
    BY <1>1, <1>2 DEF TesterBooks
  <1>4. /\ TesterShape(tester') /\ tester'.clock = now + Step /\ tester'.cancelled = tester.cancelled
        /\ tester'.fast = f /\ tester'.slow = s /\ tester'.cancelable = m
        /\ tester'.work = WorkAfter(tester.work, Step)
        /\ tester'.volumeRight = tester.volumeRight
    BY <1>2 DEF TesterInv, TesterShape, TimePasses
  <1>5. PICK d, K : d = Step * Each(ids) /\ K = Passed(ids, L, d)
    OBVIOUS
  <1>6. Step \in Nat /\ \A n \in DOMAIN PerActivity : Divisible(Step * PerActivity[n])
    BY TesterAssumption
  <1>7. \A i \in ids : Step <= L[i] \div Each(ids)
    <2>1. CASE ids = {}
      BY <2>1
    <2>2. CASE ids # {}
      <3>1. IsFiniteSet(ids) /\ ids \subseteq Nat /\ \A j \in ids : L[j] \in Int
        BY <1>3 DEF Books
      <3>2. PICK i \in ids : IsFirst(ids, L, i)
        BY <2>2, <3>1, FirstExists
      <3>3. TimeToEnd(tester.work) = L[i] \div Each(ids)
        BY <1>3, <3>2, WorksTimeToEnd
      <3>4. tester.work # {}
        BY <1>3, <2>2 DEF Works
      <3>5. Step < L[i] \div Each(ids)
        BY <3>3, <3>4 DEF TimePasses, Idle
      <3>6. PICK e \in Nat \ {0} : e = Each(ids) /\ \A j \in ids : L[j] % e = 0
        BY <1>3, <2>2, ShareTyped
      <3>7. ASSUME NEW j \in ids PROVE Step <= L[j] \div e
        <4>1. L[i] <= L[j] /\ L[i] \in Int /\ L[j] \in Int
          BY <1>3, <3>1, <3>2, FirstEnds
        <4>2. L[i] \div e <= L[j] \div e /\ L[i] \div e \in Int /\ L[j] \div e \in Int
          BY <4>1, QuotientsOrdered
        <4> QED BY <1>6, <3>5, <3>6, <4>2
      <3> QED BY <3>6, <3>7
    <2> QED BY <2>1, <2>2
  <1>8. Books(ids, K, next)
    BY <1>3, <1>5, <1>6, <1>7, BooksWaited
  <1>9. CancelIs(m, ids, K, item, now + Step, next)
    BY <1>3, <1>5, <1>6, CancelPassedIs
  <1>10. tester.cancelled \/ (/\ FastIs(f, ids, K, item, now + Step, next)
                              /\ SlowIs(s, ids, K, item, now + Step, next))
    BY <1>3, <1>5, <1>6, FastPassedIs, SlowPassedIs
  <1>11. tester'.work = Works(ids, K)
    BY <1>3, <1>4, <1>5, WorksPassed DEF Books
  <1>12. tester'.cancelable.nextId = next
    BY <1>2, <1>4
  <1>13. TesterBooks(tester', ids, K, item)
    BY <1>3, <1>4, <1>8, <1>9, <1>10, <1>11, <1>12 DEF TesterBooks
  <1> QED BY <1>4, <1>13 DEF TesterInv

LEMMA TesterKeeps ==
    ASSUME TesterInv, TesterStep
    PROVE  TesterInv'
  BY StartKeeps, PopKeeps, CancelKeeps, WaitKeeps DEF TesterStep

\* No division of books is rounded.
LEMMA BooksExact ==
    ASSUME NEW ids, NEW L, NEW next, Books(ids, L, next), NEW work, work = Works(ids, L)
    PROVE  DivisionsExact(work)
  <1>1. \A a \in work : a.left >= 0
    BY DEF Works, Books
  <1>2. ASSUME work # {}
        PROVE  NextToEnd(work).left % Share(Cardinality(work)) = 0
    <2>1. ids # {} /\ \A j \in ids : L[j] \in Int
      BY <1>2 DEF Works, Books
    <2>2. PICK i \in ids : IsFirst(ids, L, i)
      BY <2>1, FirstExists DEF Books
    <2>3. NextToEnd(work).left = L[i]
      BY <2>2, WorksFirst
    <2>4. L[i] % Each(ids) = 0
      BY <2>1, ShareTyped
    <2>5. Share(Cardinality(work)) = Each(ids)
      BY WorksCount DEF Books, Each
    <2> QED BY <2>3, <2>4, <2>5
  <1> QED BY <1>1, <1>2 DEF DivisionsExact

\* What the models have when they are right.
LEMMA TesterExact ==
    ASSUME TesterInv
    PROVE  ModelsExact /\ DivisionsExact(tester.work)
  <1>1. PICK ids, L, item : TesterBooks(tester, ids, L, item)
    BY DEF TesterInv
  <1>2. PICK next, now, f, s, m : /\ next = tester.cancelable.nextId /\ now = tester.clock
                                  /\ f = tester.fast /\ s = tester.slow /\ m = tester.cancelable
    OBVIOUS
  <1>3. /\ Books(ids, L, next) /\ \A i \in ids : item[i] = i
        /\ tester.work = Works(ids, L) /\ CancelIs(m, ids, L, item, now, next)
        /\ tester.cancelled \/ (FastIs(f, ids, L, item, now, next) /\ SlowIs(s, ids, L, item, now, next))
        /\ tester.volumeRight
    BY <1>1, <1>2 DEF TesterBooks
  <1>4. CancelableLeft(m, now) = Works(ids, L)
    BY <1>3, CancelableLeftIs
  <1>5. tester.cancelled \/ (FastLeft(f, now) = Works(ids, L) /\ SlowLeft(s, now) = Works(ids, L))
    BY <1>3, FastLeftIs, SlowLeftIs
  <1>6. ASSUME tester.work # {}
        PROVE  LET end == [item |-> NextToEnd(tester.work).id,
                           time |-> now + TimeToEnd(tester.work)]
               IN /\ CancelablePeek(m) = end
                  /\ tester.cancelled \/ (FastPeek(f) = end /\ SlowPeek(s) = end)
    <2>1. ids # {} /\ IsFiniteSet(ids) /\ ids \subseteq Nat /\ \A j \in ids : L[j] \in Int
      BY <1>3, <1>6 DEF Works, Books
    <2>2. PICK i \in ids : IsFirst(ids, L, i)
      BY <2>1, FirstExists
    <2>3. PICK end : end = [item |-> item[i], time |-> now + L[i] \div Each(ids)]
      OBVIOUS
    <2>4. CancelablePeek(m) = end
      BY <1>3, <2>2, <2>3, CancelablePeekIs
    <2>5. tester.cancelled \/ (FastPeek(f) = end /\ SlowPeek(s) = end)
      BY <1>3, <2>2, <2>3, FastPeekIs, SlowPeekIs
    <2>6. NextToEnd(tester.work).id = item[i] /\ TimeToEnd(tester.work) = L[i] \div Each(ids)
      <3>1. NextToEnd(tester.work) = [id |-> i, left |-> L[i]]
        BY <1>3, <2>2, WorksFirst
      <3>2. TimeToEnd(tester.work) = L[i] \div Each(ids)
        BY <1>3, <2>2, WorksTimeToEnd
      <3> QED BY <1>3, <3>1, <3>2
    <2> QED BY <2>3, <2>4, <2>5, <2>6
  <1>7. DivisionsExact(tester.work)
    BY <1>3, BooksExact
  <1>8. ModelsExact
    BY <1>2, <1>3, <1>4, <1>5, <1>6 DEF ModelsExact
  <1> QED BY <1>7, <1>8

-----------------------------------------------------------------------------
(* The single core.  Each computation is yet to be requested, requested,   *)
(* running or over.                                                        *)

CoreRecord(toRequest, clock, events, nextEventId, memory, model, nextEvent, work,
           failed, finished, panicked) ==
    [toRequest |-> toRequest, clock |-> clock, events |-> events,
     nextEventId |-> nextEventId, memory |-> memory, model |-> model,
     nextEvent |-> nextEvent, work |-> work, failed |-> failed, finished |-> finished,
     panicked |-> panicked]

CoreShape(s) ==
    s = CoreRecord(s.toRequest, s.clock, s.events, s.nextEventId, s.memory, s.model,
                   s.nextEvent, s.work, s.failed, s.finished, s.panicked)

Running(ids, item) == {item[i] : i \in ids}

Requests(s) == {e \in s.events : e.type = "CompRequest"}

Load(comps) == SumFunction([c \in comps |-> CoreMemory[c]])

CoreBooks(s, ids, L, item) ==
    /\ Books(ids, L, s.model.nextId) /\ s.work = Works(ids, L)
    /\ FastIs(s.model, ids, L, item, s.clock, s.model.nextId)
    /\ s.clock \in Nat

Distinct(s, ids, item) ==
    /\ s.toRequest \subseteq CoreComp
    /\ \A i \in ids : item[i] \in CoreComp /\ item[i] \notin s.toRequest
    /\ \A i, j \in ids : item[i] = item[j] => i = j
    /\ \A e \in Requests(s) : /\ e.comp \in CoreComp /\ e.comp \notin s.toRequest
                              /\ \A i \in ids : item[i] # e.comp
    /\ \A e, f \in Requests(s) : e.comp = f.comp => e = f

\* Requests come at once, and no one takes them for the completion.
QueueRight(s) ==
    /\ s.nextEvent \in Nat /\ s.nextEventId \in Nat /\ s.nextEvent < s.nextEventId
    /\ \A e \in s.events : e.id \in Nat /\ e.id < s.nextEventId
    /\ \A e \in Requests(s) : e.time = s.clock /\ e.id # s.nextEvent

CoreHalf(s, ids, L, item) ==
    /\ CoreShape(s) /\ ~ s.panicked
    /\ CoreBooks(s, ids, L, item) /\ Distinct(s, ids, item) /\ QueueRight(s)
    /\ s.memory = MemoryTotal - Load(Running(ids, item))

Ahead(s, ids, L, item, i) ==
    [id |-> s.nextEvent, time |-> s.clock + L[i] \div Each(ids),
     type |-> "InternalCompFinished", comp |-> item[i]]

\* The event that is not a request is the completion of the first to end.
CompletionRight(s, ids, L, item) ==
    /\ ids = {} => s.events = Requests(s)
    /\ \A i : IsFirst(ids, L, i) => s.events \ Requests(s) = {Ahead(s, ids, L, item, i)}

CoreInv ==
    \E ids, L, item : CoreHalf(core, ids, L, item) /\ CompletionRight(core, ids, L, item)

LEMMA FirstUnique ==
    ASSUME NEW ids, ids \subseteq Nat, NEW K, \A i \in ids : K[i] \in Int,
           NEW i, IsFirst(ids, K, i), NEW j, IsFirst(ids, K, j)
    PROVE  i = j
  <1>1. i \in ids /\ j \in ids /\ i \in Nat /\ j \in Nat /\ K[i] \in Int /\ K[j] \in Int
    BY DEF IsFirst
  <1>2. /\ K[i] < K[j] \/ (K[i] = K[j] /\ i <= j)
        /\ K[j] < K[i] \/ (K[j] = K[i] /\ j <= i)
    BY <1>1 DEF IsFirst
  <1> QED BY <1>1, <1>2

LEMMA LoadExtended ==
    ASSUME NEW R, IsFiniteSet(R), R \subseteq CoreComp, NEW c \in CoreComp \ R,
           NEW Q, Q = R \cup {c}
    PROVE  Load(Q) = Load(R) + CoreMemory[c] /\ Load(R) \in Nat /\ CoreMemory[c] \in Nat
  <1>1. CoreMemory \in [CoreComp -> Nat]
    BY CoreAssumption
  <1>2. PICK f, g : f = [x \in R |-> CoreMemory[x]] /\ g = [x \in Q |-> CoreMemory[x]]
    OBVIOUS
  <1>3. f \in [R -> Nat] /\ g \in [R \cup {c} -> Nat] /\ g[c] = CoreMemory[c]
        /\ \A y \in R : g[y] = f[y]
    BY <1>1, <1>2
  <1>4. SumFunction(g) = SumFunction(f) + g[c]
    BY <1>3, SumExtended
  <1>5. SumFunction(f) \in Nat
    BY <1>3, SumTyped
  <1> QED BY <1>1, <1>2, <1>3, <1>4, <1>5 DEF Load

\* The running computations, of which each has its own id.
LEMMA RunningFinite ==
    ASSUME NEW ids, IsFiniteSet(ids), NEW item, \A i \in ids : item[i] \in CoreComp,
           NEW R, R = Running(ids, item)
    PROVE  IsFiniteSet(R) /\ R \subseteq CoreComp
  <1>1. R \subseteq CoreComp
    BY DEF Running
  <1> QED BY <1>1, CoreAssumption, FS_Subset

LEMMA RunningExtended ==
    ASSUME NEW ids, NEW item, NEW n, n \notin ids, NEW c, NEW X, X = ids \cup {n}
    PROVE  Running(X, Started(ids, item, n, c)) = Running(ids, item) \cup {c}
  BY DEF Running, Started

LEMMA RunningWithout ==
    ASSUME NEW ids, NEW item, NEW n \in ids, \A i, j \in ids : item[i] = item[j] => i = j,
           NEW X, X = ids \ {n}
    PROVE  /\ Running(ids, item) = Running(X, item) \cup {item[n]}
           /\ item[n] \notin Running(X, item)
  BY DEF Running

LEMMA EmitIs ==
    ASSUME NEW s, CoreShape(s), NEW next, next = FastPeek(s.model), s.model.activities # {},
           NEW a, a = [id |-> s.nextEventId, time |-> next.time,
                       type |-> "InternalCompFinished", comp |-> next.item]
    PROVE  EmitNextCompletion(s)
             = CoreRecord(s.toRequest, s.clock, s.events \cup {a}, s.nextEventId + 1, s.memory,
                          s.model, s.nextEventId, s.work, s.failed, s.finished, s.panicked)
  <1>1. PICK q, t, E, n, r, m, v, w, f, d, p : s = CoreRecord(q, t, E, n, r, m, v, w, f, d, p)
    BY DEF CoreShape
  <1>2. EmitNextCompletion(s)
          = [EmitAt(s, next.time, "InternalCompFinished", next.item) EXCEPT !.nextEvent = s.nextEventId]
    BY DEF EmitNextCompletion
  <1>3. EmitAt(s, next.time, "InternalCompFinished", next.item)
          = CoreRecord(q, t, E \cup {a}, n + 1, r, m, v, w, f, d, p)
    <2>1. s.events = E /\ s.nextEventId = n
      BY <1>1 DEF CoreRecord
    <2>2. EmitAt(s, next.time, "InternalCompFinished", next.item)
            = [s EXCEPT !.events = E \cup {a}, !.nextEventId = n + 1]
      BY <2>1 DEF EmitAt
    <2>3. PICK b : b = [s EXCEPT !.events = E \cup {a}]
      OBVIOUS
    <2>4. b = CoreRecord(q, t, E \cup {a}, n, r, m, v, w, f, d, p)
      BY ONLY <1>1, <2>3 DEF CoreRecord
    <2>5. [b EXCEPT !.nextEventId = n + 1] = CoreRecord(q, t, E \cup {a}, n + 1, r, m, v, w, f, d, p)
      BY ONLY <2>4 DEF CoreRecord
    <2> QED BY ONLY <2>2, <2>3, <2>5
  <1>4. EmitNextCompletion(s) = CoreRecord(q, t, E \cup {a}, n + 1, r, m, n, w, f, d, p)
    BY <1>1, <1>2, <1>3 DEF CoreRecord
  <1> QED BY <1>1, <1>4 DEF CoreRecord

\* The completion is emitted when only requests are in the queue.
LEMMA EmitRight ==
    ASSUME NEW s, NEW ids, NEW L, NEW item, CoreHalf(s, ids, L, item), s.events = Requests(s),
           NEW u, u = EmitNextCompletion(s)
    PROVE  CoreHalf(u, ids, L, item) /\ CompletionRight(u, ids, L, item)
  <1>1. PICK next : next = s.model.nextId
    OBVIOUS
  <1>2. /\ CoreShape(s) /\ ~ s.panicked /\ Books(ids, L, next)
        /\ FastIs(s.model, ids, L, item, s.clock, next) /\ s.clock \in Nat
        /\ s.work = Works(ids, L) /\ Distinct(s, ids, item) /\ QueueRight(s)
        /\ s.memory = MemoryTotal - Load(Running(ids, item))
    BY <1>1 DEF CoreHalf, CoreBooks
  <1>3. IsFiniteSet(ids) /\ ids \subseteq Nat /\ \A i \in ids : L[i] \in Int
    BY <1>2 DEF Books
  <1>4. s.model.activities = {} <=> ids = {}
    <2>1. PICK F : s.model.activities = Fasts(ids, item, F)
      BY <1>2 DEF FastIs, FastOf, FastRecord
    <2> QED BY <2>1 DEF Fasts
  <1>5. CASE ids = {}
    <2>1. u = s
      BY <1>4, <1>5 DEF EmitNextCompletion
    <2>2. CompletionRight(s, ids, L, item)
      BY <1>5 DEF CompletionRight, IsFirst
    <2> QED BY <2>1, <2>2
  <1>6. CASE ids # {}
    <2>1. PICK i \in ids : IsFirst(ids, L, i)
      BY <1>3, <1>6, FirstExists
    <2>2. FastPeek(s.model) = [item |-> item[i], time |-> s.clock + L[i] \div Each(ids)]
      BY <1>2, <2>1, FastPeekIs
    <2>3. PICK a : a = [id |-> s.nextEventId, time |-> s.clock + L[i] \div Each(ids),
                        type |-> "InternalCompFinished", comp |-> item[i]]
      OBVIOUS
    <2>4. u = CoreRecord(s.toRequest, s.clock, s.events \cup {a}, s.nextEventId + 1, s.memory,
                         s.model, s.nextEventId, s.work, s.failed, s.finished, s.panicked)
      BY <1>2, <1>4, <1>6, <2>2, <2>3, EmitIs
    <2>5. /\ u.toRequest = s.toRequest /\ u.clock = s.clock /\ u.events = s.events \cup {a}
          /\ u.nextEventId = s.nextEventId + 1 /\ u.memory = s.memory /\ u.model = s.model
          /\ u.nextEvent = s.nextEventId /\ u.work = s.work /\ ~ u.panicked /\ CoreShape(u)
      BY <1>2, <2>4 DEF CoreRecord, CoreShape
    <2>6. Requests(u) = Requests(s)
      BY <2>3, <2>5 DEF Requests
    <2>7. CoreBooks(u, ids, L, item) /\ Distinct(u, ids, item)
      <3>1. CoreBooks(u, ids, L, item)
        BY <1>1, <1>2, <2>5 DEF CoreBooks
      <3>2. Distinct(u, ids, item)
        BY <1>2, <2>5, <2>6 DEF Distinct
      <3> QED BY <3>1, <3>2
    <2>8. QueueRight(u)
      <3>1. \A e \in Requests(s) : e \in s.events
        BY DEF Requests
      <3> QED BY <1>2, <2>3, <2>5, <2>6, <3>1 DEF QueueRight
    <2>9. CompletionRight(u, ids, L, item)
      <3>1. u.events \ Requests(u) = {a}
        <4>1. a.type # "CompRequest"
          BY <2>3
        <4> QED BY <2>5, <2>6, <4>1 DEF Requests
      <3>2. a = Ahead(u, ids, L, item, i)
        BY <2>3, <2>5 DEF Ahead
      <3>3. ASSUME NEW j, IsFirst(ids, L, j) PROVE j = i
        BY <1>3, <2>1, <3>3, FirstUnique
      <3> QED BY <1>6, <3>1, <3>2, <3>3 DEF CompletionRight
    <2> QED BY <1>2, <2>5, <2>7, <2>8, <2>9 DEF CoreHalf
  <1> QED BY <1>5, <1>6

\* The clock stays when an event comes at once.
LEMMA AtNow ==
    ASSUME NEW s, NEW ids, NEW L, NEW next, Books(ids, L, next),
           CoreShape(s), s.work = Works(ids, L), s.clock \in Nat
    PROVE  At(s, s.clock) = s
  <1>1. PICK e : e = Each(ids) /\ e \in Nat
    BY ShareTyped
  <1>2. \A i \in ids : L[i] \in Nat
    BY DEF Books
  <1>3. 0 = 0 * e /\ s.clock - s.clock = 0
    BY <1>1
  <1>4. WorkAfter(s.work, 0) = Works(ids, Passed(ids, L, 0))
    BY <1>1, <1>3, WorksPassed DEF Books
  <1>5. Works(ids, Passed(ids, L, 0)) = s.work
    <2> DEFINE K == Passed(ids, L, 0)
    <2>1. \A i \in ids : K[i] = L[i]
      BY <1>2 DEF Passed
    <2> HIDE DEF K
    <2>2. Works(ids, K) = s.work
      BY <2>1 DEF Works
    <2> QED BY <2>2 DEF K
  <1>6. At(s, s.clock) = [s EXCEPT !.clock = s.clock, !.work = s.work]
    BY <1>3, <1>4, <1>5 DEF At
  <1> QED BY ONLY <1>6, CoreShape(s) DEF CoreShape, CoreRecord

LEMMA StartIs ==
    ASSUME NEW s, CoreShape(s), NEW c, NEW u, u = StartOnCore(s, c)
    PROVE  /\ CoreShape(u) /\ u.toRequest = s.toRequest /\ u.clock = s.clock
           /\ u.events = {e \in s.events : e.id # s.nextEvent}
           /\ u.nextEventId = s.nextEventId /\ u.memory = s.memory - CoreMemory[c]
           /\ u.model = FastInsert(s.model, c, CoreFlops[c], s.clock)
           /\ u.nextEvent = s.nextEvent /\ u.panicked = s.panicked
           /\ u.work = s.work \cup {[id |-> s.model.nextId, left |-> CoreFlops[c]]}
  <1> PICK F, m, w, r : /\ F = {e \in s.events : e.id # s.nextEvent}
                        /\ m = FastInsert(s.model, c, CoreFlops[c], s.clock)
                        /\ w = s.work \cup {[id |-> s.model.nextId, left |-> CoreFlops[c]]}
                        /\ r = s.memory - CoreMemory[c]
    OBVIOUS
  <1>1. PICK q, t, E, n, r0, m0, v, w0, f, d, p :
          s = CoreRecord(q, t, E, n, r0, m0, v, w0, f, d, p)
    BY DEF CoreShape
  <1>2. StartOnCore(s, c) = [s EXCEPT !.memory = r, !.events = F, !.model = m, !.work = w]
    BY DEF StartOnCore
  <1>3. PICK a1 : a1 = [s EXCEPT !.memory = r]
    OBVIOUS
  <1>4. PICK a2 : a2 = [a1 EXCEPT !.events = F]
    OBVIOUS
  <1>5. PICK a3 : a3 = [a2 EXCEPT !.model = m]
    OBVIOUS
  <1>6. a1 = CoreRecord(q, t, E, n, r, m0, v, w0, f, d, p)
    BY ONLY <1>1, <1>3 DEF CoreRecord
  <1>7. a2 = CoreRecord(q, t, F, n, r, m0, v, w0, f, d, p)
    BY ONLY <1>6, <1>4 DEF CoreRecord
  <1>8. a3 = CoreRecord(q, t, F, n, r, m, v, w0, f, d, p)
    BY ONLY <1>7, <1>5 DEF CoreRecord
  <1>9. [a3 EXCEPT !.work = w] = CoreRecord(q, t, F, n, r, m, v, w, f, d, p)
    BY ONLY <1>8 DEF CoreRecord
  <1>10. StartOnCore(s, c) = CoreRecord(q, t, F, n, r, m, v, w, f, d, p)
    BY ONLY <1>2, <1>3, <1>4, <1>5, <1>9
  <1> QED BY <1>1, <1>10 DEF CoreRecord, CoreShape

\* There is room for one more computation.
LEMMA RoomLeft ==
    ASSUME NEW ids, IsFiniteSet(ids), NEW item, \A i \in ids : item[i] \in CoreComp,
           \A i, j \in ids : item[i] = item[j] => i = j,
           NEW c \in CoreComp, \A i \in ids : item[i] # c
    PROVE  Cardinality(ids) < Len(PerActivity)
  <1>1. PICK T, f : T = CoreComp \ {c} /\ f = [i \in ids |-> item[i]]
    OBVIOUS
  <1>2. f \in Injection(ids, T)
    BY <1>1 DEF Injection, IsInjective
  <1>3. IsFiniteSet(T) /\ Cardinality(T) = Cardinality(CoreComp) - 1
    BY <1>1, CoreAssumption, FS_RemoveElement
  <1>4. Cardinality(ids) <= Cardinality(T)
    BY <1>2, <1>3, FS_Injection
  <1>5. Cardinality(ids) \in Nat /\ Cardinality(CoreComp) \in Nat /\ Len(PerActivity) \in Nat
    BY CoreAssumption, SharingAssumption, FS_CardinalityType
  <1> QED BY <1>3, <1>4, <1>5, CoreAssumption

\* A computation starts: the completion of another leaves the queue.
LEMMA StartRight ==
    ASSUME NEW s, NEW ids, NEW L, NEW item,
           CoreHalf(s, ids, L, item), CompletionRight(s, ids, L, item),
           NEW c \in CoreComp, c \notin s.toRequest, \A i \in ids : item[i] # c,
           \A e \in Requests(s) : e.comp # c,
           NEW u, u = StartOnCore(s, c)
    PROVE  \E X, K, N : CoreHalf(u, X, K, N) /\ u.events = Requests(u)
  <1>1. PICK next, m, v : next = s.model.nextId /\ m = s.model /\ v = CoreFlops[c]
    OBVIOUS
  <1>2. /\ CoreShape(s) /\ ~ s.panicked /\ Books(ids, L, next)
        /\ FastIs(m, ids, L, item, s.clock, next) /\ s.clock \in Nat
        /\ s.work = Works(ids, L) /\ Distinct(s, ids, item) /\ QueueRight(s)
        /\ s.memory = MemoryTotal - Load(Running(ids, item))
    BY <1>1 DEF CoreHalf, CoreBooks
  <1>3. PICK X, K, N, F, r : /\ X = ids \cup {next} /\ K = Started(ids, L, next, v)
                             /\ N = Started(ids, item, next, c)
                             /\ F = {e \in s.events : e.id # s.nextEvent}
                             /\ r = s.memory - CoreMemory[c]
    OBVIOUS
  <1>4. /\ CoreShape(u) /\ u.toRequest = s.toRequest /\ u.clock = s.clock /\ u.events = F
        /\ u.nextEventId = s.nextEventId /\ u.memory = r /\ u.nextEvent = s.nextEvent
        /\ u.model = FastInsert(m, c, v, s.clock) /\ ~ u.panicked
        /\ u.work = s.work \cup {[id |-> next, left |-> v]}
    BY <1>1, <1>2, <1>3, StartIs
  <1>5. v \in Nat /\ Divisible(v)
    BY <1>1, CoreAssumption
  <1>6. /\ IsFiniteSet(ids) /\ next \notin ids /\ next \in Nat
        /\ \A i \in ids : item[i] \in CoreComp
        /\ \A i, j \in ids : item[i] = item[j] => i = j
    <2>1. IsFiniteSet(ids) /\ next \in Nat /\ ids \subseteq Nat /\ \A i \in ids : i < next
      BY <1>2 DEF Books
    <2>2. /\ \A i \in ids : item[i] \in CoreComp
          /\ \A i, j \in ids : item[i] = item[j] => i = j
      BY <1>2 DEF Distinct
    <2> QED BY <2>1, <2>2
  <1>7. Cardinality(ids) < Len(PerActivity)
    BY <1>6, RoomLeft
  <1>8. Books(X, K, next + 1)
    BY <1>2, <1>3, <1>5, <1>7, BooksStarted
  <1>9. FastIs(u.model, X, K, N, u.clock, next + 1)
    BY <1>2, <1>3, <1>4, <1>5, <1>8, FastInsertIs
  <1>10. u.model.nextId = next + 1
    BY <1>9 DEF FastIs, FastOf, FastRecord
  <1>11. u.work = Works(X, K)
    BY <1>2, <1>3, <1>4, WorksStarted
  <1>12. CoreBooks(u, X, K, N)
    BY <1>2, <1>4, <1>8, <1>9, <1>10, <1>11 DEF CoreBooks
  <1>13. F = Requests(s)
    <2>1. \A e \in Requests(s) : e.id # s.nextEvent
      BY <1>2 DEF QueueRight
    <2>2. ASSUME NEW e \in s.events \ Requests(s) PROVE e.id = s.nextEvent
      <3>1. ids # {} /\ \A i \in ids : L[i] \in Int
        BY <1>2, <2>2 DEF CompletionRight, Books
      <3>2. PICK i \in ids : IsFirst(ids, L, i)
        BY <1>2, <1>6, <3>1, FirstExists DEF Books
      <3>3. e = Ahead(s, ids, L, item, i)
        BY <2>2, <3>2 DEF CompletionRight
      <3> QED BY <3>3 DEF Ahead
    <2>3. Requests(s) \subseteq s.events
      BY DEF Requests
    <2> QED BY <1>3, <2>1, <2>2, <2>3
  <1>14. Requests(u) = Requests(s) /\ u.events = Requests(u)
    BY <1>4, <1>13 DEF Requests
  <1>15. Distinct(u, X, N)
    <2>1. /\ \A i \in ids : N[i] = item[i]
          /\ N[next] = c /\ X = ids \cup {next}
      BY <1>3, <1>6 DEF Started
    <2>2. \A i \in X : N[i] \in CoreComp /\ N[i] \notin u.toRequest
      BY <1>2, <1>4, <2>1 DEF Distinct
    <2>3. \A i, j \in X : N[i] = N[j] => i = j
      BY <1>6, <2>1
    <2>4. \A e \in Requests(s) : \A i \in X : N[i] # e.comp
      BY <1>2, <2>1 DEF Distinct
    <2> QED BY <1>2, <1>4, <1>14, <2>2, <2>3, <2>4 DEF Distinct
  <1>16. QueueRight(u)
    BY <1>2, <1>4, <1>13, <1>14 DEF QueueRight, Requests
  <1>17. u.memory = MemoryTotal - Load(Running(X, N))
    <2>1. PICK R, Q : R = Running(ids, item) /\ Q = R \cup {c}
      OBVIOUS
    <2>2. Running(X, N) = Q
      BY <1>3, <1>6, <2>1, RunningExtended
    <2>3. IsFiniteSet(R) /\ R \subseteq CoreComp /\ c \notin R
      <3>1. IsFiniteSet(R) /\ R \subseteq CoreComp
        BY <1>6, <2>1, RunningFinite
      <3> QED BY <2>1, <3>1 DEF Running
    <2>4. Load(Q) = Load(R) + CoreMemory[c] /\ Load(R) \in Nat /\ CoreMemory[c] \in Nat
      BY <2>1, <2>3, LoadExtended
    <2>5. MemoryTotal \in Int
      BY CoreAssumption
    <2>6. s.memory = MemoryTotal - Load(R) /\ u.memory = s.memory - CoreMemory[c]
      BY <1>2, <1>3, <1>4, <2>1
    <2> QED BY <2>2, <2>4, <2>5, <2>6
  <1> QED BY <1>4, <1>12, <1>14, <1>15, <1>16, <1>17 DEF CoreHalf

\* A request leaves the queue.
Taken(s, e) == [s EXCEPT !.events = @ \ {e}]

LEMMA RequestTaken ==
    ASSUME NEW s, NEW ids, NEW L, NEW item,
           CoreHalf(s, ids, L, item), CompletionRight(s, ids, L, item),
           NEW e \in Requests(s), NEW u, u = Taken(s, e)
    PROVE  /\ CoreHalf(u, ids, L, item) /\ CompletionRight(u, ids, L, item)
           /\ e.comp \in CoreComp /\ e.comp \notin u.toRequest
           /\ \A i \in ids : item[i] # e.comp
           /\ \A f \in Requests(u) : f.comp # e.comp
  <1>1. /\ CoreShape(s) /\ ~ s.panicked /\ CoreBooks(s, ids, L, item)
        /\ Distinct(s, ids, item) /\ QueueRight(s)
        /\ s.memory = MemoryTotal - Load(Running(ids, item))
    BY DEF CoreHalf
  <1>2. /\ CoreShape(u) /\ u.toRequest = s.toRequest /\ u.clock = s.clock
        /\ u.events = s.events \ {e} /\ u.nextEventId = s.nextEventId /\ u.memory = s.memory
        /\ u.model = s.model /\ u.nextEvent = s.nextEvent /\ u.work = s.work
        /\ u.panicked = s.panicked
    BY <1>1 DEF Taken, CoreShape, CoreRecord
  <1>3. /\ Requests(u) = Requests(s) \ {e}
        /\ u.events \ Requests(u) = s.events \ Requests(s)
        /\ s.events = Requests(s) => u.events = Requests(u)
    BY <1>2 DEF Requests
  <1>4. CoreBooks(u, ids, L, item)
    BY <1>1, <1>2 DEF CoreBooks
  <1>5. Distinct(u, ids, item)
    BY <1>1, <1>2, <1>3 DEF Distinct
  <1>6. QueueRight(u)
    BY <1>1, <1>2, <1>3 DEF QueueRight
  <1>7. CompletionRight(u, ids, L, item)
    <2>1. \A i : Ahead(u, ids, L, item, i) = Ahead(s, ids, L, item, i)
      BY <1>2 DEF Ahead
    <2> QED BY <1>3, <2>1 DEF CompletionRight
  <1>8. /\ e.comp \in CoreComp /\ e.comp \notin u.toRequest
        /\ \A i \in ids : item[i] # e.comp
        /\ \A f \in Requests(u) : f.comp # e.comp
    BY <1>1, <1>2, <1>3 DEF Distinct
  <1> QED BY <1>1, <1>2, <1>4, <1>5, <1>6, <1>7, <1>8 DEF CoreHalf

\* A computation is refused, or it starts.
LEMMA RequestKeeps ==
    ASSUME NEW s, NEW ids, NEW L, NEW item,
           CoreHalf(s, ids, L, item), CompletionRight(s, ids, L, item),
           NEW c \in CoreComp, c \notin s.toRequest, \A i \in ids : item[i] # c,
           \A e \in Requests(s) : e.comp # c,
           NEW u, u = OnCompRequest(s, c)
    PROVE  \E X, K, N : CoreHalf(u, X, K, N) /\ CompletionRight(u, X, K, N)
  <1>1. CASE s.memory < CoreMemory[c]
    <2>1. u = [s EXCEPT !.failed = @ \cup {c}]
      BY <1>1 DEF OnCompRequest
    <2>2. /\ CoreShape(s) /\ ~ s.panicked /\ CoreBooks(s, ids, L, item)
          /\ Distinct(s, ids, item) /\ QueueRight(s)
          /\ s.memory = MemoryTotal - Load(Running(ids, item))
      BY DEF CoreHalf
    <2>3. /\ CoreShape(u) /\ u.toRequest = s.toRequest /\ u.clock = s.clock
          /\ u.events = s.events /\ u.nextEventId = s.nextEventId /\ u.memory = s.memory
          /\ u.model = s.model /\ u.nextEvent = s.nextEvent /\ u.work = s.work
          /\ u.panicked = s.panicked
      BY <2>1, <2>2 DEF CoreShape, CoreRecord
    <2>4. Requests(u) = Requests(s) /\ \A i : Ahead(u, ids, L, item, i) = Ahead(s, ids, L, item, i)
      BY <2>3 DEF Requests, Ahead
    <2>5. CoreBooks(u, ids, L, item) /\ Distinct(u, ids, item) /\ QueueRight(u)
      <3>1. CoreBooks(u, ids, L, item)
        BY <2>2, <2>3 DEF CoreBooks
      <3>2. Distinct(u, ids, item)
        BY <2>2, <2>3, <2>4 DEF Distinct
      <3>3. QueueRight(u)
        BY <2>2, <2>3, <2>4 DEF QueueRight
      <3> QED BY <3>1, <3>2, <3>3
    <2>6. CompletionRight(u, ids, L, item)
      BY <2>3, <2>4 DEF CompletionRight
    <2> QED BY <2>2, <2>3, <2>5, <2>6 DEF CoreHalf
  <1>2. CASE ~ (s.memory < CoreMemory[c])
    <2>1. PICK a : a = StartOnCore(s, c)
      OBVIOUS
    <2>2. u = EmitNextCompletion(a)
      BY <1>2, <2>1 DEF OnCompRequest
    <2>3. PICK X, K, N : CoreHalf(a, X, K, N) /\ a.events = Requests(a)
      BY <2>1, StartRight
    <2> QED BY <2>2, <2>3, EmitRight
  <1> QED BY <1>1, <1>2

\* What a completion changes, but for the one that follows.
CompletionTaken(s, c, time, left) ==
    CoreRecord(s.toRequest, time, Requests(s), s.nextEventId, s.memory + CoreMemory[c],
               FastPop(s.model), s.nextEvent, left, s.failed, s.finished \cup {c}, s.panicked)

LEMMA CompletionTakenRight ==
    ASSUME NEW s, NEW ids, NEW L, NEW item, CoreHalf(s, ids, L, item),
           NEW i, IsFirst(ids, L, i), NEW time, time = s.clock + L[i] \div Each(ids),
           Requests(s) # {} => time = s.clock,
           NEW X, X = ids \ {i}, NEW K, K = Passed(ids, L, L[i]),
           NEW c, c = item[i], NEW w, w = Works(X, K), NEW u, u = CompletionTaken(s, c, time, w)
    PROVE  CoreHalf(u, X, K, item) /\ u.events = Requests(u)
  <1>1. PICK next, m : next = s.model.nextId /\ m = s.model
    OBVIOUS
  <1>2. /\ CoreShape(s) /\ ~ s.panicked /\ Books(ids, L, next)
        /\ FastIs(m, ids, L, item, s.clock, next) /\ s.clock \in Nat
        /\ s.work = Works(ids, L) /\ Distinct(s, ids, item) /\ QueueRight(s)
        /\ s.memory = MemoryTotal - Load(Running(ids, item))
    BY <1>1 DEF CoreHalf, CoreBooks
  <1>3. /\ CoreShape(u) /\ u.toRequest = s.toRequest /\ u.clock = time
        /\ u.events = Requests(s) /\ u.nextEventId = s.nextEventId
        /\ u.memory = s.memory + CoreMemory[c] /\ u.model = FastPop(m)
        /\ u.nextEvent = s.nextEvent /\ u.work = Works(X, K) /\ ~ u.panicked
    BY <1>1, <1>2 DEF CompletionTaken, CoreRecord, CoreShape
  <1>4. Requests(u) = Requests(s) /\ u.events = Requests(u)
    BY <1>3 DEF Requests
  <1>5. CoreBooks(u, X, K, item)
    <2>1. L[i] \div Each(ids) \in Nat
      BY <1>2, FirstEnds
    <2>2. time \in Nat
      BY <1>2, <2>1
    <2>3. Books(X, K, next)
      BY <1>2, BooksEnded
    <2>4. FastIs(u.model, X, K, item, time, next)
      BY <1>2, <1>3, FastPopIs
    <2>5. u.model.nextId = next
      BY <2>4 DEF FastIs, FastOf, FastRecord
    <2> QED BY <1>3, <2>2, <2>3, <2>4, <2>5 DEF CoreBooks
  <1>6. Distinct(u, X, item)
    <2>1. Distinct(s, ids, item) /\ u.toRequest = s.toRequest /\ Requests(u) = Requests(s)
          /\ X = ids \ {i}
      BY <1>2, <1>3, <1>4
    <2> QED BY ONLY <2>1 DEF Distinct
  <1>7. QueueRight(u)
    <2>1. \A e \in Requests(s) : e \in s.events
      BY DEF Requests
    <2>2. \A e \in Requests(s) : e.time = time
      BY <1>2 DEF QueueRight
    <2> QED BY <1>2, <1>3, <1>4, <2>1, <2>2 DEF QueueRight
  <1>8. u.memory = MemoryTotal - Load(Running(X, item))
    <2>1. PICK R, Q : R = Running(X, item) /\ Q = R \cup {c}
      OBVIOUS
    <2>2. i \in ids /\ IsFiniteSet(ids) /\ IsFiniteSet(X)
      <3>1. i \in ids /\ IsFiniteSet(ids)
        BY <1>2 DEF IsFirst, Books
      <3> QED BY <3>1, FS_Subset
    <2>3. /\ \A j \in X : item[j] \in CoreComp
          /\ c \in CoreComp /\ \A j, k \in ids : item[j] = item[k] => j = k
      BY <1>2, <2>2 DEF Distinct
    <2>4. Running(ids, item) = Q /\ c \notin R
      <3>1. /\ i \in ids /\ X = ids \ {i} /\ R = Running(X, item) /\ Q = R \cup {item[i]}
            /\ c = item[i] /\ \A j, k \in ids : item[j] = item[k] => j = k
        BY <2>1, <2>2, <2>3
      <3> QED BY ONLY <3>1, RunningWithout
    <2>5. IsFiniteSet(R) /\ R \subseteq CoreComp
      BY <2>1, <2>2, <2>3, RunningFinite
    <2>6. Load(Q) = Load(R) + CoreMemory[c] /\ Load(R) \in Nat /\ CoreMemory[c] \in Nat
      BY <2>1, <2>3, <2>4, <2>5, LoadExtended
    <2>7. MemoryTotal \in Int
      BY CoreAssumption
    <2>8. s.memory = MemoryTotal - Load(Q) /\ u.memory = s.memory + CoreMemory[c]
      BY <1>2, <1>3, <2>4
    <2> QED BY <2>1, <2>6, <2>7, <2>8
  <1> QED BY <1>3, <1>4, <1>5, <1>6, <1>7, <1>8 DEF CoreHalf

LEMMA CoreInit ==
    ASSUME NEW comps \in SUBSET CoreComp, core = NewCore(comps)
    PROVE  CoreInv
  <1>1. PICK L : L = [i \in {} |-> 0]
    OBVIOUS
  <1>2. /\ CoreShape(core) /\ core.toRequest = comps /\ core.clock = 0 /\ core.events = {}
        /\ core.nextEventId = 1 /\ core.memory = MemoryTotal /\ core.model = NewFast
        /\ core.nextEvent = 0 /\ core.work = {} /\ ~ core.panicked
    BY DEF NewCore, CoreShape, CoreRecord
  <1>3. Books({}, L, 0)
    BY BooksEmpty
  <1>4. Each({}) = 0
    BY FS_EmptySet DEF Each, Share
  <1>5. /\ Finishes({}, L, L, 0, 0, 0) /\ Fasts({}, L, L) = {} /\ Works({}, L) = {}
        /\ Running({}, L) = {}
    BY DEF Finishes, Fasts, Works, Running
  <1>6. FastIs(NewFast, {}, L, L, 0, 0)
    <2>1. NewFast = FastOf({}, L, L, 0, 0, 0)
      BY <1>4, <1>5 DEF NewFast, FastOf, FastRecord
    <2> QED BY <1>5, <2>1 DEF FastIs
  <1>7. CoreBooks(core, {}, L, L)
    <2>1. NewFast.nextId = 0
      BY DEF NewFast
    <2> QED BY <1>2, <1>3, <1>5, <1>6, <2>1 DEF CoreBooks
  <1>8. Requests(core) = {} /\ Distinct(core, {}, L) /\ QueueRight(core)
    BY <1>2 DEF Requests, Distinct, QueueRight
  <1>9. core.memory = MemoryTotal - Load({})
    <2>1. PICK f : f = [c \in {} |-> CoreMemory[c]]
      OBVIOUS
    <2>2. f \in [{} -> Nat] /\ IsFiniteSet({})
      BY <2>1, FS_EmptySet
    <2>3. SumFunction(f) = 0
      BY <2>2, SumOfZeros
    <2> QED BY <1>2, <2>1, <2>3, CoreAssumption DEF Load
  <1>10. CompletionRight(core, {}, L, L)
    BY <1>2, <1>8 DEF CompletionRight, IsFirst
  <1>11. CoreHalf(core, {}, L, L)
    BY <1>2, <1>5, <1>7, <1>8, <1>9 DEF CoreHalf
  <1> QED BY <1>10, <1>11 DEF CoreInv

RunOn(s, c) == [EmitAt(s, s.clock, "CompRequest", c) EXCEPT !.toRequest = @ \ {c}]

LEMMA RunIs ==
    ASSUME NEW s, CoreShape(s), NEW c, NEW a,
           a = [id |-> s.nextEventId, time |-> s.clock, type |-> "CompRequest", comp |-> c],
           NEW u, u = RunOn(s, c)
    PROVE  /\ CoreShape(u) /\ u.toRequest = s.toRequest \ {c} /\ u.clock = s.clock
           /\ u.events = s.events \cup {a} /\ u.nextEventId = s.nextEventId + 1
           /\ u.memory = s.memory /\ u.model = s.model /\ u.nextEvent = s.nextEvent
           /\ u.work = s.work /\ u.panicked = s.panicked
  <1>1. PICK q, t, E, n, r, m, v, w, f, d, p : s = CoreRecord(q, t, E, n, r, m, v, w, f, d, p)
    BY DEF CoreShape
  <1>2. s.events = E /\ s.nextEventId = n /\ s.toRequest = q
    BY <1>1 DEF CoreRecord
  <1>3. PICK g : g = EmitAt(s, s.clock, "CompRequest", c)
    OBVIOUS
  <1>4. g = [s EXCEPT !.events = E \cup {a}, !.nextEventId = n + 1]
    BY <1>2, <1>3 DEF EmitAt
  <1>5. PICK b : b = [s EXCEPT !.events = E \cup {a}]
    OBVIOUS
  <1>6. b = CoreRecord(q, t, E \cup {a}, n, r, m, v, w, f, d, p)
    BY ONLY <1>1, <1>5 DEF CoreRecord
  <1>7. [b EXCEPT !.nextEventId = n + 1] = CoreRecord(q, t, E \cup {a}, n + 1, r, m, v, w, f, d, p)
    BY ONLY <1>6 DEF CoreRecord
  <1>8. g = CoreRecord(q, t, E \cup {a}, n + 1, r, m, v, w, f, d, p)
    BY ONLY <1>4, <1>5, <1>7
  <1>9. u = [g EXCEPT !.toRequest = @ \ {c}]
    BY <1>3 DEF RunOn
  <1>10. u = CoreRecord(q \ {c}, t, E \cup {a}, n + 1, r, m, v, w, f, d, p)
    BY ONLY <1>8, <1>9 DEF CoreRecord
  <1> QED BY ONLY <1>1, <1>10 DEF CoreRecord, CoreShape

LEMMA RunKeeps ==
    ASSUME CoreInv, NEW c \in core.toRequest, RunComputation(c)
    PROVE  CoreInv'
  <1>1. PICK ids, L, item : CoreHalf(core, ids, L, item) /\ CompletionRight(core, ids, L, item)
    BY DEF CoreInv
  <1>2. PICK s, u, a : /\ s = core /\ u = core'
                       /\ a = [id |-> s.nextEventId, time |-> s.clock, type |-> "CompRequest",
                               comp |-> c]
    OBVIOUS
  <1>3. /\ CoreShape(s) /\ ~ s.panicked /\ CoreBooks(s, ids, L, item)
        /\ Distinct(s, ids, item) /\ QueueRight(s)
        /\ s.memory = MemoryTotal - Load(Running(ids, item))
    BY <1>1, <1>2 DEF CoreHalf
  <1>4. /\ CoreShape(u) /\ u.toRequest = s.toRequest \ {c} /\ u.clock = s.clock
        /\ u.events = s.events \cup {a} /\ u.nextEventId = s.nextEventId + 1
        /\ u.memory = s.memory /\ u.model = s.model /\ u.nextEvent = s.nextEvent
        /\ u.work = s.work /\ u.panicked = s.panicked
    <2>1. u = RunOn(s, c)
      BY <1>2 DEF RunComputation, RunOn
    <2> QED BY <1>2, <1>3, <2>1, RunIs
  <1>5. Requests(u) = Requests(s) \cup {a} /\ u.events \ Requests(u) = s.events \ Requests(s)
        /\ (s.events = Requests(s) => u.events = Requests(u))
    <2>1. a.type = "CompRequest"
      BY <1>2
    <2> QED BY <1>4, <2>1 DEF Requests
  <1>6. CoreBooks(u, ids, L, item)
    BY <1>3, <1>4 DEF CoreBooks
  <1>7. Distinct(u, ids, item)
    <2>1. c \in s.toRequest /\ c \in CoreComp /\ a.comp = c
      BY <1>2, <1>3 DEF Distinct
    <2>2. \A e, f \in Requests(u) : e.comp = f.comp => e = f
      <3>1. \A e \in Requests(s) : e.comp # c
        BY <1>3, <2>1 DEF Distinct
      <3>2. \A e, f \in Requests(s) : e.comp = f.comp => e = f
        BY <1>3 DEF Distinct
      <3> QED BY <1>5, <2>1, <3>1, <3>2
    <2> QED BY <1>3, <1>4, <1>5, <2>1, <2>2 DEF Distinct
  <1>8. QueueRight(u)
    <2>1. a.id = s.nextEventId /\ a.time = s.clock
      BY <1>2
    <2> QED BY <1>3, <1>4, <1>5, <2>1 DEF QueueRight
  <1>9. CompletionRight(u, ids, L, item)
    <2>1. \A i : Ahead(u, ids, L, item, i) = Ahead(s, ids, L, item, i)
      BY <1>4 DEF Ahead
    <2>2. CompletionRight(s, ids, L, item)
      BY <1>1, <1>2
    <2> QED BY <1>5, <2>1, <2>2 DEF CompletionRight
  <1>10. CoreHalf(u, ids, L, item)
    BY <1>3, <1>4, <1>6, <1>7, <1>8 DEF CoreHalf
  <1> QED BY <1>2, <1>9, <1>10 DEF CoreInv

\* Delivered, but for what is emitted then.
Reached(s, e) == [At(s, e.time) EXCEPT !.events = @ \ {e}]

Over(s, c, work) ==
    [s EXCEPT !.memory = @ + CoreMemory[c], !.model = FastPop(@),
              !.work = work, !.finished = @ \cup {c}]

LEMMA ReachedIs ==
    ASSUME NEW s, CoreShape(s), NEW e, NEW time, time = e.time,
           NEW w, w = WorkAfter(s.work, time - s.clock), NEW F, F = s.events \ {e}
    PROVE  Reached(s, e) = CoreRecord(s.toRequest, time, F, s.nextEventId, s.memory, s.model,
                                      s.nextEvent, w, s.failed, s.finished, s.panicked)
  <1>1. PICK q, t, E, n, r, m, v, w0, f, d, p : s = CoreRecord(q, t, E, n, r, m, v, w0, f, d, p)
    BY DEF CoreShape
  <1>2. s.events = E
    BY <1>1 DEF CoreRecord
  <1>3. At(s, e.time) = [s EXCEPT !.clock = time, !.work = w]
    BY DEF At
  <1>4. PICK a : a = [s EXCEPT !.clock = time]
    OBVIOUS
  <1>5. PICK b : b = [a EXCEPT !.work = w]
    OBVIOUS
  <1>6. a = CoreRecord(q, time, E, n, r, m, v, w0, f, d, p)
    BY ONLY <1>1, <1>4 DEF CoreRecord
  <1>7. b = CoreRecord(q, time, E, n, r, m, v, w, f, d, p)
    BY ONLY <1>6, <1>5 DEF CoreRecord
  <1>8. Reached(s, e) = [b EXCEPT !.events = @ \ {e}]
    BY ONLY <1>3, <1>4, <1>5 DEF Reached
  <1>9. Reached(s, e) = CoreRecord(q, time, E \ {e}, n, r, m, v, w, f, d, p)
    BY ONLY <1>7, <1>8 DEF CoreRecord
  <1> QED BY <1>1, <1>2, <1>9 DEF CoreRecord

LEMMA OverIs ==
    ASSUME NEW s, CoreShape(s), NEW c, NEW w
    PROVE  Over(s, c, w)
             = CoreRecord(s.toRequest, s.clock, s.events, s.nextEventId, s.memory + CoreMemory[c],
                          FastPop(s.model), s.nextEvent, w, s.failed, s.finished \cup {c}, s.panicked)
  <1> PICK q, t, E, n, r, m, v, w0, f, d, p : s = CoreRecord(q, t, E, n, r, m, v, w0, f, d, p)
    BY DEF CoreShape
  <1>1. PICK r1, m1, d1 : r1 = r + CoreMemory[c] /\ m1 = FastPop(m) /\ d1 = d \cup {c}
    OBVIOUS
  <1>2. /\ s.toRequest = q /\ s.clock = t /\ s.events = E /\ s.nextEventId = n /\ s.memory = r
        /\ s.model = m /\ s.nextEvent = v /\ s.failed = f /\ s.finished = d /\ s.panicked = p
    BY DEF CoreRecord
  <1>3. Over(s, c, w) = [s EXCEPT !.memory = r1, !.model = m1, !.work = w, !.finished = d1]
    BY <1>1, <1>2 DEF Over
  <1>4. PICK a1 : a1 = [s EXCEPT !.memory = r1]
    OBVIOUS
  <1>5. PICK a2 : a2 = [a1 EXCEPT !.model = m1]
    OBVIOUS
  <1>6. PICK a3 : a3 = [a2 EXCEPT !.work = w]
    OBVIOUS
  <1>7. s = CoreRecord(q, t, E, n, r, m, v, w0, f, d, p)
    OBVIOUS
  <1>8. a1 = CoreRecord(q, t, E, n, r1, m, v, w0, f, d, p)
    BY ONLY <1>4, <1>7 DEF CoreRecord
  <1>9. a2 = CoreRecord(q, t, E, n, r1, m1, v, w0, f, d, p)
    BY ONLY <1>5, <1>8 DEF CoreRecord
  <1>10. a3 = CoreRecord(q, t, E, n, r1, m1, v, w, f, d, p)
    BY ONLY <1>6, <1>9 DEF CoreRecord
  <1>11. [a3 EXCEPT !.finished = d1] = CoreRecord(q, t, E, n, r1, m1, v, w, f, d1, p)
    BY ONLY <1>10 DEF CoreRecord
  <1>12. Over(s, c, w) = CoreRecord(q, t, E, n, r1, m1, v, w, f, d1, p)
    BY ONLY <1>3, <1>4, <1>5, <1>6, <1>11
  <1> QED BY ONLY <1>1, <1>2, <1>12

\* A request is delivered at the time it was made.
LEMMA RequestDelivered ==
    ASSUME CoreInv, NEW e \in Requests(core), Deliver(e)
    PROVE  CoreInv'
  <1>1. PICK ids, L, item : CoreHalf(core, ids, L, item) /\ CompletionRight(core, ids, L, item)
    BY DEF CoreInv
  <1>2. PICK a, s, u : a = core /\ u = core' /\ s = Taken(a, e)
    OBVIOUS
  <1>3. /\ CoreShape(a) /\ a.clock \in Nat /\ Books(ids, L, a.model.nextId)
        /\ a.work = Works(ids, L) /\ e.time = a.clock /\ e.type = "CompRequest"
    BY <1>1, <1>2 DEF CoreHalf, CoreBooks, QueueRight, Requests
  <1>4. At(a, a.clock) = a
    BY <1>3, AtNow
  <1>5. [At(core, e.time) EXCEPT !.events = @ \ {e}] = s
    BY ONLY <1>2, <1>3, <1>4 DEF Taken
  <1>6. u = OnCompRequest(s, e.comp)
    BY <1>2, <1>3, <1>5 DEF Deliver
  <1>7. /\ CoreHalf(s, ids, L, item) /\ CompletionRight(s, ids, L, item)
        /\ e.comp \in CoreComp /\ e.comp \notin s.toRequest
        /\ \A i \in ids : item[i] # e.comp
        /\ \A f \in Requests(s) : f.comp # e.comp
    BY <1>1, <1>2, RequestTaken
  <1>8. PICK X, K, N : CoreHalf(u, X, K, N) /\ CompletionRight(u, X, K, N)
    BY <1>6, <1>7, RequestKeeps
  <1> QED BY <1>2, <1>8 DEF CoreInv

\* The completion is that of the first to end, at the time it ends.
LEMMA CompletionDelivered ==
    ASSUME CoreInv, NEW e \in core.events, e \notin Requests(core), Deliver(e)
    PROVE  CoreInv'
  <1>1. PICK ids, L, item : CoreHalf(core, ids, L, item) /\ CompletionRight(core, ids, L, item)
    BY DEF CoreInv
  <1>2. PICK a, u, next, m : a = core /\ u = core' /\ next = a.model.nextId /\ m = a.model
    OBVIOUS
  <1>3. /\ CoreShape(a) /\ ~ a.panicked /\ Books(ids, L, next)
        /\ FastIs(m, ids, L, item, a.clock, next) /\ a.clock \in Nat
        /\ a.work = Works(ids, L) /\ QueueRight(a)
    BY <1>1, <1>2 DEF CoreHalf, CoreBooks
  <1>4. IsFiniteSet(ids) /\ ids \subseteq Nat /\ \A i \in ids : L[i] \in Int
    BY <1>3 DEF Books
  <1>5. PICK i \in ids : IsFirst(ids, L, i)
    <2>1. ids # {}
      BY <1>1 DEF CompletionRight
    <2> QED BY <1>4, <2>1, FirstExists
  <1>6. a.events \ Requests(a) = {e} /\ e = Ahead(a, ids, L, item, i)
    <2>1. a.events \ Requests(a) = {Ahead(a, ids, L, item, i)}
      BY <1>1, <1>2, <1>5 DEF CompletionRight
    <2> QED BY <1>2, <2>1
  <1>7. PICK t, time, c, X, K : /\ t = L[i] \div Each(ids) /\ time = a.clock + t /\ c = item[i]
                                /\ X = ids \ {i} /\ K = Passed(ids, L, L[i])
    OBVIOUS
  <1>8. t \in Nat /\ t * Each(ids) = L[i] /\ time \in Nat /\ time - a.clock = t
    <2>1. t \in Nat /\ t * Each(ids) = L[i]
      BY <1>3, <1>5, <1>7, FirstEnds
    <2> QED BY <1>3, <1>7, <2>1
  <1>9. e.time = time /\ e.comp = c /\ e.type # "CompRequest"
    BY <1>6, <1>7 DEF Ahead
  <1>10. WorkAfter(a.work, time - a.clock) = Works(ids, K)
    BY <1>3, <1>4, <1>7, <1>8, WorksPassed
  <1>11. a.events \ {e} = Requests(a)
    <2>1. Requests(a) \subseteq a.events
      BY DEF Requests
    <2> QED BY <1>6, <2>1
  <1>12. PICK s : s = Reached(a, e)
    OBVIOUS
  <1>13. s = CoreRecord(a.toRequest, time, Requests(a), a.nextEventId, a.memory, m, a.nextEvent,
                        Works(ids, K), a.failed, a.finished, a.panicked)
    BY <1>2, <1>3, <1>9, <1>10, <1>11, <1>12, ReachedIs
  <1>14. s.model = m /\ s.work = Works(ids, K)
    BY <1>13 DEF CoreRecord
  <1>15. /\ s.model.activities # {} /\ FastPeek(s.model).item = c
         /\ FirstBy(s.model.activities, FinishWork).id = i
    <2>1. PICK F : m.activities = Fasts(ids, item, F)
      BY <1>3 DEF FastIs, FastOf, FastRecord
    <2>2. m.activities # {}
      BY <1>5, <2>1 DEF Fasts
    <2>3. /\ FastPeek(m) = [item |-> item[i], time |-> a.clock + L[i] \div Each(ids)]
          /\ FirstBy(m.activities, FinishWork).id = i
      BY <1>3, <1>5, FastPeekIs
    <2> QED BY <1>7, <1>14, <2>2, <2>3
  <1>16. {x \in s.work : x.id # i} = Works(X, K)
    <2>1. {x \in Works(ids, K) : x.id # i} = Works(X, K)
      <3>1. X = ids \ {i}
        BY <1>7
      <3> QED BY ONLY <3>1 DEF Works
    <2> QED BY <1>14, <2>1
  <1>17. u = OnInternalCompFinished(s, c)
    BY <1>2, <1>9, <1>12 DEF Deliver, Reached
  <1>18. PICK w, g : w = Works(X, K) /\ g = CompletionTaken(a, c, time, w)
    OBVIOUS
  <1>19. u = EmitNextCompletion(Over(s, c, w))
    BY <1>15, <1>16, <1>17, <1>18 DEF OnInternalCompFinished, Over
  <1>20. Over(s, c, w) = g
    <2>1. /\ CoreShape(s) /\ s.toRequest = a.toRequest /\ s.clock = time /\ s.events = Requests(a)
          /\ s.nextEventId = a.nextEventId /\ s.memory = a.memory /\ s.nextEvent = a.nextEvent
          /\ s.failed = a.failed /\ s.finished = a.finished /\ s.panicked = a.panicked
      BY ONLY <1>13 DEF CoreRecord, CoreShape
    <2>2. Over(s, c, w)
            = CoreRecord(a.toRequest, time, Requests(a), a.nextEventId, a.memory + CoreMemory[c],
                         FastPop(m), a.nextEvent, w, a.failed, a.finished \cup {c}, a.panicked)
      BY ONLY <1>14, <2>1, OverIs
    <2> QED BY ONLY <1>2, <1>18, <2>2 DEF CompletionTaken
  <1>21. Requests(a) # {} => time = a.clock
    <2> SUFFICES ASSUME NEW f \in Requests(a) PROVE time = a.clock
      OBVIOUS
    <2>1. f \in core.events /\ f.time = a.clock
      BY <1>2, <1>3 DEF QueueRight, Requests
    <2>2. e.time < f.time \/ e.time = f.time
      BY <2>1 DEF Deliver
    <2> QED BY <1>3, <1>7, <1>8, <1>9, <2>1, <2>2
  <1>22. CoreHalf(g, X, K, item) /\ g.events = Requests(g)
    <2>1. /\ time = a.clock + L[i] \div Each(ids) /\ CoreHalf(a, ids, L, item)
          /\ IsFirst(ids, L, i) /\ X = ids \ {i} /\ K = Passed(ids, L, L[i]) /\ c = item[i]
          /\ Requests(a) # {} => time = a.clock
          /\ w = Works(X, K) /\ g = CompletionTaken(a, c, time, w)
      BY <1>1, <1>2, <1>5, <1>7, <1>18, <1>21
    <2> QED BY ONLY <2>1, CompletionTakenRight
  <1>23. CoreHalf(u, X, K, item) /\ CompletionRight(u, X, K, item)
    BY <1>19, <1>20, <1>22, EmitRight
  <1> QED BY <1>2, <1>23 DEF CoreInv

LEMMA DeliverKeeps ==
    ASSUME CoreInv, NEW e \in core.events, Deliver(e)
    PROVE  CoreInv'
  BY RequestDelivered, CompletionDelivered

\* No time passes while a request waits, and none ends that is not announced.
LEMMA RequesterKeeps ==
    ASSUME CoreInv, RequesterWaits
    PROVE  CoreInv'
  <1>1. PICK ids, L, item : CoreHalf(core, ids, L, item) /\ CompletionRight(core, ids, L, item)
    BY DEF CoreInv
  <1>2. PICK a, u, next, m : a = core /\ u = core' /\ next = a.model.nextId /\ m = a.model
    OBVIOUS
  <1>3. /\ CoreShape(a) /\ ~ a.panicked /\ Books(ids, L, next)
        /\ FastIs(m, ids, L, item, a.clock, next) /\ a.clock \in Nat
        /\ a.work = Works(ids, L) /\ Distinct(a, ids, item) /\ QueueRight(a)
        /\ a.memory = MemoryTotal - Load(Running(ids, item))
    BY <1>1, <1>2 DEF CoreHalf, CoreBooks
  <1>4. IsFiniteSet(ids) /\ ids \subseteq Nat /\ \A i \in ids : L[i] \in Int
    BY <1>3 DEF Books
  <1>5. Pause \in Nat /\ \A n \in DOMAIN PerActivity : Divisible(Pause * PerActivity[n])
    BY CoreAssumption
  <1>6. PICK n, s : n = Each(ids) /\ n \in Nat /\ s = a.clock + Pause
    BY <1>3, ShareTyped
  <1>7. PICK d, K : d = Pause * n /\ K = Passed(ids, L, d)
    OBVIOUS
  <1>8. s \in Nat /\ s - a.clock = Pause /\ d \in Int
    BY <1>3, <1>5, <1>6, <1>7
  <1>9. /\ CoreShape(u) /\ u.toRequest = a.toRequest /\ u.clock = s /\ u.events = a.events
        /\ u.nextEventId = a.nextEventId /\ u.memory = a.memory /\ u.model = m
        /\ u.nextEvent = a.nextEvent /\ u.work = WorkAfter(a.work, Pause)
        /\ u.panicked = a.panicked
    <2>1. u = At(a, s)
      BY <1>2, <1>6 DEF RequesterWaits
    <2>2. u = [a EXCEPT !.clock = s, !.work = WorkAfter(a.work, Pause)]
      BY <1>8, <2>1 DEF At
    <2> QED BY <1>2, <1>3, <2>2 DEF CoreShape, CoreRecord
  <1>10. u.work = Works(ids, K)
    BY <1>3, <1>4, <1>6, <1>7, <1>9, WorksPassed
  <1>11. ASSUME NEW i \in ids, IsFirst(ids, L, i)
         PROVE  /\ Pause <= L[i] \div n /\ L[i] \div n \in Nat
                /\ K[i] \div n = (L[i] \div n) - Pause
    <2>1. PICK t : t = L[i] \div n /\ t \in Nat
      BY <1>3, <1>6, <1>11, FirstEnds
    <2>2. PICK e : e = Ahead(a, ids, L, item, i)
      OBVIOUS
    <2>3. e \in core.events /\ e.time = a.clock + t
      <3>1. e.time = a.clock + t
        BY <1>6, <2>1, <2>2 DEF Ahead
      <3>2. a.events \ Requests(a) = {e}
        BY <1>1, <1>2, <1>11, <2>2 DEF CompletionRight
      <3> QED BY <1>2, <3>1, <3>2
    <2>4. core.clock + Pause <= e.time
      BY <2>3 DEF RequesterWaits
    <2>5. Pause <= t
      BY <1>2, <1>3, <1>5, <2>1, <2>3, <2>4
    <2>6. n \in Nat \ {0} /\ L[i] % n = 0 /\ L[i] \in Int
      BY <1>3, <1>4, <1>6, <1>11, ShareTyped
    <2>7. K[i] = L[i] + (- Pause) * n
      <3>1. K[i] = L[i] - Pause * n
        BY <1>7 DEF Passed
      <3> QED BY <1>5, <1>6, <2>6, <3>1
    <2>8. (L[i] + (- Pause) * n) \div n = L[i] \div n + (- Pause)
      <3>1. - Pause \in Int
        BY <1>5
      <3> QED BY <2>6, <3>1, QuotientOfSum
    <2> QED BY <1>5, <2>1, <2>5, <2>7, <2>8
  <1>12. \A j \in ids : Pause <= L[j] \div n
    <2> SUFFICES ASSUME NEW j \in ids PROVE Pause <= L[j] \div n
      OBVIOUS
    <2>1. PICK i \in ids : IsFirst(ids, L, i)
      BY <1>4, FirstExists
    <2>2. L[i] <= L[j] /\ L[i] \in Int /\ L[j] \in Int
      BY <1>3, <1>4, <2>1, FirstEnds
    <2>3. n \in Nat \ {0}
      BY <1>3, <1>6, ShareTyped
    <2>4. L[i] \div n <= L[j] \div n /\ L[i] \div n \in Int /\ L[j] \div n \in Int
      BY <2>2, <2>3, QuotientsOrdered
    <2>5. Pause <= L[i] \div n
      BY <1>11, <2>1
    <2> QED BY <1>5, <2>4, <2>5
  <1>13. Books(ids, K, next)
    BY <1>3, <1>5, <1>6, <1>7, <1>12, BooksWaited
  <1>14. FastIs(m, ids, K, item, s, next)
    BY <1>3, <1>5, <1>6, <1>7, FastPassedIs
  <1>15. CoreBooks(u, ids, K, item)
    BY <1>2, <1>8, <1>9, <1>10, <1>13, <1>14 DEF CoreBooks
  <1>16. Requests(u) = Requests(a) /\ \A e \in Requests(a) : e \in core.events
    BY <1>2, <1>9 DEF Requests
  <1>17. Distinct(u, ids, item)
    BY <1>3, <1>9, <1>16 DEF Distinct
  <1>18. QueueRight(u)
    <2>1. ASSUME NEW e \in Requests(a) PROVE e.time = s
      <3>1. e.time = a.clock /\ core.clock + Pause <= e.time
        BY <1>3, <1>16 DEF QueueRight, RequesterWaits
      <3> QED BY <1>2, <1>3, <1>5, <1>6, <3>1
    <2> QED BY <1>3, <1>9, <1>16, <2>1 DEF QueueRight
  <1>19. CompletionRight(u, ids, K, item)
    <2>1. ids = {} => u.events = Requests(u)
      BY <1>1, <1>2, <1>9, <1>16 DEF CompletionRight
    <2>2. ASSUME NEW i, IsFirst(ids, K, i)
          PROVE  u.events \ Requests(u) = {Ahead(u, ids, K, item, i)}
      <3>1. IsFirst(ids, L, i)
        BY <1>4, <1>7, <1>8, <2>2, FirstPassed
      <3>2. i \in ids
        BY <3>1 DEF IsFirst
      <3>3. u.clock + K[i] \div n = a.clock + L[i] \div n
        BY <1>3, <1>5, <1>6, <1>9, <1>11, <3>1, <3>2
      <3>4. Ahead(u, ids, K, item, i) = Ahead(a, ids, L, item, i)
        BY <1>6, <1>9, <3>3 DEF Ahead
      <3>5. a.events \ Requests(a) = {Ahead(a, ids, L, item, i)}
        BY <1>1, <1>2, <3>1 DEF CompletionRight
      <3> QED BY <1>9, <1>16, <3>4, <3>5
    <2> QED BY <2>1, <2>2 DEF CompletionRight
  <1>20. CoreHalf(u, ids, K, item)
    BY <1>3, <1>9, <1>15, <1>17, <1>18 DEF CoreHalf
  <1> QED BY <1>2, <1>19, <1>20 DEF CoreInv

LEMMA CoreKeeps ==
    ASSUME CoreInv, CoreStep
    PROVE  CoreInv'
  BY RunKeeps, DeliverKeeps, RequesterKeeps DEF CoreStep

\* A sum over a set is the sum of a function.
LEMMA LoadIsSum ==
    ASSUME NEW R, IsFiniteSet(R), R \subseteq CoreComp
    PROVE  MapThenSumSet(LAMBDA c : CoreMemory[c], R) = Load(R)
  <1> DEFINE step(g) == [s \in SUBSET R |->
                IF s = {} THEN 0
                ELSE CoreMemory[CHOOSE y \in s : TRUE] + g[s \ {CHOOSE y \in s : TRUE}]]
             iter == CHOOSE g : g = step(g)
  <1>1. MapThenSumSet(LAMBDA c : CoreMemory[c], R) = iter[R]
    BY DEF MapThenSumSet, MapThenFoldSet
  <1>2. PICK f : f = [c \in R |-> CoreMemory[c]]
    OBVIOUS
  <1>3. f \in [R -> Nat]
    BY <1>2, CoreAssumption
  <1>4. \A g : step(g) = SumStep(f, R, g)
    BY <1>2 DEF SumStep
  <1>5. PICK count : count = [s \in SUBSET R |-> Cardinality(UnitsOf(f, s))]
    OBVIOUS
  <1>6. count = SumStep(f, R, count)
    BY <1>3, <1>5, SumStepCounts
  <1>7. iter = step(iter)
    <2>1. count = step(count)
      BY <1>4, <1>6
    <2> HIDE DEF step
    <2> QED BY <2>1
  <1> HIDE DEF iter, step
  <1>8. iter = SumStep(f, R, iter)
    BY <1>4, <1>7
  <1>9. iter[R] = SumFunction(f)
    BY <1>3, <1>8, SumStepUnique
  <1> QED BY <1>1, <1>2, <1>9 DEF Load

\* What the core has when its invariant holds.
LEMMA CoreIsExact ==
    ASSUME CoreInv
    PROVE  CoreExact /\ DivisionsExact(core.work)
  <1>1. PICK ids, L, item : CoreHalf(core, ids, L, item) /\ CompletionRight(core, ids, L, item)
    BY DEF CoreInv
  <1>2. PICK next, m : next = core.model.nextId /\ m = core.model
    OBVIOUS
  <1>3. /\ CoreShape(core) /\ ~ core.panicked /\ Books(ids, L, next)
        /\ FastIs(m, ids, L, item, core.clock, next)
        /\ core.work = Works(ids, L) /\ Distinct(core, ids, item)
        /\ core.memory = MemoryTotal - Load(Running(ids, item))
    BY <1>1, <1>2 DEF CoreHalf, CoreBooks
  <1>4. IsFiniteSet(ids) /\ ids \subseteq Nat /\ \A i \in ids : L[i] \in Int
    BY <1>3 DEF Books
  <1>5. DivisionsExact(core.work)
    BY <1>3, BooksExact
  <1>6. FastLeft(core.model, core.clock) = core.work
    BY <1>2, <1>3, FastLeftIs
  <1>7. PICK R : R = Running(ids, item)
    OBVIOUS
  <1>8. {a.item : a \in core.model.activities} = R
    <2>1. PICK F : m.activities = Fasts(ids, item, F)
      BY <1>3 DEF FastIs, FastOf, FastRecord
    <2>2. \A a \in m.activities : a.item \in R
      BY <1>7, <2>1 DEF Fasts, Running
    <2>3. ASSUME NEW c \in R PROVE \E a \in m.activities : a.item = c
      <3>1. PICK i \in ids : c = item[i]
        BY <1>7 DEF Running
      <3>2. PICK a : a = [id |-> i, item |-> item[i], finish |-> F[i]]
        OBVIOUS
      <3>3. a \in m.activities /\ a.item = c
        BY <2>1, <3>1, <3>2 DEF Fasts
      <3> QED BY <3>3
    <2> QED BY ONLY <1>2, <2>2, <2>3
  <1>9. core.memory = MemoryTotal - MapThenSumSet(LAMBDA c : CoreMemory[c], R)
    <2>1. \A i \in ids : item[i] \in CoreComp
      BY <1>3 DEF Distinct
    <2>2. IsFiniteSet(R) /\ R \subseteq CoreComp
      BY <1>4, <1>7, <2>1, RunningFinite
    <2>3. MapThenSumSet(LAMBDA c : CoreMemory[c], R) = Load(R)
      BY <2>2, LoadIsSum
    <2> QED BY <1>3, <1>7, <2>3
  <1>10. PICK completions : completions = {e \in core.events : e.type = "InternalCompFinished"}
    OBVIOUS
  <1>11. CASE ids = {}
    <2>1. core.events = Requests(core)
      BY <1>1, <1>11 DEF CompletionRight
    <2>2. completions = {} /\ R = {}
      BY <1>7, <1>10, <1>11, <2>1 DEF Requests, Running
    <2>3. CoreExact
      BY <1>3, <1>6, <1>8, <1>9, <1>10, <2>2 DEF CoreExact
    <2> QED BY <1>5, <2>3
  <1>12. CASE ids # {}
    <2>1. PICK i \in ids : IsFirst(ids, L, i)
      BY <1>4, <1>12, FirstExists
    <2>2. PICK e : e = Ahead(core, ids, L, item, i)
      OBVIOUS
    <2>3. /\ e.type = "InternalCompFinished" /\ e.comp = item[i]
          /\ e.time = core.clock + L[i] \div Each(ids)
      BY <2>2 DEF Ahead
    <2>4. core.events \ Requests(core) = {e}
      BY <1>1, <2>1, <2>2 DEF CompletionRight
    <2>5. completions = {e}
      BY <1>10, <2>3, <2>4 DEF Requests
    <2>6. R # {}
      BY <1>7, <2>1 DEF Running
    <2>7. e.comp = FastPeek(core.model).item
      <3>1. FastPeek(m) = [item |-> item[i], time |-> core.clock + L[i] \div Each(ids)]
        BY <1>3, <2>1, FastPeekIs
      <3> QED BY <1>2, <2>3, <3>1
    <2>8. e.time = core.clock + TimeToEnd(core.work)
      BY <1>3, <2>1, <2>3, WorksTimeToEnd
    <2>9. \E x \in completions : /\ completions = {x} /\ x.comp = FastPeek(core.model).item
                                 /\ x.time = core.clock + TimeToEnd(core.work)
      BY <2>5, <2>7, <2>8
    <2>10. CoreExact
      BY <1>3, <1>6, <1>8, <1>9, <1>10, <2>6, <2>9 DEF CoreExact
    <2> QED BY <1>5, <2>10
  <1> QED BY <1>11, <1>12
-----------------------------------------------------------------------------

(* In every run of the clients of the models and of the core, however many *)
(* activities and computations there are: all models have of each activity *)
(* what is left of it, the fast models (fast.rs and                        *)
(* fast_with_cancel.rs) name the same next activity and the same time as   *)
(* the slow one, and the single core (singlecore.rs) has one completion    *)
(* ahead, the one that ends next, at the time when its flops are done.     *)
THEOREM SharingIsExact == SharingSpec => []SharingExact
  <1> DEFINE Inv == TesterInv /\ CoreInv
  <1>1. SharingInit => Inv
    BY TesterInit, CoreInit DEF SharingInit
  <1>2. Inv /\ [SharingNext]_<<tester, core>> => Inv'
    <2> SUFFICES ASSUME Inv, [SharingNext]_<<tester, core>> PROVE Inv'
      OBVIOUS
    <2>1. CASE TesterStep /\ UNCHANGED core
      <3>1. TesterInv'
        BY <2>1, TesterKeeps
      <3>2. CoreInv'
        BY <2>1 DEF CoreInv
      <3> QED BY <3>1, <3>2
    <2>2. CASE CoreStep /\ UNCHANGED tester
      <3>1. CoreInv'
        BY <2>2, CoreKeeps
      <3>2. TesterInv'
        BY <2>2 DEF TesterInv
      <3> QED BY <3>1, <3>2
    <2>3. CASE UNCHANGED <<tester, core>>
      BY <2>3 DEF TesterInv, CoreInv
    <2> QED BY <2>1, <2>2, <2>3 DEF SharingNext
  <1>3. Inv => SharingExact
    BY TesterExact, CoreIsExact DEF SharingExact
  <1> HIDE DEF Inv
  <1> QED BY <1>1, <1>2, <1>3, PTL DEF SharingSpec
=============================================================================
