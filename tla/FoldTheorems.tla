----------------------------- MODULE FoldTheorems -----------------------------
(***************************************************************************)
(* The folds of the community modules.                                     *)
(*                                                                         *)
(* Sums of the values of a function to the natural numbers, SumFunction,   *)
(* as the invariants that keep accounts use them: what a sum becomes when  *)
(* the function changes at one point.  SumFunction folds over the domain   *)
(* one chosen element at a time.  Here it is shown to count a set, the     *)
(* units, in which no order plays a part.                                  *)
(*                                                                         *)
(* Then folds of any operation, given as a function: there is a function   *)
(* on the subsets that does what MapThenFoldSet recurs on.  A module that  *)
(* folds with an operator of its own shows from this that the fold is what *)
(* its recursion says.                                                     *)
(***************************************************************************)
EXTENDS Integers, SequencesExt, FiniteSetTheorems, WellFoundedInduction, TLAPS

Less == OpToRel(<, Nat)

\* A set of naturals that is not empty has a least element.
LEMMA LeastNatural ==
    ASSUME NEW S \in SUBSET Nat, S # {}
    PROVE  \E n \in S : \A m \in S : n <= m
  <1>1. Less = {x \in Nat \X Nat : x[1] < x[2]}
    BY DEF Less, OpToRel
  <1>2. IsWellFoundedOn(Less, Nat)
    BY NatLessThanWellFounded DEF Less
  <1>3. PICK n \in S : \A m \in S : ~ (<<m, n>> \in Less)
    BY <1>2, WFMin
  <1>4. \A m \in S : <<m, n>> \in Less <=> m < n
    BY <1>1
  <1>5. \A m \in S : ~ (m < n)
    BY <1>3, <1>4
  <1>6. \A m \in S : m \in Nat /\ n \in Nat
    OBVIOUS
  <1> QED BY <1>5, <1>6

\* What holds of a set whenever it holds of the set without any one of its
\* elements holds of every finite set.  F is the set of those of which it holds.
LEMMA FiniteInduction ==
    ASSUME NEW S, IsFiniteSet(S), NEW F,
           \A T \in SUBSET S : (\A x \in T : T \ {x} \in F) => T \in F
    PROVE  \A T \in SUBSET S : T \in F
  <1> DEFINE Counterexample(n) ==
               \E T \in SUBSET S : T \notin F /\ Cardinality(T) = n
             N == {n \in Nat : Counterexample(n)}
  <1> SUFFICES ASSUME NEW U \in SUBSET S, U \notin F PROVE FALSE
    OBVIOUS
  <1>1. \A T \in SUBSET S : IsFiniteSet(T) /\ Cardinality(T) \in Nat
    BY FS_Subset, FS_CardinalityType
  <1>2. Cardinality(U) \in N
    BY <1>1
  <1> HIDE DEF Counterexample
  <1>3. PICK n \in N : \A m \in N : n <= m
    <2>1. N \in SUBSET Nat /\ N # {}
      BY <1>2
    <2> HIDE DEF N
    <2> QED BY <2>1, LeastNatural
  <1>4. PICK T \in SUBSET S : T \notin F /\ Cardinality(T) = n
    BY <1>3 DEF Counterexample
  <1>5. PICK x \in T : T \ {x} \notin F
    BY <1>4
  <1>6. T \ {x} \in SUBSET S
    BY <1>4
  <1>7. Cardinality(T \ {x}) = n - 1
    BY <1>1, <1>4, <1>5, FS_RemoveElement
  <1>8. n - 1 \in N
    <2>1. n - 1 \in Nat
      BY <1>1, <1>6, <1>7
    <2>2. Counterexample(n - 1)
      BY <1>5, <1>6, <1>7 DEF Counterexample
    <2> QED BY <2>1, <2>2
  <1>9. n \in Nat /\ n <= n - 1
    BY <1>3, <1>8
  <1> QED BY <1>9

-----------------------------------------------------------------------------

\* f[x] units for each x in T.
UnitsOf(f, T) == UNION {{x} \X (1..f[x]) : x \in T}

LEMMA UnitsOfOne ==
    ASSUME NEW x, NEW n \in Nat
    PROVE  /\ IsFiniteSet({x} \X (1..n))
           /\ Cardinality({x} \X (1..n)) = n
  <1> DEFINE X == {x}
             N == 1..n
  <1>1. IsFiniteSet(X) /\ Cardinality(X) = 1
    BY FS_Singleton
  <1>2. IsFiniteSet(N) /\ Cardinality(N) = n
    <2>1. IsFiniteSet(1..n) /\ Cardinality(1..n) = IF 1 > n THEN 0 ELSE n - 1 + 1
      BY FS_Interval
    <2> QED BY <2>1
  <1> HIDE DEF X, N
  <1>3. IsFiniteSet(X \X N) /\ Cardinality(X \X N) = Cardinality(X) * Cardinality(N)
    BY <1>1, <1>2, FS_Product
  <1>4. Cardinality(X \X N) = n
    BY <1>1, <1>2, <1>3
  <1> QED BY <1>3, <1>4 DEF X, N

LEMMA UnitsSplit ==
    ASSUME NEW S, IsFiniteSet(S), NEW f \in [S -> Nat], NEW T \in SUBSET S
    PROVE  /\ IsFiniteSet(UnitsOf(f, T)) /\ Cardinality(UnitsOf(f, T)) \in Nat
           /\ \A x \in T : Cardinality(UnitsOf(f, T))
                             = f[x] + Cardinality(UnitsOf(f, T \ {x}))
  <1> DEFINE F == {U \in SUBSET S : IsFiniteSet(UnitsOf(f, U))}
  <1>1. \A U \in SUBSET S : \A x \in U :
          /\ UnitsOf(f, U) = UnitsOf(f, U \ {x}) \cup ({x} \X (1..f[x]))
          /\ UnitsOf(f, U \ {x}) \cap ({x} \X (1..f[x])) = {}
    BY DEF UnitsOf
  <1>2. {} \in F
    <2>1. UnitsOf(f, {}) = {}
      BY DEF UnitsOf
    <2> QED BY <2>1, FS_EmptySet
  <1>3. ASSUME NEW U \in SUBSET S, \A x \in U : U \ {x} \in F
        PROVE  U \in F
    <2>1. CASE U = {}
      BY <1>2, <2>1
    <2>2. ASSUME NEW x \in U
          PROVE  U \in F
      <3>1. IsFiniteSet(UnitsOf(f, U \ {x}))
        BY <1>3
      <3>2. f[x] \in Nat
        OBVIOUS
      <3> DEFINE own == {x} \X (1..f[x])
      <3>3. IsFiniteSet(own) /\ UnitsOf(f, U) = UnitsOf(f, U \ {x}) \cup own
        BY <1>1, <3>2, UnitsOfOne
      <3> HIDE DEF own
      <3>4. IsFiniteSet(UnitsOf(f, U))
        BY <3>1, <3>3, FS_Union
      <3> QED BY <3>4
    <2> QED BY <2>1, <2>2
  <1> HIDE DEF F
  <1>4. \A U \in SUBSET S : U \in F
    BY <1>3, FiniteInduction
  <1>5. \A U \in SUBSET S : /\ IsFiniteSet(UnitsOf(f, U))
                            /\ Cardinality(UnitsOf(f, U)) \in Nat
    BY <1>4, FS_CardinalityType DEF F
  <1>6. ASSUME NEW x \in T
        PROVE  Cardinality(UnitsOf(f, T)) = f[x] + Cardinality(UnitsOf(f, T \ {x}))
    <2> DEFINE A == UnitsOf(f, T \ {x})
               B == {x} \X (1..f[x])
    <2>1. UnitsOf(f, T) = A \cup B /\ A \cap B = {}
      BY <1>1
    <2>2. /\ IsFiniteSet(A) /\ Cardinality(A) \in Nat
          /\ IsFiniteSet(B) /\ Cardinality(B) = f[x]
      BY <1>5, UnitsOfOne
    <2> HIDE DEF A, B
    <2>3. Cardinality(A \cup B) = Cardinality(A) + Cardinality(B) - Cardinality(A \cap B)
      BY <2>2, FS_Union
    <2>4. Cardinality(A \cap B) = 0
      BY <2>1, FS_EmptySet
    <2>5. f[x] \in Nat
      OBVIOUS
    <2> QED BY <2>1, <2>2, <2>3, <2>4, <2>5 DEF A
  <1> QED BY <1>5, <1>6

\* The fold counts the units.
LEMMA SumCountsUnits ==
    ASSUME NEW S, IsFiniteSet(S), NEW f \in [S -> Nat]
    PROVE  SumFunction(f) = Cardinality(UnitsOf(f, S))
  <1> DEFINE step(g) == [s \in SUBSET S |->
                IF s = {} THEN 0
                ELSE f[CHOOSE x \in s : TRUE] + g[s \ {CHOOSE x \in s : TRUE}]]
             count == [s \in SUBSET S |-> Cardinality(UnitsOf(f, s))]
             iter == CHOOSE g : g = step(g)
  <1>1. SumFunction(f) = iter[S]
    BY DEF SumFunction, SumFunctionOnSet, FoldFunctionOnSet, MapThenFoldSet
  <1>2. count = step(count)
    <2> SUFFICES ASSUME NEW s \in SUBSET S PROVE count[s] = step(count)[s]
      OBVIOUS
    <2>1. CASE s = {}
      <3>1. UnitsOf(f, {}) = {}
        BY DEF UnitsOf
      <3> QED BY <2>1, <3>1, FS_EmptySet
    <2>2. CASE s # {}
      <3> DEFINE x == CHOOSE x \in s : TRUE
      <3>1. x \in s
        BY <2>2
      <3>2. count[s \ {x}] = Cardinality(UnitsOf(f, s \ {x}))
        OBVIOUS
      <3>3. step(count)[s] = f[x] + count[s \ {x}]
        BY <2>2
      <3>4. count[s] = Cardinality(UnitsOf(f, s))
        OBVIOUS
      <3> HIDE DEF x, step, count
      <3>5. Cardinality(UnitsOf(f, s)) = f[x] + Cardinality(UnitsOf(f, s \ {x}))
        BY <3>1, UnitsSplit
      <3> QED BY <3>2, <3>3, <3>4, <3>5
    <2> QED BY <2>1, <2>2
  <1>3. iter = step(iter)
    <2> HIDE DEF step, count
    <2> QED BY <1>2
  <1> HIDE DEF iter
  <1> DEFINE F == {s \in SUBSET S : iter[s] = count[s]}
  <1>4. \A s \in SUBSET S : s \in F
    <2>1. ASSUME NEW s \in SUBSET S, \A x \in s : s \ {x} \in F
          PROVE  s \in F
      <3>1. iter[s] = step(iter)[s] /\ count[s] = step(count)[s]
        BY <1>2, <1>3
      <3>2. CASE s = {}
        BY <3>1, <3>2
      <3>3. CASE s # {}
        <4> DEFINE x == CHOOSE x \in s : TRUE
        <4>1. x \in s
          BY <3>3
        <4>2. s \ {x} \in SUBSET S /\ iter[s \ {x}] = count[s \ {x}]
          BY <2>1, <4>1
        <4>3. step(iter)[s] = f[x] + iter[s \ {x}]
          BY <3>3
        <4>4. step(count)[s] = f[x] + count[s \ {x}]
          BY <3>3
        <4> HIDE DEF x, step, count
        <4> QED BY <3>1, <4>2, <4>3, <4>4
      <3> QED BY <3>2, <3>3
    <2> HIDE DEF F
    <2> QED BY <2>1, FiniteInduction
  <1> QED BY <1>1, <1>4

-----------------------------------------------------------------------------
(* What a sum is, and what becomes of it.                                  *)

LEMMA SumTyped ==
    ASSUME NEW S, IsFiniteSet(S), NEW f \in [S -> Nat]
    PROVE  SumFunction(f) \in Nat
  BY SumCountsUnits, UnitsSplit

LEMMA SumOfZeros ==
    ASSUME NEW S, IsFiniteSet(S), NEW f \in [S -> Nat], \A x \in S : f[x] = 0
    PROVE  SumFunction(f) = 0
  <1>1. UnitsOf(f, S) = {}
    BY DEF UnitsOf
  <1> QED BY <1>1, SumCountsUnits, FS_EmptySet

\* The domain gains an element.
LEMMA SumExtended ==
    ASSUME NEW S, IsFiniteSet(S), NEW x, x \notin S, NEW f \in [S -> Nat],
           NEW g \in [S \cup {x} -> Nat], \A y \in S : g[y] = f[y]
    PROVE  SumFunction(g) = SumFunction(f) + g[x]
  <1> DEFINE T == S \cup {x}
  <1>1. IsFiniteSet(T) /\ x \in T /\ S \in SUBSET T /\ T \ {x} = S /\ g \in [T -> Nat]
    BY FS_AddElement
  <1> HIDE DEF T
  <1>2. UnitsOf(g, S) = UnitsOf(f, S)
    BY DEF UnitsOf
  <1>3. /\ Cardinality(UnitsOf(g, T)) = g[x] + Cardinality(UnitsOf(g, S))
        /\ Cardinality(UnitsOf(g, S)) \in Nat
    BY <1>1, UnitsSplit
  <1>4. SumFunction(g) = Cardinality(UnitsOf(g, T))
    BY <1>1, SumCountsUnits
  <1>5. SumFunction(f) = Cardinality(UnitsOf(f, S))
    BY SumCountsUnits
  <1>6. g[x] \in Nat
    BY <1>1
  <1> QED BY <1>2, <1>3, <1>4, <1>5, <1>6

\* One value changes.
LEMMA SumUpdated ==
    ASSUME NEW S, IsFiniteSet(S), NEW x \in S, NEW f \in [S -> Nat], NEW g \in [S -> Nat],
           \A y \in S \ {x} : g[y] = f[y]
    PROVE  SumFunction(g) + f[x] = SumFunction(f) + g[x]
  <1> DEFINE R == S \ {x}
             r == [y \in R |-> f[y]]
  <1>1. /\ IsFiniteSet(R) /\ x \notin R /\ S = R \cup {x}
        /\ r \in [R -> Nat] /\ \A y \in R : r[y] = f[y] /\ r[y] = g[y]
    BY FS_RemoveElement
  <1> HIDE DEF R, r
  <1>2. SumFunction(f) = SumFunction(r) + f[x] /\ SumFunction(g) = SumFunction(r) + g[x]
    BY <1>1, SumExtended
  <1>3. SumFunction(r) \in Nat /\ f[x] \in Nat /\ g[x] \in Nat
    BY <1>1, SumTyped
  <1> QED BY <1>2, <1>3

-----------------------------------------------------------------------------
(* A sum over a set, as MapThenSumSet recurs on it, is the sum of a function. *)

SumStep(f, S, g) ==
    [s \in SUBSET S |-> IF s = {} THEN 0
                        ELSE f[CHOOSE x \in s : TRUE] + g[s \ {CHOOSE x \in s : TRUE}]]

LEMMA SumStepCounts ==
    ASSUME NEW S, IsFiniteSet(S), NEW f \in [S -> Nat],
           NEW count, count = [s \in SUBSET S |-> Cardinality(UnitsOf(f, s))]
    PROVE  count = SumStep(f, S, count)
  <1> SUFFICES ASSUME NEW s \in SUBSET S PROVE count[s] = SumStep(f, S, count)[s]
    BY DEF SumStep
  <1>1. CASE s = {}
    <2>1. UnitsOf(f, {}) = {}
      BY DEF UnitsOf
    <2>2. count[s] = 0
      BY <1>1, <2>1, FS_EmptySet
    <2> QED BY <1>1, <2>2 DEF SumStep
  <1>2. CASE s # {}
    <2> DEFINE x == CHOOSE x \in s : TRUE
    <2>1. x \in s
      BY <1>2
    <2>2. SumStep(f, S, count)[s] = f[x] + count[s \ {x}]
      BY <1>2 DEF SumStep
    <2> HIDE DEF x
    <2>3. Cardinality(UnitsOf(f, s)) = f[x] + Cardinality(UnitsOf(f, s \ {x}))
      BY <2>1, UnitsSplit
    <2>4. count[s] = Cardinality(UnitsOf(f, s)) /\ count[s \ {x}] = Cardinality(UnitsOf(f, s \ {x}))
      OBVIOUS
    <2> QED BY <2>2, <2>3, <2>4
  <1> QED BY <1>1, <1>2

LEMMA SumStepUnique ==
    ASSUME NEW S, IsFiniteSet(S), NEW f \in [S -> Nat], NEW g, g = SumStep(f, S, g)
    PROVE  g[S] = SumFunction(f)
  <1>1. PICK count : count = [s \in SUBSET S |-> Cardinality(UnitsOf(f, s))]
    OBVIOUS
  <1>2. count = SumStep(f, S, count)
    BY <1>1, SumStepCounts
  <1> DEFINE F == {s \in SUBSET S : g[s] = count[s]}
  <1>3. ASSUME NEW s \in SUBSET S, \A x \in s : s \ {x} \in F
        PROVE  s \in F
    <2>1. /\ \A h : h = SumStep(f, S, h) => h[s] = SumStep(f, S, h)[s]
      OBVIOUS
    <2>2. CASE s = {}
      <3>1. \A h : SumStep(f, S, h)[s] = 0
        BY <2>2 DEF SumStep
      <3>2. g[s] = 0 /\ count[s] = 0
        BY <1>2, <2>1, <3>1
      <3> QED BY <3>2
    <2>3. CASE s # {}
      <3> DEFINE x == CHOOSE x \in s : TRUE
      <3>1. x \in s
        BY <2>3
      <3>2. \A h : SumStep(f, S, h)[s] = f[x] + h[s \ {x}]
        BY <2>3 DEF SumStep
      <3> HIDE DEF x
      <3>3. g[s \ {x}] = count[s \ {x}]
        BY <1>3, <3>1
      <3>4. g[s] = f[x] + g[s \ {x}] /\ count[s] = f[x] + count[s \ {x}]
        BY <1>2, <2>1, <3>2
      <3> QED BY <3>3, <3>4
    <2> QED BY <2>2, <2>3
  <1> HIDE DEF F
  <1>4. \A s \in SUBSET S : s \in F
    BY <1>3, FiniteInduction
  <1>5. g[S] = count[S]
    BY <1>4 DEF F
  <1> QED BY <1>1, <1>5, SumCountsUnits

-----------------------------------------------------------------------------
\* c picks an element of each set.
Picks(c, S) == \A T \in SUBSET S : T # {} => c[T] \in T

(* A fold over a set: c picks the element that is taken off, op adds it to  *)
(* what the fold of the others is.                                          *)
FoldsSubsets(g, c, op, base, S) ==
    \A T \in SUBSET S :
      g[T] = IF T = {} THEN base ELSE op[g[T \ {c[T]}]][c[T]]

LEMMA FoldUnique ==
    ASSUME NEW S, IsFiniteSet(S), NEW c, Picks(c, S),
           NEW op, NEW base, NEW g, NEW h,
           FoldsSubsets(g, c, op, base, S), FoldsSubsets(h, c, op, base, S)
    PROVE  \A T \in SUBSET S : g[T] = h[T]
  <1> DEFINE F == {T \in SUBSET S : g[T] = h[T]}
  <1>1. ASSUME NEW T \in SUBSET S, \A x \in T : T \ {x} \in F
        PROVE  T \in F
    <2>1. CASE T = {}
      BY <2>1 DEF FoldsSubsets
    <2>2. CASE T # {}
      <3>1. g[T \ {c[T]}] = h[T \ {c[T]}]
        BY <1>1, <2>2 DEF Picks
      <3>2. g[T] = op[g[T \ {c[T]}]][c[T]] /\ h[T] = op[h[T \ {c[T]}]][c[T]]
        BY <2>2 DEF FoldsSubsets
      <3> QED BY <3>1, <3>2
    <2> QED BY <2>1, <2>2
  <1> HIDE DEF F
  <1>2. \A T \in SUBSET S : T \in F
    BY <1>1, FiniteInduction
  <1> QED BY <1>2 DEF F

LEMMA FoldExists ==
    ASSUME NEW S, IsFiniteSet(S), NEW c, Picks(c, S),
           NEW A, NEW base \in A, NEW op \in [A -> [S -> A]]
    PROVE  \E g \in [SUBSET S -> A] : FoldsSubsets(g, c, op, base, S)
  <1> DEFINE F == {U \in SUBSET S : \E g \in [SUBSET U -> A] : FoldsSubsets(g, c, op, base, U)}
  <1>1. ASSUME NEW U \in SUBSET S, \A x \in U : U \ {x} \in F
        PROVE  U \in F
    <2>1. CASE U = {}
      <3> DEFINE g == [T \in SUBSET U |-> base]
      <3>1. g \in [SUBSET U -> A] /\ FoldsSubsets(g, c, op, base, U)
        BY <2>1 DEF FoldsSubsets
      <3> QED BY <3>1
    <2>2. CASE U # {}
      <3> DEFINE G(x) == CHOOSE g \in [SUBSET (U \ {x}) -> A] :
                            FoldsSubsets(g, c, op, base, U \ {x})
                 left(T) == CHOOSE x \in U : x \notin T
                 top == c[U]
                 g == [T \in SUBSET U |-> IF T = U THEN op[G(top)[U \ {top}]][top]
                                                   ELSE G(left(T))[T]]
      <3>1. \A x \in U : /\ G(x) \in [SUBSET (U \ {x}) -> A]
                         /\ FoldsSubsets(G(x), c, op, base, U \ {x})
        BY <1>1
      <3>2. \A T \in SUBSET U : T # U => left(T) \in U /\ left(T) \notin T
        OBVIOUS
      <3>3. top \in U
        BY <2>2 DEF Picks
      <3>10. \A T \in SUBSET U : g[T] = IF T = U THEN op[G(top)[U \ {top}]][top]
                                                 ELSE G(left(T))[T]
        OBVIOUS
      <3>11. DOMAIN g = SUBSET U /\ g = [T \in SUBSET U |-> g[T]]
        OBVIOUS
      <3> HIDE DEF G, left, g, top
      <3>4. ASSUME NEW x \in U, NEW y \in U, NEW T \in SUBSET U, x \notin T, y \notin T
            PROVE  G(x)[T] = G(y)[T]
        <4> DEFINE V == (U \ {x}) \ {y}
        <4>1. IsFiniteSet(V) /\ T \in SUBSET V /\ V \in SUBSET S
          BY <3>4, FS_Subset
        <4>2. V \subseteq U \ {x} /\ V \subseteq U \ {y}
          OBVIOUS
        <4> HIDE DEF V
        <4>3. FoldsSubsets(G(x), c, op, base, V) /\ FoldsSubsets(G(y), c, op, base, V)
          BY <3>1, <4>2 DEF FoldsSubsets
        <4>4. Picks(c, V)
          BY <4>1 DEF Picks
        <4>5. \A R \in SUBSET V : G(x)[R] = G(y)[R]
          <5>1. IsFiniteSet(V)
            BY <4>1
          <5> DEFINE a == G(x)
                     b == G(y)
          <5>2. FoldsSubsets(a, c, op, base, V) /\ FoldsSubsets(b, c, op, base, V)
            BY <4>3
          <5> HIDE DEF a, b
          <5>3. \A R \in SUBSET V : a[R] = b[R]
            BY ONLY <4>4, <5>1, <5>2, FoldUnique
          <5> QED BY <5>3 DEF a, b
        <4> QED BY <4>1, <4>5
      <3>5. \A x \in U : g[U \ {x}] = G(x)[U \ {x}]
        <4> TAKE x \in U
        <4>1. U \ {x} \in SUBSET U /\ U \ {x} # U /\ x \notin U \ {x}
          OBVIOUS
        <4> QED BY <3>2, <3>4, <3>10, <4>1
      <3>6. ASSUME NEW T \in SUBSET U
            PROVE  g[T] = IF T = {} THEN base ELSE op[g[T \ {c[T]}]][c[T]]
        <4>1. CASE T = U
          <5>1. g[U] = op[G(top)[U \ {top}]][top]
            BY <3>10
          <5>2. g[U \ {top}] = G(top)[U \ {top}]
            BY <3>3, <3>5
          <5> QED BY <2>2, <4>1, <5>1, <5>2 DEF top
        <4>2. CASE T # U
          <5> DEFINE y == left(T)
          <5>1. y \in U /\ y \notin T /\ T \in SUBSET (U \ {y})
            BY <3>2, <4>2
          <5>2. g[T] = G(y)[T]
            BY <3>10, <4>2
          <5> HIDE DEF y
          <5>3. G(y)[T] = IF T = {} THEN base ELSE op[G(y)[T \ {c[T]}]][c[T]]
            BY <3>1, <5>1 DEF FoldsSubsets
          <5>4. CASE T = {}
            BY <5>2, <5>3, <5>4
          <5>5. CASE T # {}
            <6> DEFINE R == T \ {c[T]}
            <6>1. c[T] \in T
              BY <5>5 DEF Picks
            <6>2. R \in SUBSET U /\ R # U /\ y \notin R
              BY <5>1
            <6> HIDE DEF R
            <6>3. left(R) \in U /\ left(R) \notin R /\ g[R] = G(left(R))[R]
              BY <3>2, <3>10, <6>2
            <6>4. G(left(R))[R] = G(y)[R]
              BY <3>4, <5>1, <6>2, <6>3
            <6> QED BY <5>2, <5>3, <5>5, <6>3, <6>4 DEF R
          <5> QED BY <5>4, <5>5
        <4> QED BY <4>1, <4>2
      <3>7. ASSUME NEW T \in SUBSET U PROVE g[T] \in A
        <4>1. ASSUME NEW x \in U, NEW R \in SUBSET (U \ {x})
              PROVE  G(x)[R] \in A
          <5>1. G(x) \in [SUBSET (U \ {x}) -> A]
            BY <3>1
          <5> QED BY <5>1
        <4>2. CASE T = U
          <5>1. U \ {top} \in SUBSET (U \ {top}) /\ top \in S
            BY <3>3
          <5>2. G(top)[U \ {top}] \in A
            BY <3>3, <4>1, <5>1
          <5>3. op[G(top)[U \ {top}]] \in [S -> A]
            BY <5>2
          <5> QED BY <3>10, <4>2, <5>1, <5>3
        <4>3. CASE T # U
          <5>1. left(T) \in U /\ T \in SUBSET (U \ {left(T)})
            BY <3>2, <4>3
          <5> QED BY <3>10, <4>1, <4>3, <5>1
        <4> QED BY <4>2, <4>3
      <3>8. g \in [SUBSET U -> A]
        BY <3>7, <3>11
      <3> QED BY <3>6, <3>8 DEF FoldsSubsets
    <2> QED BY <2>1, <2>2
  <1> HIDE DEF F
  <1>2. \A T \in SUBSET S : T \in F
    BY <1>1, FiniteInduction
  <1>3. S \in F
    BY <1>2
  <1> QED BY <1>3 DEF F

LEMMA PrefixInduction ==
    ASSUME NEW n \in Nat, NEW F, 0 \in F, \A k \in 1..n : k - 1 \in F => k \in F
    PROVE  \A k \in 0..n : k \in F
  <1> DEFINE N == {k \in 0..n : k \notin F}
  <1> SUFFICES ASSUME N # {} PROVE FALSE
    OBVIOUS
  <1>1. N \in SUBSET Nat
    OBVIOUS
  <1> HIDE DEF N
  <1>2. PICK k \in N : \A m \in N : k <= m
    BY <1>1, LeastNatural
  <1>3. k \in 1..n /\ k \notin F /\ k - 1 \in 0..n
    BY <1>2 DEF N
  <1>4. k - 1 \notin N
    BY <1>2, <1>3
  <1> QED BY <1>3, <1>4 DEF N

\* Numbers up to n that are not none have a maximum.
LEMMA MaxOfSome ==
    ASSUME NEW n \in Nat, NEW T \in SUBSET (1..n), T # {}
    PROVE  Max(T) \in T /\ \A y \in T : Max(T) >= y
  <1> DEFINE N == {k \in Nat : n - k \in T}
  <1>1. N \in SUBSET Nat /\ N # {}
    <2>1. PICK x \in T : TRUE
      OBVIOUS
    <2>2. n - x \in Nat /\ n - (n - x) = x
      BY <2>1
    <2> QED BY <2>1, <2>2
  <1> HIDE DEF N
  <1>2. PICK k \in N : \A m \in N : k <= m
    BY <1>1, LeastNatural
  <1>3. ASSUME NEW y \in T PROVE n - k >= y
    <2>1. n - y \in Nat /\ n - (n - y) = y /\ k \in Nat
      BY <1>1
    <2>2. n - y \in N
      BY <2>1 DEF N
    <2> QED BY <1>2, <2>1, <2>2
  <1>4. n - k \in T
    BY <1>2 DEF N
  <1> QED BY <1>3, <1>4 DEF Max

LEMMA MaxOfPrefix ==
    ASSUME NEW k \in Nat, k > 0
    PROVE  Max(1..k) = k /\ (1..k) \ {Max(1..k)} = 1..(k - 1)
  <1>1. 1..k \in SUBSET (1..k) /\ 1..k # {} /\ k \in 1..k
    OBVIOUS
  <1>2. Max(1..k) \in 1..k /\ \A y \in 1..k : Max(1..k) >= y
    BY <1>1, MaxOfSome
  <1>3. Max(1..k) = k
    BY <1>1, <1>2
  <1> QED BY <1>3
=============================================================================
