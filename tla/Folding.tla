------------------------------- MODULE Folding -------------------------------
(***************************************************************************)
(* Loops of the code as folds.  TLC evaluates an argument again at every   *)
(* use of it; these operators evaluate each intermediate result once.      *)
(***************************************************************************)
EXTENDS Integers, Sequences, FiniteSets

\* op(v): TLC evaluates v once, however often op uses it.
Bind(v, op(_)) == CHOOSE w \in {op(u) : u \in {v}} : TRUE

\* FoldLeft, with each intermediate result evaluated once.
Fold(op(_, _), base, seq) ==
    LET run(s) == LET after[n \in 0..Len(s)] ==
                        IF n = 0 THEN base ELSE Bind(after[n - 1], LAMBDA v : op(v, s[n]))
                  IN after[Len(s)]
    IN Bind(seq, run)

\* The elements of a set as a sequence, for a strict total order.
SortedBy(S, before(_, _)) ==
    LET sorted(T) == [k \in 1..Cardinality(T) |->
                       CHOOSE x \in T : Cardinality({y \in T : before(y, x)}) = k - 1]
    IN Bind(S, sorted)

InOrder(S) == SortedBy(S, LAMBDA a, b : a < b)
==============================================================================
