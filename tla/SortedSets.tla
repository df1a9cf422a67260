----------------------------- MODULE SortedSets -----------------------------
(***************************************************************************)
(* The sequence of the elements of a finite set in the order of a relation *)
(* R, a set of pairs.  SetToSortSeq of SequencesExt rests on an operator   *)
(* that only TLC defines; this one can be reasoned about.                  *)
(***************************************************************************)
EXTENDS Naturals, FiniteSets

Before(S, R, x) == {y \in S : <<y, x>> \in R}
NotAfter(S, R, x) == {y \in S : <<x, y>> \notin R}

\* element n has fewer than n elements before it; of elements of the same
\* rank any one stands for all
SortedBy(S, R) ==
  [n \in 1..Cardinality(S) |->
     CHOOSE x \in S : Cardinality(Before(S, R, x)) < n /\ n <= Cardinality(NotAfter(S, R, x))]
=============================================================================
