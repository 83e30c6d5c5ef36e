------------------------------- MODULE Orders -------------------------------
(***************************************************************************)
(* Lists in the order the code sorts them: sorted() by a key that decides  *)
(* every pair, and the first elements of a list.                           *)
(***************************************************************************)
EXTENDS Integers, Sequences, FiniteSets

\* The first of a set in a strict total order.
Least(S, before(_, _)) == CHOOSE x \in S : \A y \in S \ {x} : before(x, y)

\* The sequence of n elements at(1), at(2), ... (as a tuple, for TLC)
Listing(n, at(_)) == SubSeq([k \in 1..n |-> at(k)], 1, n)

Sorted(S, before(_, _)) ==
  Listing(Cardinality(S), LAMBDA k : CHOOSE x \in S : Cardinality({y \in S : before(y, x)}) = k - 1)

\* A set of indices, in order
InOrder(S) == Sorted(S, LAMBDA i, j : i < j)

\* The elements of a list at some of its positions, in order
AtPositions(list, S) ==
  LET order == InOrder(S)
  IN  Listing(Cardinality(S), LAMBDA k : list[order[k]])

\* seq[:n]
FirstOnes(seq, n) == SubSeq(seq, 1, IF Len(seq) < n THEN Len(seq) ELSE n)
=============================================================================
