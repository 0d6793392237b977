------------------------------ MODULE Ordering ------------------------------
(***************************************************************************)
(* Orders and positions: the comparison of two keys, the members of a set  *)
(* in an order, and the elements of a sequence at some of its positions.   *)
(***************************************************************************)
EXTENDS Naturals, Sequences, FiniteSets

\* The order of strings: of two sequences, the one with the lesser number at the first
\* place where they differ, or the one that ends there.
LexLess(a, b) ==
  \E i \in 1..Len(b) :
    /\ i <= Len(a) + 1 /\ \A j \in 1..(i - 1) : a[j] = b[j]
    /\ i <= Len(a) => a[i] < b[i]

\* The members of S in the strict total order `before`.
Ordered(S, before(_, _)) ==
  [i \in 1..Cardinality(S) |-> CHOOSE x \in S : Cardinality({y \in S : before(y, x)}) = i - 1]

\* The elements of s at the positions in I, in their order.
Picked(s, I) ==
  LET at == Ordered(I, <) IN [i \in DOMAIN at |-> s[at[i]]]

=============================================================================
