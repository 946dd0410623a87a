----------------------------- MODULE StableSort -----------------------------
(***************************************************************************)
(* sorted of Python, with a key and perhaps reversed: elements that are    *)
(* equal under the key stay in the order they had.                         *)
(***************************************************************************)
EXTENDS Naturals, FiniteSets

(* The positions I, those first that less puts before others; less holds   *)
(* the pairs of positions whose first element has to come first.           *)
Ordered(I, less) ==
  LET ahead(i) == {j \in I : <<j, i>> \in less \/ (<<i, j>> \notin less /\ j < i)}
  IN  [k \in 1..Cardinality(I) |-> CHOOSE i \in I : Cardinality(ahead(i)) = k - 1]
=============================================================================
