------------------------------- MODULE Totals -------------------------------
(***************************************************************************)
(* SELECT COALESCE(SUM(column), 0): the total of a natural-number column f *)
(* over the finite set S of selected rows.  The total is the number of     *)
(* unit cells <<row, 1>> .. <<row, f[row]>>, so that the facts about       *)
(* Cardinality are enough to reason about it.                              *)
(***************************************************************************)
EXTENDS Integers, FiniteSets

Cells(S, f) == UNION { {x} \X (1..f[x]) : x \in S }
Total(S, f) == Cardinality(Cells(S, f))

(* Mutant: the clamp is forgotten. *)
NonNegative_NoClamp(n) == n

NonNegative(n) == IF n > 0 THEN n ELSE 0
Lesser(a, b)   == IF a < b THEN a ELSE b
CeilDiv(a, b)  == (a + b - 1) \div b
=============================================================================
