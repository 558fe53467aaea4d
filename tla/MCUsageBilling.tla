--------------------------- MODULE MCUsageBilling ---------------------------
(***************************************************************************)
(* UsageBilling for TLC: references and requests are interchangeable model *)
(* values.                                                                 *)
(***************************************************************************)
EXTENDS UsageBilling, TLC

Symmetry == Permutations(Refs) \cup Permutations(Requests)
=============================================================================
