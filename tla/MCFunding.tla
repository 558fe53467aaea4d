------------------------------ MODULE MCFunding ------------------------------
(***************************************************************************)
(* Funding for TLC: users, orders, codes and calls are interchangeable     *)
(* model values.                                                           *)
(***************************************************************************)
EXTENDS Funding

Symmetry ==
  Permutations(Users) \cup Permutations(Orders) \cup Permutations(Codes)
    \cup Permutations(Calls)
=============================================================================
