---------------------------- MODULE UserAccount -----------------------------
(***************************************************************************)
(* What billing promises a user.  Each reference is billed at most once,   *)
(* the amount leaves the balance in the same step, nothing else moves the  *)
(* balance than credits that are on record, and neither a bill nor a       *)
(* credit is ever withdrawn or changed.  How amounts are agreed            *)
(* beforehand, retried or reconciled is not visible here.                  *)
(*                                                                         *)
(*   bills    records with the fields ref and amount                       *)
(*   credits  records with the fields nr and amount (negative when an      *)
(*            administrator lowers the balance)                            *)
(***************************************************************************)
EXTENDS Integers

CONSTANTS Refs, InitBalance

VARIABLES balance, bills, credits

account == <<balance, bills, credits>>

Init == balance = InitBalance /\ bills = {} /\ credits = {}

Charge ==
  /\ \E new \in bills' :
       /\ \A old \in bills : old.ref # new.ref
       /\ new.ref \in Refs /\ new.amount >= 0
       /\ bills' = bills \cup {new}
       /\ balance' = balance - new.amount
  /\ UNCHANGED credits

Credit ==
  /\ \E new \in credits' :
       /\ \A old \in credits : old.nr # new.nr
       /\ credits' = credits \cup {new}
       /\ balance' = balance + new.amount
  /\ UNCHANGED bills

Spec == Init /\ [][Charge \/ Credit]_account
=============================================================================
