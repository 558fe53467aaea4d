----------------------------- MODULE Entitlements -----------------------------
(***************************************************************************)
(* What orders and redemption codes promise a user.  An order takes effect *)
(* once, in the step that makes it paid, and a redemption in the step that *)
(* counts it: the balance grows by what was bought, or the time under      *)
(* plans by all of the time that was bought.  From then on it runs down    *)
(* one unit at a time, without a gap before the last, and nobody else's    *)
(* orders and codes touch it; only a replaced subscription sets it anew,   *)
(* to its term or, for the free plan, to nothing.                          *)
(* Two changes of one user's subscriptions that cross leave the user       *)
(* unsettled: the time is then not accounted for.                          *)
(*                                                                         *)
(* How the time is laid out among plans, what calls read and lock before   *)
(* they commit, and the limits of codes are not visible here.              *)
(*                                                                         *)
(*   order[o]   [status, user, worth], worth[c] [issued, credit, time]     *)
(*   uses[c]    how often each user has redeemed the code                  *)
(*   time[u]    units under plans, 0 of a user that is unsettled           *)
(***************************************************************************)
EXTENDS Integers

CONSTANTS
  Users, Orders, Codes,
  Terms  \* the time that a subscription may be set to

VARIABLES order, worth, uses, balance, time, unsettled

records == <<order, worth, uses>>

vars == <<records, balance, time, unsettled>>

Init ==
  /\ \A o \in Orders : order[o].status = "none"
  /\ \A c \in Codes : ~worth[c].issued
  /\ uses = [c \in Codes |-> [u \in Users |-> 0]]
  /\ balance = [u \in Users |-> 0]
  /\ time = [u \in Users |-> 0]
  /\ unsettled = {}

Place(o) ==
  /\ order[o].status = "none" /\ order'[o].status = "pending"
  /\ \A p \in Orders \ {o} : order'[p] = order[p]
  /\ UNCHANGED <<worth, uses, balance, time, unsettled>>

Issue(c) ==
  /\ ~worth[c].issued /\ worth'[c].issued
  /\ \A d \in Codes \ {c} : worth'[d] = worth[d]
  /\ UNCHANGED <<order, uses, balance, time, unsettled>>

SetTime(u, left) ==
  /\ unsettled' \in {unsettled, unsettled \cup {u}}
  /\ time' = [time EXCEPT ![u] = IF u \in unsettled' THEN 0 ELSE left]

Give(u, bought) ==
  \/ /\ bought.credit > 0
     /\ balance' = [balance EXCEPT ![u] = @ + bought.credit]
     /\ UNCHANGED <<time, unsettled>>
  \/ /\ bought.credit = 0
     /\ SetTime(u, time[u] + bought.time)
     /\ UNCHANGED balance

Fulfil(o) ==
  /\ order[o].status = "pending"
  /\ order' = [order EXCEPT ![o].status = "paid"]
  /\ Give(order[o].user, order[o].worth)
  /\ UNCHANGED <<worth, uses>>

Redeem(c, u) ==
  /\ worth[c].issued
  /\ uses' = [uses EXCEPT ![c][u] = @ + 1]
  /\ Give(u, worth[c])
  /\ UNCHANGED <<order, worth>>

Replace(u) ==
  /\ \E left \in Terms \cup {0} : SetTime(u, left)
  /\ UNCHANGED <<records, balance>>

Elapse ==
  /\ time' = [u \in Users |-> IF time[u] > 0 THEN time[u] - 1 ELSE 0]
  /\ UNCHANGED <<records, balance, unsettled>>

Next ==
  \/ \E o \in Orders : Place(o) \/ Fulfil(o)
  \/ \E c \in Codes : Issue(c) \/ \E u \in Users : Redeem(c, u)
  \/ \E u \in Users : Replace(u)
  \/ Elapse

Spec == Init /\ [][Next]_vars
=============================================================================
