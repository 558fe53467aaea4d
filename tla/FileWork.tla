------------------------------- MODULE FileWork -------------------------------
(***************************************************************************)
(* What an accepted upload is promised.  Its file has one item of work,    *)
(* which waits or is held by one worker; only the holder gives the file    *)
(* its result, hands the item back or drops it; it drops it only when the  *)
(* file has a result, and no result is changed.  Claims, attempts, leases, *)
(* faults and whatever is written meanwhile are not visible here.          *)
(*                                                                         *)
(*   item[f]    "none" before the upload is accepted, "waiting", who holds *)
(*              it ("gone": a worker that no longer exists), or "done"     *)
(*   result[f]  "open", "ready" or "failed"                                *)
(***************************************************************************)
CONSTANTS Files, Workers

VARIABLES item, result

work == <<item, result>>

Init ==
  /\ item = [f \in Files |-> "none"]
  /\ result = [f \in Files |-> "open"]

Move(f, from, to) == item[f] = from /\ item' = [item EXCEPT ![f] = to]

Accept(f) == Move(f, "none", "waiting") /\ UNCHANGED result

Take(w, f) == Move(f, "waiting", w) /\ UNCHANGED result

TakeOver(w, f) ==
  /\ \E x \in Workers \cup {"gone"} : Move(f, x, w)
  /\ UNCHANGED result

Leave(w) ==
  /\ item' = [f \in Files |-> IF item[f] = w THEN "gone" ELSE item[f]]
  /\ UNCHANGED result

Finish(w, f) ==
  /\ item[f] = w /\ result[f] = "open"
  /\ \E r \in {"ready", "failed"} : result' = [result EXCEPT ![f] = r]
  /\ UNCHANGED item

HandBack(w, f) == result[f] = "open" /\ Move(f, w, "waiting") /\ UNCHANGED result

Drop(w, f) == result[f] # "open" /\ Move(f, w, "done") /\ UNCHANGED result

Next ==
  \/ \E f \in Files : Accept(f)
  \/ \E w \in Workers :
       \/ Leave(w)
       \/ \E f \in Files : \/ Take(w, f) \/ TakeOver(w, f) \/ Finish(w, f)
                           \/ HandBack(w, f) \/ Drop(w, f)

Spec == Init /\ [][Next]_work
=============================================================================
