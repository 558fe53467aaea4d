---------------------------- MODULE UsageBilling ----------------------------
(***************************************************************************)
(* The paid life of generation requests of one user: authorise (reserve),  *)
(* call the upstream while a ticker renews the lease, then release or      *)
(* record the usage with retries, falling back to reconciliation.  The     *)
(* handlers run concurrently; a database call may fail before it takes     *)
(* effect, or take effect and lose its answer; a handler may crash or its  *)
(* context may end between any two calls.                                  *)
(*                                                                         *)
(* req[q] is the handler's local state:                                    *)
(*   pc       next step                                                    *)
(*   ref      the reference number it authorised                           *)
(*   charge   the amount of the usage ledger built from the result         *)
(*   tries    attempts made by the retry loop of the current call          *)
(*   cut      the context of the billing calls is done                     *)
(*   bill     index of the ledger row it holds in memory, 0 before         *)
(*   stamped  that row was written to the assistant message                *)
(***************************************************************************)
EXTENDS BillingStore

CONSTANTS
  Requests,  \* HTTP requests of the user
  Charges,   \* amounts a usage ledger may come to
  Asks,      \* configured prepaid amounts, 0 when off
  AdminBalances,
  MaxTries   \* usageBillingRetryAttempts

ASSUME BillingAssumption ==
  /\ Charges \subseteq Nat
  /\ Asks \subseteq Nat
  /\ AdminBalances \subseteq Nat
  /\ MaxTries \in Nat \ {0}
  /\ "none" \notin Refs

VARIABLE req

vars == <<storeVars, req>>

Pcs == {"idle", "running", "releasing", "settling", "marking", "stamping",
        "refused", "unanswered", "released", "recorded", "failed", "crashed"}

Live == {"running", "releasing", "settling", "marking", "stamping"}

Idle == [pc |-> "idle", ref |-> "none", charge |-> 0, tries |-> 0,
         cut |-> FALSE, bill |-> 0, stamped |-> FALSE]

Init ==
  /\ StoreInit
  /\ req = [q \in Requests |-> Idle]

Goto(q, pc) == req' = [req EXCEPT ![q].pc = pc, ![q].tries = 0]

(* AuthorizeUsage.  When the reservation commits but its answer is lost the *)
(* handler returns an error and keeps no authorization to release.          *)
Authorize(q, r, mode, asked) ==
  /\ req[q].pc = "idle"
  /\ \/ /\ ReserveUsageBalance(r, mode, asked)
        /\ \E pc \in {"running", "unanswered"} :
             req' = [req EXCEPT ![q].pc = pc, ![q].ref = r]
     \/ /\ ~CanReserve(r, mode, asked)
        /\ req' = [req EXCEPT ![q].pc = "refused"]
        /\ UNCHANGED storeVars

(* The upstream call ends, with billable usage or without. *)
UpstreamEnds(q) ==
  /\ req[q].pc = "running"
  /\ \/ Goto(q, "releasing")
     \/ \E c \in Charges :
          req' = [req EXCEPT ![q].pc = "settling", ![q].charge = c]
  /\ UNCHANGED storeVars

(* releaseSendMessageUsageAuthorization: one attempt, no retry. *)
ReleaseUsage(q) ==
  /\ req[q].pc = "releasing"
  /\ \/ ReleaseReservation(req[q].ref)
     \/ UNCHANGED storeVars
  /\ \E pc \in {"released", "failed"} : Goto(q, pc)

(* retryUsageBillingOperation after a retryable error. *)
RetryOr(q, pc) ==
  IF req[q].cut \/ req[q].tries + 1 = MaxTries
  THEN Goto(q, pc)
  ELSE req' = [req EXCEPT ![q].tries = @ + 1]

BuildLedgerFails(q) ==
  /\ req[q].pc = "settling" /\ req[q].tries = 0
  /\ Goto(q, "marking")
  /\ UNCHANGED storeVars

(* RecordUsageWithAuthorization, inside the retry loop.  The row of an      *)
(* earlier settlement may be gone: ErrNotFound is not retried.              *)
SettleUsage(q) ==
  LET r == req[q].ref
      Answered(row) == req' = [req EXCEPT ![q].pc = "stamping", ![q].tries = 0,
                                          ![q].bill = row]
  IN /\ req[q].pc = "settling" /\ ~req[q].cut
     /\ \/ /\ SettleReservation(r, req[q].charge)
           /\ Answered(Len(ledger')) \/ RetryOr(q, "marking")
        \/ /\ res[r].status = "settled" /\ SettledRow(r) \in Kept
           /\ Answered(SettledRow(r))
           /\ UNCHANGED storeVars
        \/ /\ ~CanSettle(r)
           /\ res[r].status = "settled" => SettledRow(r) \notin Kept
           /\ Goto(q, "marking")
           /\ UNCHANGED storeVars

SettleError(q) ==
  /\ req[q].pc = "settling"
  /\ RetryOr(q, "marking")
  /\ UNCHANGED storeVars

(* MarkUsageReservationReconciliationRequired, inside the retry loop.  The  *)
(* handler reports the original failure whatever the outcome.               *)
MarkForReconciliation(q) ==
  LET r == req[q].ref
  IN /\ req[q].pc = "marking" /\ ~req[q].cut
     /\ \/ /\ MarkReconciliation(r)
           /\ Goto(q, "failed") \/ RetryOr(q, "failed")
        \/ /\ ~CanReconcile(r)
           /\ Goto(q, "failed")
           /\ UNCHANGED storeVars

MarkError(q) ==
  /\ req[q].pc = "marking"
  /\ RetryOr(q, "failed")
  /\ UNCHANGED storeVars

(* UpdateMessageBilling writes the bill in memory to the message. *)
StampMessage(q) ==
  /\ req[q].pc = "stamping" /\ ~req[q].cut
  /\ req' = [req EXCEPT ![q].pc = "recorded", ![q].stamped = TRUE]
  /\ UNCHANGED storeVars

StampError(q) ==
  /\ req[q].pc = "stamping"
  /\ RetryOr(q, "failed")
  /\ UNCHANGED storeVars

(* The client goes away (SendMessage bills under the request's context) or *)
(* the ten seconds of the streaming handlers' billing context run out.     *)
ContextEnds(q) ==
  /\ req[q].pc \in {"settling", "marking", "stamping"}
  /\ ~req[q].cut
  /\ req' = [req EXCEPT ![q].cut = TRUE]
  /\ UNCHANGED storeVars

Crash(q) ==
  /\ req[q].pc \in Live
  /\ Goto(q, "crashed")
  /\ UNCHANGED storeVars

(* Mutant: the tickers are never stopped. *)
Interval_TickersLeak ==
  /\ \E renewing \in SUBSET {q \in Requests : req[q].pc # "idle"} :
       PassInterval({req[q].ref : q \in renewing})
  /\ UNCHANGED req

(* Tickers run from authorisation to the return of the handler; any of the *)
(* renewals of an interval may fail.                                       *)
Interval ==
  /\ \E renewing \in SUBSET {q \in Requests : req[q].pc \in Live} :
       PassInterval({req[q].ref : q \in renewing})
  /\ UNCHANGED req

AdminSetsBalance(b) ==
  /\ SetBalance(b)
  /\ UNCHANGED req

CleanUsageLogs ==
  /\ \E n \in Kept : DeleteUsageBefore(n)
  /\ UNCHANGED req

Handle(q) ==
  \/ UpstreamEnds(q) \/ ReleaseUsage(q)
  \/ SettleUsage(q) \/ SettleError(q) \/ BuildLedgerFails(q)
  \/ MarkForReconciliation(q) \/ MarkError(q)
  \/ StampMessage(q) \/ StampError(q)

Next ==
  \/ \E q \in Requests :
       \/ \E r \in Refs, mode \in Modes, asked \in Asks : Authorize(q, r, mode, asked)
       \/ Handle(q)
       \/ ContextEnds(q)
       \/ Crash(q)
  \/ Interval
  \/ \E b \in AdminBalances : AdminSetsBalance(b)
  \/ CleanUsageLogs

Spec == Init /\ [][Next]_vars

(* A handler that is alive keeps executing, and time passes. *)
FairSpec == Spec /\ WF_vars(Interval) /\ \A q \in Requests : WF_vars(Handle(q))

-----------------------------------------------------------------------------

ReservationType == [status : Statuses, mode : Modes, budget : Nat,
                    credit : Nat, lease : 0..LeaseTTL, entry : Nat]
LedgerRowType   == [ref : Refs, billed : Nat, covered : Nat, after : Int]
TxnType         == [kind : TxnKinds, ref : Refs \cup {"admin"},
                    amount : Int, after : Int]
RequestType     == [pc : Pcs, ref : Refs \cup {"none"}, charge : Nat,
                    tries : 0..(MaxTries - 1), cut : BOOLEAN, bill : Nat,
                    stamped : BOOLEAN]

TypeOK ==
  /\ balance \in Int
  /\ res \in [Refs -> ReservationType]
  /\ ledger \in Seq(LedgerRowType)
  /\ cleaned \in 0..Len(ledger)
  /\ txns \in Seq(TxnType)
  /\ exposure \in Nat
  /\ req \in [Requests -> RequestType]

(* A settlement whose answer was lost and that is retried, a second request *)
(* with the same run id, a release or a reconciliation racing a settlement, *)
(* or the deletion of its ledger row never charge a reference twice: a      *)
(* reference ever had a ledger row exactly when its reservation is settled, *)
(* and that is the row it points to.                                        *)
ChargedOnce ==
  \A r \in Refs :
    {i \in DOMAIN ledger : ledger[i].ref = r} =
      IF res[r].status = "settled" THEN {res[r].entry} ELSE {}

(* The balance after the first n transactions. *)
BalanceAfter(n) == IF n = 0 THEN InitBalance ELSE txns[n].after

(* The balance is explained by the transactions, each starting where the    *)
(* one before ended, and by nothing else; every charge in them is the       *)
(* overage of a ledger row of its reference, and a reference is charged by  *)
(* one transaction.                                                         *)
TxnsChain ==
  /\ balance = BalanceAfter(Len(txns))
  /\ \A i \in DOMAIN txns : txns[i].after = BalanceAfter(i - 1) + txns[i].amount

ChargesBacked ==
  \A i \in DOMAIN txns : txns[i].kind = "usage" =>
    \E j \in DOMAIN ledger :
      /\ ledger[j].ref = txns[i].ref
      /\ ledger[j].after = txns[i].after
      /\ ledger[j].billed - ledger[j].covered = - txns[i].amount

ChargesDistinct ==
  \A i, j \in DOMAIN txns :
    txns[i].kind = "usage" /\ txns[j].kind = "usage" /\ txns[i].ref = txns[j].ref
      => i = j

BalanceExplained == TxnsChain /\ ChargesBacked /\ ChargesDistinct

(* Concurrent reservations never promise more budget than the account has,  *)
(* except for what nothing could limit: usage beyond its own reservation,   *)
(* usage or reconciliation of a reservation that had expired, and a balance *)
(* the administrator lowered.                                               *)
BudgetCovered == HeldBudget <= balance + exposure

(* However reservations, lapses, settlements and log cleanup interleave,    *)
(* what the plan paid for the rows still in the table and what unexpired    *)
(* reservations were promised never exceed the period's credit together.    *)
(* (A deleted row gives its credit back: the period's usage is summed over  *)
(* the table.)                                                              *)
Unexpired == {r \in Refs : res[r].status = "active" /\ res[r].lease > 0}

CreditBounded ==
  Total(Kept, [i \in DOMAIN ledger |-> ledger[i].covered]) + Total(Unexpired, Credits)
    <= PeriodLimit

(* The bill shown on a message is the row that was charged, even when the   *)
(* settlement was retried after its answer was lost, and every handler that *)
(* reported a recorded bill has one.                                        *)
BillIsAuthoritative ==
  \A q \in Requests :
    /\ req[q].bill # 0 => /\ res[req[q].ref].entry = req[q].bill
                          /\ ledger[req[q].bill].ref = req[q].ref
                          /\ ledger[req[q].bill].billed = req[q].charge
    /\ req[q].pc = "recorded" => req[q].stamped /\ req[q].bill # 0

(* Settled and released reservations are final, and a reservation that      *)
(* waits for reconciliation can only be settled.                            *)
ReservationsFinal ==
  [][\A r \in Refs :
       /\ res[r].status \in {"settled", "released"} => res'[r] = res[r]
       /\ res[r].status = "reconciliation" =>
            res'[r].status \in {"reconciliation", "settled"}]_vars

(* A lost answer, a failed release or a crash leaks a slot for at most the  *)
(* lease: no reference stays active and unexpired for ever.                 *)
SlotsFreed ==
  \A r \in Refs :
    res[r].status = "active" ~> (res[r].status # "active" \/ res[r].lease = 0)

(* Comment of markUsageAuthorizationForReconciliation: a settlement failure *)
(* after upstream cost was incurred becomes a blocking state.               *)
FailedSettlementBlocks ==
  \A q \in Requests :
    req[q].pc = "failed" /\ req[q].charge > 0 =>
      res[req[q].ref].status \in {"settled", "reconciliation"}

(* Comment in AddPeriodUsageAndSettleOverage: a reservation only limits the *)
(* concurrency risk and does not change the amount that is finally charged. *)
(* The plan pays whatever of its credit the earlier usage left (as long as  *)
(* no row of the ledger was deleted).                                       *)
ReservationsKeepCharges ==
  cleaned = 0 => \A i \in DOMAIN ledger :
    res[ledger[i].ref].mode = "period" =>
      ledger[i].covered =
        Lesser(ledger[i].billed,
               Remaining(PeriodLimit,
                         Total(1..(i-1), [j \in 1..(i-1) |-> ledger[j].billed]), 0))

(* The reservations, retries and reconciliations implement the promise of   *)
(* UserAccount: the rows ever written are the bills (deleting one takes its *)
(* charge back from nobody), the transactions that are no usage the credits.*)
Bills   == {[ref |-> ledger[i].ref, amount |-> ledger[i].billed - ledger[i].covered] :
              i \in DOMAIN ledger}
Adjustments == {[nr |-> i, amount |-> txns[i].amount] :
                  i \in {j \in DOMAIN txns : txns[j].kind # "usage"}}

Promise == INSTANCE UserAccount WITH bills <- Bills, credits <- Adjustments

KeepsPromise == Promise!Spec
=============================================================================
