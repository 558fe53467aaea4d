---------------------------- MODULE BillingStore ----------------------------
(***************************************************************************)
(* The billing tables of one user, and the database transactions of the    *)
(* billing repository on them.  Every transaction starts by locking the    *)
(* user's account row or the reservation row, and the rows of other users  *)
(* are never read, so each transaction is one atomic step.                 *)
(*                                                                         *)
(*   balance   billing_accounts.balance                                    *)
(*   res       billing_usage_reservations, by ref_no                       *)
(*   ledger    usage ledger rows ever written, in insertion order (one     *)
(*             billing period); a row's id is its index                    *)
(*   cleaned   the first so many of them were deleted by log cleanup       *)
(*   txns      balance transactions, in insertion order                    *)
(*   exposure  history variable: how much the budget has been overdrawn    *)
(*             by things a reservation does not limit (see BudgetCovered)  *)
(*                                                                         *)
(* Time is counted in renewal intervals: lease is the number of intervals  *)
(* left before expires_at.                                                 *)
(***************************************************************************)
EXTENDS Totals, Sequences

CONSTANTS
  Refs,         \* reference numbers (client run ids)
  MaxActive,    \* UsageReservationMaxActivePerUser
  LeaseTTL,     \* usageReservationTTL, in renewal intervals
  PeriodLimit,  \* credit of the user's plan for the period
  InitBalance,
  MaxAdminSets  \* bound: how often an administrator sets the balance

ASSUME StoreAssumption ==
  /\ IsFiniteSet(Refs)
  /\ MaxActive \in Nat \ {0}
  /\ LeaseTTL \in Nat \ {0}
  /\ PeriodLimit \in Nat
  /\ InitBalance \in Nat
  /\ MaxAdminSets \in Nat

VARIABLES balance, res, ledger, cleaned, txns, exposure

storeVars == <<balance, res, ledger, cleaned, txns, exposure>>

Modes    == {"usage", "period"}
Statuses == {"none", "active", "released", "settled", "reconciliation"}
TxnKinds == {"usage", "admin_set", "topup", "redemption"}

NoReservation == [status |-> "none", mode |-> "usage", budget |-> 0,
                  credit |-> 0, lease |-> 0, entry |-> 0]

StoreInit ==
  /\ balance = InitBalance
  /\ res = [r \in Refs |-> NoReservation]
  /\ ledger = <<>>
  /\ cleaned = 0
  /\ txns = <<>>
  /\ exposure = 0

(***************************************************************************)
(* Reservations that still block budget and occupy a concurrency slot.     *)
(***************************************************************************)
Holding(r) ==
  \/ res[r].status = "active" /\ res[r].lease > 0
  \/ res[r].status = "reconciliation"

Holders == { r \in Refs : Holding(r) }

Budgets == [r \in Refs |-> res[r].budget]
Credits == [r \in Refs |-> res[r].credit]

HeldBudget        == Total(Holders, Budgets)
HeldCredit(owner) == Total(Holders \ owner, Credits)

(* The rows of the ledger that are still in the table. *)
Kept == (cleaned + 1)..Len(ledger)
Used == Total(Kept, [i \in DOMAIN ledger |-> ledger[i].billed])

Remaining(limit, consumed, reserved) == NonNegative(limit - consumed - reserved)

(* Mutant: the other reservations are not subtracted. *)
AvailableBudget_HeldIgnored == Remaining(balance, 0, 0)

AvailableBudget       == Remaining(balance, 0, HeldBudget)
AvailableCredit(mode) ==
  IF mode = "period" THEN Remaining(PeriodLimit, Used, HeldCredit({})) ELSE 0

(* asked = 0: the configured prepaid amount is off, share what is available *)
(* equally between the free slots.                                          *)
Requested(mode, asked) ==
  IF asked > 0 THEN asked
  ELSE CeilDiv(AvailableCredit(mode) + AvailableBudget,
               MaxActive - Cardinality(Holders))

CanReserve(r, mode, asked) ==
  /\ res[r].status = "none"
  /\ Cardinality(Holders) < MaxActive
  /\ balance >= 0
  /\ Requested(mode, asked) \in 1..(AvailableCredit(mode) + AvailableBudget)

ReserveUsageBalance(r, mode, asked) ==
  LET amount == Requested(mode, asked)
      credit == Lesser(amount, AvailableCredit(mode))
  IN /\ CanReserve(r, mode, asked)
     /\ res' = [res EXCEPT ![r] = [status |-> "active", mode |-> mode,
                                   budget |-> amount - credit, credit |-> credit,
                                   lease |-> LeaseTTL, entry |-> 0]]
     /\ UNCHANGED <<balance, ledger, cleaned, txns, exposure>>

(* Idempotent: anything but an active reservation is left as it is. *)
ReleaseReservation(r) ==
  /\ res' = IF res[r].status = "active"
            THEN [res EXCEPT ![r].status = "released"]
            ELSE res
  /\ UNCHANGED <<balance, ledger, cleaned, txns, exposure>>

(* Mutant: the update is not restricted to unsettled reservations. *)
CanReconcile_AnyStatus(r) == res[r].status # "none"

(* FALSE when no row matches: the caller gets ErrConflict. *)
CanReconcile(r) == res[r].status \in {"active", "reconciliation"}

MarkReconciliation(r) ==
  /\ CanReconcile(r)
  /\ res' = [res EXCEPT ![r].status = "reconciliation"]
  /\ exposure' = exposure + IF Holding(r) THEN 0 ELSE res[r].budget
  /\ UNCHANGED <<balance, ledger, cleaned, txns>>

(* Mutant: the balance read before the update is recorded. *)
AppendTxn_StaleBalance(kind, ref, amount) ==
  txns' = Append(txns, [kind |-> kind, ref |-> ref,
                        amount |-> amount, after |-> balance])

AppendTxn(kind, ref, amount) ==
  txns' = Append(txns, [kind |-> kind, ref |-> ref,
                        amount |-> amount, after |-> balance'])

(* Mutant: only a released reservation is refused. *)
CanSettle_AgainAndAgain(r) == res[r].status # "released"

(* Mutant: whether a reference was charged is read off the ledger. *)
CanSettle_RowLookedUp(r) ==
  res[r].status \in {"active", "reconciliation", "settled"} /\ res[r].entry \notin Kept

CanSettle(r) == res[r].status \in {"active", "reconciliation"}

(* An earlier settlement answers with the ledger row it wrote.  Mutant: with *)
(* the newest row.                                                          *)
SettledRow_Newest(r) == Len(ledger)

SettledRow(r) == res[r].entry

(* Mutant: usage that is settled already is not deducted from the credit. *)
Covered_UsedIgnored(r, charge) ==
  IF res[r].mode = "period"
  THEN Lesser(charge, Remaining(PeriodLimit, 0, HeldCredit({r})))
  ELSE 0

Covered(r, charge) ==
  IF res[r].mode = "period"
  THEN Lesser(charge, Remaining(PeriodLimit, Used, HeldCredit({r})))
  ELSE 0

(* A balance transaction is written only when the balance moves. *)
SettleReservation(r, charge) ==
  LET covered == Covered(r, charge)
      overage == charge - covered
      held    == IF Holding(r) THEN res[r].budget ELSE 0
  IN /\ CanSettle(r)
     /\ balance' = balance - overage
     /\ ledger' = Append(ledger, [ref |-> r, billed |-> charge,
                                  covered |-> covered, after |-> balance'])
     /\ IF overage > 0 THEN AppendTxn("usage", r, -overage) ELSE UNCHANGED txns
     /\ res' = [res EXCEPT ![r].status = "settled", ![r].entry = Len(ledger')]
     /\ exposure' = exposure + NonNegative(overage - held)
     /\ UNCHANGED cleaned

(* One renewal interval passes.  The renewals of the references in renewed  *)
(* reach the database; they only match an active, unexpired row.            *)
PassInterval(renewed) ==
  /\ \E r \in Refs : res[r].status = "active" /\ res[r].lease > 0
  /\ res' = [r \in Refs |->
       IF res[r].status # "active" THEN res[r]
       ELSE IF r \in renewed /\ res[r].lease > 1
            THEN [res[r] EXCEPT !.lease = LeaseTTL]
            ELSE [res[r] EXCEPT !.lease = NonNegative(@ - 1)]]
  /\ UNCHANGED <<balance, ledger, cleaned, txns, exposure>>

(* SetBillingAccountBalance: the administrator overwrites the balance. *)
SetBalance(b) ==
  /\ b \in Nat
  /\ Cardinality({i \in DOMAIN txns : txns[i].kind = "admin_set"}) < MaxAdminSets
  /\ balance' = b
  /\ IF b # balance THEN AppendTxn("admin_set", "admin", b - balance)
                    ELSE UNCHANGED txns
  /\ exposure' = exposure + NonNegative(balance - b)
  /\ UNCHANGED <<res, ledger, cleaned>>

(* DeleteBefore of the log cleanup, type usage: every row created before a  *)
(* moment that is not in the future leaves the table, without any lock.     *)
DeleteUsageBefore(n) ==
  /\ n \in Kept
  /\ cleaned' = n
  /\ UNCHANGED <<balance, res, ledger, txns, exposure>>

=============================================================================
