------------------------- MODULE UsageBillingProofs -------------------------
(***************************************************************************)
(* Theorems about UsageBilling for every number of references, requests,   *)
(* slots and attempts, every lease and every amount: its types, then the   *)
(* safety of the accounts (every reference charged once, a balance that    *)
(* its transactions explain, budgets that the balance covers, a period     *)
(* credit that is never exceeded, final states that stay final) and the    *)
(* promise of UserAccount, all from what one transaction does (StoreStep). *)
(***************************************************************************)
EXTENDS UsageBilling, TotalsTheorems, SequenceTheorems

StoreTypeOK ==
  /\ balance \in Int
  /\ res \in [Refs -> ReservationType]
  /\ ledger \in Seq(LedgerRowType)
  /\ cleaned \in 0..Len(ledger)
  /\ txns \in Seq(TxnType)
  /\ exposure \in Nat

(* A handler that has been authorised knows its reference. *)
Authorised == \A q \in Requests : req[q].pc \in Live => req[q].ref \in Refs

TypeInv == TypeOK /\ Authorised

-----------------------------------------------------------------------------

(* The clamps and the minimum used by the budget arithmetic stay natural.   *)
LEMMA RemainingNat ==
  ASSUME NEW limit \in Int, NEW consumed \in Int, NEW reserved \in Int
  PROVE  /\ Remaining(limit, consumed, reserved) \in Nat
         /\ Remaining(limit, consumed, reserved) = 0
              \/ Remaining(limit, consumed, reserved) = limit - consumed - reserved
         /\ Remaining(limit, consumed, reserved) >= limit - consumed - reserved
BY DEF Remaining, NonNegative

LEMMA LesserNat ==
  ASSUME NEW a \in Nat, NEW b \in Nat
  PROVE  Lesser(a, b) \in Nat /\ Lesser(a, b) <= a /\ Lesser(a, b) <= b
BY DEF Lesser

(* The sums the transactions compute are natural numbers. *)
LEMMA KeptRows ==
  ASSUME ledger \in Seq(LedgerRowType), cleaned \in 0..Len(ledger)
  PROVE  /\ DOMAIN ledger = 1..Len(ledger) /\ Len(ledger) \in Nat
         /\ Kept \subseteq DOMAIN ledger
         /\ IsFiniteSet(DOMAIN ledger) /\ IsFiniteSet(Kept)
<1>1. DOMAIN ledger = 1..Len(ledger) /\ Len(ledger) \in Nat
  OBVIOUS
<1>2. Kept \subseteq DOMAIN ledger
  BY <1>1 DEF Kept
<1>3. IsFiniteSet(DOMAIN ledger)
  BY <1>1, FS_Interval
<1> QED BY <1>1, <1>2, <1>3, FS_Subset

LEMMA UsedNat ==
  ASSUME ledger \in Seq(LedgerRowType), cleaned \in 0..Len(ledger)
  PROVE  Used \in Nat
<1>1. ASSUME NEW i \in Kept
      PROVE  [j \in DOMAIN ledger |-> ledger[j].billed][i] \in Nat
  <2>1. i \in DOMAIN ledger /\ ledger[i] \in LedgerRowType
    BY KeptRows
  <2> QED BY <2>1 DEF LedgerRowType
<1> QED BY <1>1, KeptRows, TotalNat DEF Used

LEMMA HoldersFinite == IsFiniteSet(Holders) /\ Holders \subseteq Refs
<1>1. Holders \subseteq Refs
  BY DEF Holders
<1> QED BY <1>1, FS_Subset, StoreAssumption

LEMMA HeldNat ==
  ASSUME res \in [Refs -> ReservationType]
  PROVE  HeldBudget \in Nat /\ \A owner : HeldCredit(owner) \in Nat
<1>1. \A r \in Refs : Budgets[r] \in Nat /\ Credits[r] \in Nat
  BY DEF Budgets, Credits, ReservationType
<1>2. HeldBudget \in Nat
  BY <1>1, HoldersFinite, TotalNat DEF HeldBudget
<1>3. ASSUME NEW owner PROVE HeldCredit(owner) \in Nat
  <2>1. IsFiniteSet(Holders \ owner) /\ Holders \ owner \subseteq Refs
    BY HoldersFinite, FS_Difference
  <2> QED BY <1>1, <2>1, TotalNat DEF HeldCredit
<1> QED BY <1>2, <1>3

LEMMA AvailableNat ==
  ASSUME StoreTypeOK, NEW mode
  PROVE  AvailableBudget \in Nat /\ AvailableCredit(mode) \in Nat
<1>1. HeldBudget \in Int /\ HeldCredit({}) \in Int /\ Used \in Int
  <2>1. HeldBudget \in Nat /\ HeldCredit({}) \in Nat /\ Used \in Nat
    BY UsedNat, HeldNat DEF StoreTypeOK
  <2> QED BY <2>1
<1>2. AvailableBudget \in Nat
  <2>1. balance \in Int /\ 0 \in Int
    BY DEF StoreTypeOK
  <2> QED BY <1>1, <2>1, RemainingNat DEF AvailableBudget
<1>3. Remaining(PeriodLimit, Used, HeldCredit({})) \in Nat
  <2>1. PeriodLimit \in Int
    BY StoreAssumption
  <2> QED BY <1>1, <2>1, RemainingNat
<1> QED BY <1>2, <1>3 DEF AvailableCredit

LEMMA CoveredNat ==
  ASSUME StoreTypeOK, NEW r, NEW charge \in Nat
  PROVE  Covered(r, charge) \in Nat /\ Covered(r, charge) <= charge
<1>1. HeldCredit({r}) \in Int /\ Used \in Int
  <2>1. HeldCredit({r}) \in Nat /\ Used \in Nat
    BY UsedNat, HeldNat DEF StoreTypeOK
  <2> QED BY <2>1
<1>2. Remaining(PeriodLimit, Used, HeldCredit({r})) \in Nat
  <2>1. PeriodLimit \in Int
    BY StoreAssumption
  <2> QED BY <1>1, <2>1, RemainingNat
<1> QED BY <1>2, LesserNat DEF Covered

-----------------------------------------------------------------------------
(* Every transaction keeps the types of the tables. *)

LEMMA ReserveType ==
  ASSUME StoreTypeOK, NEW r \in Refs, NEW mode \in Modes, NEW asked \in Nat,
         ReserveUsageBalance(r, mode, asked)
  PROVE  StoreTypeOK'
<1> DEFINE amount == Requested(mode, asked)
           credit == Lesser(amount, AvailableCredit(mode))
           row    == [status |-> "active", mode |-> mode, budget |-> amount - credit,
                      credit |-> credit, lease |-> LeaseTTL, entry |-> 0]
<1>1. AvailableBudget \in Nat /\ AvailableCredit(mode) \in Nat
  BY AvailableNat
<1>2. amount \in 1..(AvailableCredit(mode) + AvailableBudget)
  BY DEF ReserveUsageBalance, CanReserve
<1>3. amount \in Nat
  BY <1>1, <1>2
<1>4. credit \in Nat /\ credit <= amount
  <2> HIDE DEF amount
  <2> QED BY <1>1, <1>3, LesserNat
<1>5. row \in ReservationType
  <2> HIDE DEF amount, credit
  <2> QED BY <1>3, <1>4, StoreAssumption DEF ReservationType, Statuses
<1>6. res' = [res EXCEPT ![r] = row]
  BY DEF ReserveUsageBalance
<1>7. UNCHANGED <<balance, ledger, cleaned, txns, exposure>>
  BY DEF ReserveUsageBalance
<1> HIDE DEF row
<1> QED BY <1>5, <1>6, <1>7 DEF StoreTypeOK

LEMMA ReleaseType ==
  ASSUME StoreTypeOK, NEW r \in Refs, ReleaseReservation(r)
  PROVE  StoreTypeOK'
BY DEF StoreTypeOK, ReleaseReservation, ReservationType, Statuses

LEMMA MarkType ==
  ASSUME StoreTypeOK, NEW r \in Refs, MarkReconciliation(r)
  PROVE  StoreTypeOK'
<1>1. res' \in [Refs -> ReservationType]
  BY DEF StoreTypeOK, MarkReconciliation, ReservationType, Statuses
<1>2. exposure' \in Nat
  BY DEF StoreTypeOK, MarkReconciliation, ReservationType
<1> QED BY <1>1, <1>2 DEF StoreTypeOK, MarkReconciliation

LEMMA SettleType ==
  ASSUME StoreTypeOK, NEW r \in Refs, NEW charge \in Nat, SettleReservation(r, charge)
  PROVE  StoreTypeOK'
<1> DEFINE covered == Covered(r, charge)
           overage == charge - covered
           row == [ref |-> r, billed |-> charge, covered |-> covered, after |-> balance']
<1>1. covered \in Nat /\ overage \in Nat
  BY CoveredNat
<1>2. balance' = balance - overage
  BY DEF SettleReservation
<1>3. balance' \in Int
  BY <1>1, <1>2 DEF StoreTypeOK
<1>4. row \in LedgerRowType
  <2> HIDE DEF covered
  <2> QED BY <1>1, <1>3 DEF LedgerRowType
<1>5. ledger' = Append(ledger, row)
  BY DEF SettleReservation
<1>6. /\ ledger' \in Seq(LedgerRowType) /\ Len(ledger') \in Nat
      /\ cleaned' \in 0..Len(ledger')
  <2>1. cleaned' = cleaned
    BY DEF SettleReservation
  <2> HIDE DEF row
  <2> QED BY <1>4, <1>5, <2>1 DEF StoreTypeOK
<1>7. txns' \in Seq(TxnType)
  <2>1. CASE overage > 0
    <3> DEFINE txn == [kind |-> "usage", ref |-> r, amount |-> -overage, after |-> balance']
    <3>1. txns' = Append(txns, txn)
      BY <2>1 DEF SettleReservation, AppendTxn
    <3>2. txn \in TxnType
      <4> HIDE DEF overage
      <4> QED BY <1>1, <1>3 DEF TxnType, TxnKinds
    <3> HIDE DEF txn
    <3> QED BY <3>1, <3>2 DEF StoreTypeOK
  <2>2. CASE ~(overage > 0)
    <3>1. UNCHANGED txns
      BY <2>2 DEF SettleReservation
    <3> QED BY <3>1 DEF StoreTypeOK
  <2> QED BY <2>1, <2>2
<1>8. res' \in [Refs -> ReservationType]
  <2>1. res' = [res EXCEPT ![r].status = "settled", ![r].entry = Len(ledger')]
    BY DEF SettleReservation
  <2> QED BY <1>6, <2>1 DEF StoreTypeOK, ReservationType, Statuses
<1>9. exposure' \in Nat
  <2>1. exposure' = exposure + NonNegative(overage - IF Holding(r) THEN res[r].budget ELSE 0)
    BY DEF SettleReservation
  <2>2. res[r].budget \in Nat
    BY DEF StoreTypeOK, ReservationType
  <2> HIDE DEF overage
  <2> QED BY <1>1, <2>1, <2>2 DEF StoreTypeOK, NonNegative
<1> QED BY <1>3, <1>6, <1>7, <1>8, <1>9 DEF StoreTypeOK

LEMMA IntervalType ==
  ASSUME StoreTypeOK, NEW renewed, PassInterval(renewed)
  PROVE  StoreTypeOK'
<1>1. ASSUME NEW r \in Refs
      PROVE  /\ [res[r] EXCEPT !.lease = LeaseTTL] \in ReservationType
             /\ [res[r] EXCEPT !.lease = NonNegative(@ - 1)] \in ReservationType
  <2>1. res[r] \in ReservationType
    BY DEF StoreTypeOK
  <2>2. LeaseTTL \in 0..LeaseTTL
    BY StoreAssumption
  <2>3. res[r].lease \in 0..LeaseTTL
    BY <2>1 DEF ReservationType
  <2>4. NonNegative(res[r].lease - 1) \in 0..LeaseTTL
    BY <2>3, StoreAssumption DEF NonNegative
  <2> QED BY <2>1, <2>2, <2>4 DEF ReservationType
<1>2. res' \in [Refs -> ReservationType]
  BY <1>1 DEF StoreTypeOK, PassInterval
<1> QED BY <1>2 DEF StoreTypeOK, PassInterval

LEMMA SetBalanceType ==
  ASSUME StoreTypeOK, NEW b \in Nat, SetBalance(b)
  PROVE  StoreTypeOK'
<1>1. balance' = b /\ UNCHANGED <<res, ledger, cleaned>>
  BY DEF SetBalance
<1>2. exposure' \in Nat
  BY DEF SetBalance, StoreTypeOK, NonNegative
<1>3. txns' \in Seq(TxnType)
  <2> DEFINE txn == [kind |-> "admin_set", ref |-> "admin",
                     amount |-> b - balance, after |-> balance']
  <2>1. txn \in TxnType
    BY <1>1 DEF TxnType, TxnKinds, StoreTypeOK
  <2>2. txns' = Append(txns, txn) \/ txns' = txns
    BY DEF SetBalance, AppendTxn
  <2> HIDE DEF txn
  <2> QED BY <2>1, <2>2 DEF StoreTypeOK
<1> QED BY <1>1, <1>2, <1>3 DEF StoreTypeOK

LEMMA DeleteType ==
  ASSUME StoreTypeOK, NEW n, DeleteUsageBefore(n)
  PROVE  StoreTypeOK'
<1>1. cleaned' = n /\ n \in (cleaned + 1)..Len(ledger)
      /\ UNCHANGED <<balance, res, ledger, txns, exposure>>
  BY DEF DeleteUsageBefore, Kept
<1>2. n \in 0..Len(ledger)
  BY <1>1 DEF StoreTypeOK
<1> QED BY <1>1, <1>2 DEF StoreTypeOK

-----------------------------------------------------------------------------
(* What a step of any handler does to the tables is one transaction.       *)

StoreStep ==
  \/ \E r \in Refs, mode \in Modes, asked \in Nat : ReserveUsageBalance(r, mode, asked)
  \/ \E r \in Refs : ReleaseReservation(r)
  \/ \E r \in Refs : MarkReconciliation(r)
  \/ \E r \in Refs, charge \in Nat : SettleReservation(r, charge)
  \/ \E renewed : PassInterval(renewed)
  \/ \E b \in Nat : SetBalance(b)
  \/ \E n : DeleteUsageBefore(n)
  \/ UNCHANGED storeVars

(* All of them but a settlement, which only the handler of its reference    *)
(* makes.                                                                   *)
UnsettledStep ==
  \/ \E r \in Refs, mode \in Modes, asked \in Nat : ReserveUsageBalance(r, mode, asked)
  \/ \E r \in Refs : ReleaseReservation(r)
  \/ \E r \in Refs : MarkReconciliation(r)
  \/ \E renewed : PassInterval(renewed)
  \/ \E b \in Nat : SetBalance(b)
  \/ \E n : DeleteUsageBefore(n)
  \/ UNCHANGED storeVars

SettlesFor(q) ==
  /\ SettleUsage(q)
  /\ req[q].ref \in Refs /\ req[q].charge \in Nat
  /\ SettleReservation(req[q].ref, req[q].charge)

LEMMA HandlerStep ==
  ASSUME TypeInv, [Next]_vars
  PROVE  UnsettledStep \/ \E q \in Requests : SettlesFor(q)
<1> DEFINE Known == UnsettledStep \/ \E q \in Requests : SettlesFor(q)
<1>1. ASSUME NEW q \in Requests, req[q].pc \in Live
      PROVE  req[q].ref \in Refs /\ req[q].charge \in Nat
  BY <1>1 DEF TypeInv, TypeOK, Authorised, RequestType
<1>2. CASE UNCHANGED vars
  BY <1>2 DEF vars, UnsettledStep
<1>3. ASSUME NEW q \in Requests, NEW r \in Refs, NEW mode \in Modes, NEW asked \in Asks,
             Authorize(q, r, mode, asked)
      PROVE  Known
  <2>1. asked \in Nat
    BY BillingAssumption
  <2> QED BY <1>3, <2>1 DEF Authorize, UnsettledStep
<1>4. ASSUME NEW q \in Requests, Handle(q)
      PROVE  Known
  <2>1. CASE ReleaseUsage(q)
    <3>1. req[q].ref \in Refs
      BY <1>1, <2>1 DEF ReleaseUsage, Live
    <3> QED BY <2>1, <3>1 DEF ReleaseUsage, UnsettledStep
  <2>2. CASE SettleUsage(q)
    <3>1. req[q].ref \in Refs /\ req[q].charge \in Nat
      BY <1>1, <2>2 DEF SettleUsage, Live
    <3> QED BY <2>2, <3>1 DEF SettleUsage, SettlesFor, UnsettledStep
  <2>3. CASE MarkForReconciliation(q)
    <3>1. req[q].ref \in Refs
      BY <1>1, <2>3 DEF MarkForReconciliation, Live
    <3> QED BY <2>3, <3>1 DEF MarkForReconciliation, UnsettledStep
  <2>4. CASE \/ UpstreamEnds(q) \/ BuildLedgerFails(q) \/ SettleError(q)
             \/ MarkError(q) \/ StampMessage(q) \/ StampError(q)
    <3>1. UNCHANGED storeVars
      BY <2>4 DEF UpstreamEnds, BuildLedgerFails, SettleError, MarkError, StampMessage,
                  StampError
    <3> QED BY <3>1 DEF UnsettledStep
  <2> QED BY <1>4, <2>1, <2>2, <2>3, <2>4 DEF Handle
<1>5. ASSUME NEW q \in Requests, ContextEnds(q) \/ Crash(q)
      PROVE  Known
  BY <1>5 DEF ContextEnds, Crash, UnsettledStep
<1>6. CASE Interval
  BY <1>6 DEF Interval, UnsettledStep
<1>7. ASSUME NEW b \in AdminBalances, AdminSetsBalance(b)
      PROVE  Known
  <2>1. b \in Nat
    BY BillingAssumption
  <2> QED BY <1>7, <2>1 DEF AdminSetsBalance, UnsettledStep
<1>8. CASE CleanUsageLogs
  BY <1>8 DEF CleanUsageLogs, UnsettledStep
<1> QED BY <1>2, <1>3, <1>4, <1>5, <1>6, <1>7, <1>8 DEF Next

LEMMA StepIsTransaction ==
  ASSUME TypeInv, [Next]_vars
  PROVE  StoreStep
BY HandlerStep DEF UnsettledStep, SettlesFor, StoreStep

LEMMA StoreTypeStep ==
  ASSUME StoreTypeOK, StoreStep
  PROVE  StoreTypeOK'
<1>1. CASE UNCHANGED storeVars
  BY <1>1 DEF storeVars, StoreTypeOK
<1> QED BY <1>1, ReserveType, ReleaseType, MarkType, SettleType, IntervalType,
           SetBalanceType, DeleteType DEF StoreStep

-----------------------------------------------------------------------------
(* Type correctness of the handlers' local states. *)

ReqOK(q) == req[q] \in RequestType /\ (req[q].pc \in Live => req[q].ref \in Refs)

LEMMA GotoOK ==
  ASSUME TypeInv, NEW q \in Requests, req[q].ref \in Refs, NEW pc \in Pcs, Goto(q, pc)
  PROVE  \A p \in Requests : ReqOK(p)'
<1>1. 0 \in 0..(MaxTries - 1)
  BY BillingAssumption
<1>2. req \in [Requests -> RequestType]
  BY DEF TypeInv, TypeOK
<1>3. [[req[q] EXCEPT !.pc = pc] EXCEPT !.tries = 0] \in RequestType
  BY <1>1, <1>2 DEF RequestType
<1>4. ASSUME NEW p \in Requests, p # q PROVE req'[p] = req[p]
  BY <1>2, <1>4 DEF Goto
<1>5. req'[q] = [[req[q] EXCEPT !.pc = pc] EXCEPT !.tries = 0]
  BY <1>2 DEF Goto
<1>6. req'[q].ref = req[q].ref
  BY <1>2, <1>5 DEF RequestType
<1> QED BY <1>2, <1>3, <1>4, <1>5, <1>6 DEF ReqOK, TypeInv, Authorised

LEMMA RetryOK ==
  ASSUME TypeInv, NEW q \in Requests, req[q].ref \in Refs, NEW pc \in Pcs, RetryOr(q, pc)
  PROVE  \A p \in Requests : ReqOK(p)'
<1>1. CASE req[q].cut \/ req[q].tries + 1 = MaxTries
  BY <1>1, GotoOK DEF RetryOr
<1>2. CASE ~(req[q].cut \/ req[q].tries + 1 = MaxTries)
  <2>1. req \in [Requests -> RequestType]
    BY DEF TypeInv, TypeOK
  <2>2. req' = [req EXCEPT ![q].tries = req[q].tries + 1]
    BY <1>2, <2>1 DEF RetryOr
  <2>3. req[q].tries + 1 \in 0..(MaxTries - 1)
    BY <1>2, <2>1, BillingAssumption DEF RequestType
  <2>4. [req[q] EXCEPT !.tries = req[q].tries + 1] \in RequestType
    BY <2>1, <2>3 DEF RequestType
  <2>5. ASSUME NEW p \in Requests, p # q PROVE req'[p] = req[p]
    BY <2>1, <2>2, <2>5
  <2>6. req'[q] = [req[q] EXCEPT !.tries = req[q].tries + 1]
    BY <2>1, <2>2
  <2>7. req'[q].ref = req[q].ref
    BY <2>1, <2>6 DEF RequestType
  <2> QED BY <2>1, <2>4, <2>5, <2>6, <2>7 DEF ReqOK, TypeInv, Authorised
<1> QED BY <1>1, <1>2

(* A request takes a new state of its type, the others keep theirs. *)
LEMMA ChangedOK ==
  ASSUME TypeInv, NEW q \in Requests, NEW new \in RequestType, new.ref \in Refs,
         req'[q] = new, \A p \in Requests : p # q => req'[p] = req[p]
  PROVE  \A p \in Requests : ReqOK(p)'
<1>1. ASSUME NEW p \in Requests, p # q PROVE ReqOK(p)'
  BY <1>1 DEF ReqOK, TypeInv, TypeOK, Authorised
<1>2. ReqOK(q)'
  BY DEF ReqOK
<1> QED BY <1>1, <1>2

LEMMA RequestStep ==
  ASSUME TypeInv, StoreTypeOK', [Next]_vars
  PROVE  \A p \in Requests : ReqOK(p)'
<1>1. req \in [Requests -> RequestType]
  BY DEF TypeInv, TypeOK
<1>2. ASSUME NEW q \in Requests, req[q].pc \in Live
      PROVE  req[q].ref \in Refs
  BY <1>2 DEF TypeInv, Authorised
<1>3. CASE UNCHANGED req
  BY <1>1, <1>3 DEF ReqOK, TypeInv, Authorised
<1>4. ASSUME NEW q \in Requests, NEW r \in Refs, NEW mode \in Modes, NEW asked \in Asks,
             Authorize(q, r, mode, asked)
      PROVE  \A p \in Requests : ReqOK(p)'
  <2>1. CASE \E pc \in {"running", "unanswered"} :
               req' = [req EXCEPT ![q].pc = pc, ![q].ref = r]
    <3>1. PICK pc \in {"running", "unanswered"} :
                 req' = [req EXCEPT ![q].pc = pc, ![q].ref = r]
      BY <2>1
    <3>2. [[req[q] EXCEPT !.pc = pc] EXCEPT !.ref = r] \in RequestType
      BY <1>1, <3>1 DEF RequestType, Pcs
    <3>3. req'[q] = [[req[q] EXCEPT !.pc = pc] EXCEPT !.ref = r] /\ req'[q].ref = r
      BY <1>1, <3>1 DEF RequestType
    <3>4. ASSUME NEW p \in Requests, p # q PROVE req'[p] = req[p]
      BY <1>1, <3>1, <3>4
    <3> QED BY <1>1, <3>2, <3>3, <3>4 DEF ReqOK, TypeInv, Authorised
  <2>2. CASE req' = [req EXCEPT ![q].pc = "refused"]
    BY <1>1, <2>2 DEF ReqOK, TypeInv, Authorised, RequestType, Pcs, Live
  <2> QED BY <1>4, <2>1, <2>2 DEF Authorize
<1>5. ASSUME NEW q \in Requests, UpstreamEnds(q)
      PROVE  \A p \in Requests : ReqOK(p)'
  <2>1. req[q].ref \in Refs
    BY <1>2, <1>5 DEF UpstreamEnds, Live
  <2>2. CASE Goto(q, "releasing")
    BY <2>1, <2>2, GotoOK DEF Pcs
  <2>3. ASSUME NEW c \in Charges,
               req' = [req EXCEPT ![q].pc = "settling", ![q].charge = c]
        PROVE  \A p \in Requests : ReqOK(p)'
    <3> DEFINE new == [[req[q] EXCEPT !.pc = "settling"] EXCEPT !.charge = c]
    <3>1. c \in Nat
      BY BillingAssumption
    <3>2. new \in RequestType /\ new.ref \in Refs
      BY <1>1, <2>1, <3>1 DEF RequestType, Pcs
    <3>3. req'[q] = new /\ \A p \in Requests : p # q => req'[p] = req[p]
      BY <1>1, <2>3
    <3> HIDE DEF new
    <3> QED BY <3>2, <3>3, ChangedOK
  <2> QED BY <1>5, <2>2, <2>3 DEF UpstreamEnds
<1>6. ASSUME NEW q \in Requests, SettleUsage(q)
      PROVE  \A p \in Requests : ReqOK(p)'
  <2>1. req[q].ref \in Refs
    BY <1>2, <1>6 DEF SettleUsage, Live
  <2>2. ASSUME NEW row \in Nat,
               req' = [req EXCEPT ![q].pc = "stamping", ![q].tries = 0, ![q].bill = row]
        PROVE  \A p \in Requests : ReqOK(p)'
    <3> DEFINE new == [[[req[q] EXCEPT !.pc = "stamping"] EXCEPT !.tries = 0] EXCEPT !.bill = row]
    <3>1. 0 \in 0..(MaxTries - 1)
      BY BillingAssumption
    <3>2. new \in RequestType /\ new.ref \in Refs
      BY <1>1, <2>1, <3>1 DEF RequestType, Pcs
    <3>3. req'[q] = new /\ \A p \in Requests : p # q => req'[p] = req[p]
      BY <1>1, <2>2
    <3> HIDE DEF new
    <3> QED BY <3>2, <3>3, ChangedOK
  <2>3. Len(ledger') \in Nat /\ SettledRow(req[q].ref) \in Nat
    BY <2>1 DEF StoreTypeOK, TypeInv, TypeOK, SettledRow, ReservationType
  <2>4. \/ RetryOr(q, "marking") \/ Goto(q, "marking")
        \/ \E row \in Nat :
             req' = [req EXCEPT ![q].pc = "stamping", ![q].tries = 0, ![q].bill = row]
    BY <1>6, <2>3 DEF SettleUsage
  <2> QED BY <2>1, <2>2, <2>4, GotoOK, RetryOK DEF Pcs
<1>7. ASSUME NEW q \in Requests, StampMessage(q) \/ ContextEnds(q)
      PROVE  \A p \in Requests : ReqOK(p)'
  <2>1. req[q].ref \in Refs
    BY <1>2, <1>7 DEF StampMessage, ContextEnds, Live
  <2>2. CASE req' = [req EXCEPT ![q].pc = "recorded", ![q].stamped = TRUE]
    <3> DEFINE new == [[req[q] EXCEPT !.pc = "recorded"] EXCEPT !.stamped = TRUE]
    <3>1. new \in RequestType /\ new.ref \in Refs
      BY <1>1, <2>1 DEF RequestType, Pcs
    <3>2. req'[q] = new /\ \A p \in Requests : p # q => req'[p] = req[p]
      BY <1>1, <2>2
    <3> HIDE DEF new
    <3> QED BY <3>1, <3>2, ChangedOK
  <2>3. CASE req' = [req EXCEPT ![q].cut = TRUE]
    <3> DEFINE new == [req[q] EXCEPT !.cut = TRUE]
    <3>1. new \in RequestType /\ new.ref \in Refs
      BY <1>1, <2>1 DEF RequestType
    <3>2. req'[q] = new /\ \A p \in Requests : p # q => req'[p] = req[p]
      BY <1>1, <2>3
    <3> HIDE DEF new
    <3> QED BY <3>1, <3>2, ChangedOK
  <2> QED BY <1>7, <2>2, <2>3 DEF StampMessage, ContextEnds
<1>8. ASSUME NEW q \in Requests,
             \/ ReleaseUsage(q) \/ BuildLedgerFails(q) \/ SettleError(q)
             \/ MarkForReconciliation(q) \/ MarkError(q) \/ StampError(q) \/ Crash(q)
      PROVE  \A p \in Requests : ReqOK(p)'
  <2>1. req[q].ref \in Refs
    BY <1>2, <1>8 DEF ReleaseUsage, BuildLedgerFails, SettleError, MarkForReconciliation,
                     MarkError, StampError, Crash, Live
  <2>2. \E pc \in Pcs : Goto(q, pc) \/ RetryOr(q, pc)
    BY <1>8 DEF ReleaseUsage, BuildLedgerFails, SettleError, MarkForReconciliation,
                MarkError, StampError, Crash, Pcs
  <2> QED BY <2>1, <2>2, GotoOK, RetryOK
<1>9. CASE \/ UNCHANGED vars \/ Interval \/ CleanUsageLogs
           \/ \E b \in AdminBalances : AdminSetsBalance(b)
  BY <1>3, <1>9 DEF vars, Interval, CleanUsageLogs, AdminSetsBalance
<1> QED BY <1>4, <1>5, <1>6, <1>7, <1>8, <1>9 DEF Next, Handle

-----------------------------------------------------------------------------

LEMMA InitTypes == Init => TypeInv
<1> SUFFICES ASSUME Init PROVE TypeInv
  OBVIOUS
<1>1. NoReservation \in ReservationType
  BY StoreAssumption DEF NoReservation, ReservationType, Statuses, Modes
<1>2. StoreTypeOK
  <2>1. res \in [Refs -> ReservationType]
    <3> HIDE DEF NoReservation
    <3> QED BY <1>1 DEF Init, StoreInit
  <2>2. balance \in Int /\ exposure \in Nat /\ ledger = <<>> /\ cleaned = 0 /\ txns = <<>>
    BY StoreAssumption DEF Init, StoreInit
  <2> QED BY <2>1, <2>2 DEF StoreTypeOK
<1>3. Idle \in RequestType
  BY BillingAssumption DEF Idle, RequestType, Pcs
<1>4. req \in [Requests -> RequestType] /\ Authorised
  BY <1>3 DEF Init, Idle, Authorised, Live
<1> QED BY <1>2, <1>4 DEF TypeInv, TypeOK, StoreTypeOK

LEMMA NextTypes ==
  ASSUME TypeInv, [Next]_vars
  PROVE  TypeInv'
<1>1. StoreStep
  BY StepIsTransaction
<1>2. StoreTypeOK'
  BY <1>1, StoreTypeStep DEF TypeInv, TypeOK, StoreTypeOK
<1>3. \A p \in Requests : ReqOK(p)'
  BY <1>2, RequestStep
<1>4. req' \in [Requests -> RequestType]
  <2>1. req \in [Requests -> RequestType]
    BY DEF TypeInv, TypeOK
  <2> DEFINE Updated == \E q \in Requests : \E new : req' = [req EXCEPT ![q] = new]
  <2>2. Updated => req' = [p \in Requests |-> req'[p]]
    BY <2>1
  <2>3. ASSUME NEW q \in Requests, NEW pc, Goto(q, pc) PROVE Updated
    <3>1. req' = [req EXCEPT ![q] = [[req[q] EXCEPT !.pc = pc] EXCEPT !.tries = 0]]
      BY <2>3 DEF Goto
    <3> QED BY <3>1
  <2>4. ASSUME NEW q \in Requests, NEW pc, RetryOr(q, pc) PROVE Updated
    BY <2>3, <2>4 DEF RetryOr
  <2>5. ASSUME NEW q \in Requests, NEW r \in Refs, NEW mode \in Modes, NEW asked \in Asks,
               Authorize(q, r, mode, asked)
        PROVE  Updated
    BY <2>5 DEF Authorize
  <2>6. ASSUME NEW q \in Requests, UpstreamEnds(q) \/ StampMessage(q) \/ ContextEnds(q)
        PROVE  Updated
    BY <2>3, <2>6 DEF UpstreamEnds, StampMessage, ContextEnds
  <2>7. ASSUME NEW q \in Requests, SettleUsage(q) PROVE Updated
    BY <2>3, <2>4, <2>7 DEF SettleUsage
  <2>8. ASSUME NEW q \in Requests,
               \/ ReleaseUsage(q) \/ BuildLedgerFails(q) \/ SettleError(q)
               \/ MarkForReconciliation(q) \/ MarkError(q) \/ StampError(q) \/ Crash(q)
        PROVE  Updated
    <3>1. \E pc : Goto(q, pc) \/ RetryOr(q, pc)
      BY <2>8 DEF ReleaseUsage, BuildLedgerFails, SettleError, MarkForReconciliation,
                  MarkError, StampError, Crash
    <3> QED BY <2>3, <2>4, <3>1
  <2>9. CASE \/ UNCHANGED vars \/ Interval \/ CleanUsageLogs
             \/ \E b \in AdminBalances : AdminSetsBalance(b)
    <3>1. req' = req
      BY <2>9 DEF vars, Interval, CleanUsageLogs, AdminSetsBalance
    <3> QED BY <1>3, <2>1, <3>1
  <2>10. CASE Updated
    <3> HIDE DEF Updated
    <3> QED BY <1>3, <2>2, <2>10 DEF ReqOK
  <2> HIDE DEF Updated
  <2> QED BY <2>5, <2>6, <2>7, <2>8, <2>9, <2>10 DEF Next, Handle
<1> QED BY <1>2, <1>3, <1>4 DEF TypeInv, TypeOK, StoreTypeOK, Authorised, ReqOK

(* Every state a user's billing can reach is well typed, whatever fails and *)
(* however often it is retried; in particular no lease falls below zero and *)
(* no covered, reserved or overdrawn amount is negative.                    *)
THEOREM TypeCorrect == Spec => []TypeOK
<1>1. Spec => []TypeInv
  BY InitTypes, NextTypes, PTL DEF Spec
<1>2. TypeInv => TypeOK
  BY DEF TypeInv
<1> QED BY <1>1, <1>2, PTL
-----------------------------------------------------------------------------
(* The safety of the accounts.                                             *)

(* Appending keeps the earlier entries. *)
LEMMA Appended ==
  ASSUME NEW T, NEW s \in Seq(T), NEW e
  PROVE  /\ Len(Append(s, e)) = Len(s) + 1
         /\ DOMAIN Append(s, e) = DOMAIN s \cup {Len(s) + 1}
         /\ \A i \in DOMAIN s : i # Len(s) + 1 /\ Append(s, e)[i] = s[i]
         /\ Append(s, e)[Len(s) + 1] = e
         /\ Len(s) + 1 \notin DOMAIN s
         /\ DOMAIN s = 1..Len(s) /\ Len(s) \in Nat
OBVIOUS

(* Only a settlement writes to the ledger or makes a reservation settled. *)
LEMMA LedgerUnchanged ==
  ASSUME StoreTypeOK, UnsettledStep
  PROVE  /\ ledger' = ledger
         /\ \A r \in Refs : /\ res'[r].status = "settled" <=> res[r].status = "settled"
                            /\ res[r].status = "settled" => res'[r] = res[r]
<1> DEFINE Stays(p) == /\ res'[p].status = "settled" <=> res[p].status = "settled"
                       /\ res[p].status = "settled" => res'[p] = res[p]
<1>1. res \in [Refs -> ReservationType]
  BY DEF StoreTypeOK
<1>2. CASE UNCHANGED storeVars
  BY <1>2 DEF storeVars
<1>3. ASSUME NEW r \in Refs, NEW mode \in Modes, NEW asked \in Nat,
             ReserveUsageBalance(r, mode, asked), NEW p \in Refs
      PROVE  ledger' = ledger /\ Stays(p)
  <2>1. res[r].status = "none" /\ res'[r].status = "active" /\ ledger' = ledger
    BY <1>1, <1>3 DEF ReserveUsageBalance, CanReserve
  <2>2. p # r => res'[p] = res[p]
    BY <1>1, <1>3 DEF ReserveUsageBalance
  <2> QED BY <2>1, <2>2
<1>4. ASSUME NEW r \in Refs, ReleaseReservation(r), NEW p \in Refs
      PROVE  ledger' = ledger /\ Stays(p)
  <2>1. ledger' = ledger
    BY <1>4 DEF ReleaseReservation
  <2>2. \/ res'[p] = res[p]
        \/ res[p].status = "active" /\ res'[p] = [res[p] EXCEPT !.status = "released"]
    BY <1>1, <1>4 DEF ReleaseReservation
  <2> QED BY <1>1, <2>1, <2>2 DEF ReservationType
<1>5. ASSUME NEW r \in Refs, MarkReconciliation(r), NEW p \in Refs
      PROVE  ledger' = ledger /\ Stays(p)
  <2>1. ledger' = ledger
    BY <1>5 DEF MarkReconciliation
  <2>2. \/ res'[p] = res[p]
        \/ /\ res[p].status # "settled"
           /\ res'[p] = [res[p] EXCEPT !.status = "reconciliation"]
    BY <1>1, <1>5 DEF MarkReconciliation, CanReconcile
  <2> QED BY <1>1, <2>1, <2>2 DEF ReservationType
<1>6. ASSUME NEW renewed, PassInterval(renewed), NEW p \in Refs
      PROVE  ledger' = ledger /\ Stays(p)
  <2>1. ledger' = ledger
    BY <1>6 DEF PassInterval
  <2>2. \/ res'[p] = res[p]
        \/ /\ res[p].status = "active"
           /\ \E n : res'[p] = [res[p] EXCEPT !.lease = n]
    BY <1>1, <1>6 DEF PassInterval
  <2> QED BY <1>1, <2>1, <2>2 DEF ReservationType
<1>7. ASSUME \/ \E b \in Nat : SetBalance(b)
             \/ \E n : DeleteUsageBefore(n)
      PROVE  ledger' = ledger /\ res' = res
  BY <1>7 DEF SetBalance, DeleteUsageBefore
<1>8. ASSUME Refs = {} PROVE ledger' = ledger
  BY <1>2, <1>6, <1>7, <1>8 DEF UnsettledStep, PassInterval
<1>9. ASSUME NEW p \in Refs PROVE ledger' = ledger /\ Stays(p)
  <2> HIDE DEF Stays
  <2>1. CASE UNCHANGED storeVars
    BY <1>2, <2>1 DEF Stays, storeVars
  <2>2. CASE (\E b \in Nat : SetBalance(b)) \/ \E n : DeleteUsageBefore(n)
    BY <1>7, <2>2 DEF Stays
  <2> QED BY <1>3, <1>4, <1>5, <1>6, <1>9, <2>1, <2>2 DEF UnsettledStep
<1> QED BY <1>8, <1>9

-----------------------------------------------------------------------------

LEMMA ChargedOnceStep ==
  ASSUME StoreTypeOK, ChargedOnce, StoreStep
  PROVE  ChargedOnce'
<1>1. CASE UnsettledStep
  BY <1>1, LedgerUnchanged DEF ChargedOnce
<1>2. ASSUME NEW r \in Refs, NEW charge \in Nat, SettleReservation(r, charge)
      PROVE  ChargedOnce'
  <2> DEFINE row == [ref |-> r, billed |-> charge, covered |-> Covered(r, charge),
                     after |-> balance']
             n   == Len(ledger) + 1
  <2>1. ledger' = Append(ledger, row) /\ row.ref = r
    BY <1>2 DEF SettleReservation
  <2>2. /\ Len(ledger') = n
        /\ DOMAIN ledger' = DOMAIN ledger \cup {n}
        /\ \A i \in DOMAIN ledger : i # n /\ ledger'[i] = ledger[i]
        /\ ledger'[n].ref = r
    <3> HIDE DEF row
    <3> QED BY <2>1, Appended DEF StoreTypeOK
  <2>3. res \in [Refs -> ReservationType]
    BY DEF StoreTypeOK
  <2>4. res' = [res EXCEPT ![r].status = "settled", ![r].entry = n]
    BY <1>2, <2>2 DEF SettleReservation
  <2>5. res[r].status # "settled"
    BY <1>2 DEF SettleReservation, CanSettle
  <2>6. res'[r].status = "settled" /\ res'[r].entry = n
    BY <2>3, <2>4 DEF ReservationType
  <2> HIDE DEF n
  <2>7. {i \in DOMAIN ledger' : ledger'[i].ref = r} = {n}
    <3>1. {i \in DOMAIN ledger : ledger[i].ref = r} = {}
      BY <2>5 DEF ChargedOnce
    <3> QED BY <2>2, <3>1
  <2>8. ASSUME NEW p \in Refs, p # r
        PROVE  /\ res'[p] = res[p]
               /\ {i \in DOMAIN ledger' : ledger'[i].ref = p}
                    = {i \in DOMAIN ledger : ledger[i].ref = p}
    BY <2>2, <2>3, <2>4, <2>8
  <2> QED BY <2>6, <2>7, <2>8 DEF ChargedOnce
<1> QED BY <1>1, <1>2 DEF StoreStep, UnsettledStep

(* No interleaving of settlements, retries after a lost answer, releases    *)
(* and reconciliations charges a reference twice or loses its row.          *)
THEOREM EveryReferenceChargedOnce == Spec => []ChargedOnce
<1>1. Init => ChargedOnce
  BY DEF Init, StoreInit, ChargedOnce, NoReservation
<1>2. TypeInv /\ ChargedOnce /\ [Next]_vars => ChargedOnce'
  BY StepIsTransaction, ChargedOnceStep DEF TypeInv, TypeOK, StoreTypeOK
<1>3. Spec => []TypeInv
  BY InitTypes, NextTypes, PTL DEF Spec
<1> QED BY <1>1, <1>2, <1>3, PTL DEF Spec

-----------------------------------------------------------------------------
(* Budgets.                                                                *)

LEMMA BudgetsNat ==
  ASSUME StoreTypeOK
  PROVE  \A r \in Refs : /\ res[r] \in ReservationType
                         /\ Budgets[r] = res[r].budget /\ Budgets[r] \in Nat
BY DEF StoreTypeOK, Budgets, ReservationType

(* When no reservation starts to hold and no budget grows, the held budget  *)
(* does not grow.                                                           *)
LEMMA HeldShrinks ==
  ASSUME StoreTypeOK, StoreTypeOK', Holders' \subseteq Holders,
         \A r \in Holders' : res'[r].budget = res[r].budget
  PROVE  HeldBudget' <= HeldBudget
<1>1. IsFiniteSet(Holders) /\ Holders \subseteq Refs
  BY HoldersFinite
<1>2. \A r \in Holders : Budgets[r] \in Nat
  BY <1>1, BudgetsNat
<1>3. Total(Holders', Budgets) <= Total(Holders, Budgets)
  BY <1>1, <1>2, TotalSubset
<1>4. \A r \in Holders' : Budgets'[r] = Budgets[r]
  BY <1>1 DEF Budgets
<1>5. Total(Holders', Budgets') = Total(Holders', Budgets)
  BY <1>4, TotalSame
<1> QED BY <1>3, <1>5 DEF HeldBudget

(* The budget of a reservation that stops or starts holding.                *)
LEMMA HeldDrops ==
  ASSUME StoreTypeOK, NEW r \in Holders, Holders' = Holders \ {r},
         \A p \in Holders' : res'[p] = res[p]
  PROVE  HeldBudget = HeldBudget' + res[r].budget
<1>1. IsFiniteSet(Holders) /\ Holders \subseteq Refs
  BY HoldersFinite
<1>2. \A p \in Holders : Budgets[p] \in Nat
  BY <1>1, BudgetsNat
<1>3. Total(Holders, Budgets) = Total(Holders \ {r}, Budgets) + Budgets[r]
  BY <1>1, <1>2, TotalRemove
<1>4. \A p \in Holders' : Budgets'[p] = Budgets[p]
  BY <1>1 DEF Budgets
<1>5. Total(Holders', Budgets') = Total(Holders', Budgets)
  BY <1>4, TotalSame
<1>6. Budgets[r] = res[r].budget
  BY <1>1, BudgetsNat
<1> QED BY <1>3, <1>5, <1>6 DEF HeldBudget

LEMMA HeldRises ==
  ASSUME StoreTypeOK, StoreTypeOK', NEW r \in Refs, r \notin Holders,
         Holders' = Holders \cup {r}, \A p \in Holders : res'[p] = res[p]
  PROVE  HeldBudget' = HeldBudget + res'[r].budget
<1>1. IsFiniteSet(Holders) /\ Holders \subseteq Refs
  BY HoldersFinite
<1>2. \A p \in Refs : Budgets'[p] = res'[p].budget /\ Budgets'[p] \in Nat
  BY DEF StoreTypeOK, Budgets, ReservationType
<1>3. \A p \in Holders \cup {r} : Budgets'[p] \in Nat
  BY <1>1, <1>2
<1>4. Total(Holders \cup {r}, Budgets') = Total(Holders, Budgets') + Budgets'[r]
  BY <1>1, <1>3, TotalAdd
<1>5. \A p \in Holders : Budgets'[p] = Budgets[p]
  BY <1>1 DEF Budgets
<1>6. Total(Holders, Budgets') = Total(Holders, Budgets)
  BY <1>5, TotalSame
<1> QED BY <1>2, <1>4, <1>6 DEF HeldBudget

LEMMA BudgetCoveredStep ==
  ASSUME StoreTypeOK, StoreTypeOK', BudgetCovered, StoreStep
  PROVE  BudgetCovered'
<1>1. res \in [Refs -> ReservationType] /\ balance \in Int /\ exposure \in Nat
  BY DEF StoreTypeOK
<1>2. HeldBudget \in Nat /\ HeldBudget' \in Nat
  <2>1. HeldBudget \in Nat
    BY HeldNat DEF StoreTypeOK
  <2>2. Holders' \in SUBSET Refs /\ IsFiniteSet(Refs)
    BY StoreAssumption DEF Holders
  <2>3. IsFiniteSet(Holders')
    BY <2>2, FS_Subset
  <2>4. \A r \in Holders' : Budgets'[r] \in Nat
    BY <2>2 DEF StoreTypeOK, Budgets, ReservationType
  <2>5. Total(Holders', Budgets') \in Nat
    BY <2>3, <2>4, TotalNat
  <2> QED BY <2>1, <2>5 DEF HeldBudget
<1>3. balance' \in Int /\ exposure' \in Nat
  BY DEF StoreTypeOK
<1>4. CASE UNCHANGED storeVars
  BY <1>4 DEF storeVars, BudgetCovered, HeldBudget, Holders, Holding, Budgets
<1>5. ASSUME NEW r \in Refs, NEW mode \in Modes, NEW asked \in Nat,
             ReserveUsageBalance(r, mode, asked)
      PROVE  BudgetCovered'
  <2> DEFINE amount == Requested(mode, asked)
             credit == Lesser(amount, AvailableCredit(mode))
             row    == [status |-> "active", mode |-> mode, budget |-> amount - credit,
                        credit |-> credit, lease |-> LeaseTTL, entry |-> 0]
  <2>1. /\ res' = [res EXCEPT ![r] = row]
        /\ balance' = balance /\ exposure' = exposure
        /\ res[r].status = "none"
        /\ amount \in 1..(AvailableCredit(mode) + AvailableBudget)
    BY <1>5 DEF ReserveUsageBalance, CanReserve
  <2>2. AvailableBudget \in Nat /\ AvailableCredit(mode) \in Nat
    BY AvailableNat
  <2>3. row.budget <= AvailableBudget
    <3>1. amount - credit <= AvailableBudget
      <4> HIDE DEF amount
      <4> QED BY <2>1, <2>2 DEF Lesser
    <3> QED BY <3>1
  <2>4. r \notin Holders /\ Holders' = Holders \cup {r}
    <3>1. res'[r].status = "active" /\ res'[r].lease > 0
      BY <1>1, <2>1, StoreAssumption
    <3>2. \A p \in Refs \ {r} : res'[p] = res[p]
      BY <1>1, <2>1
    <3> QED BY <2>1, <3>1, <3>2 DEF Holders, Holding
  <2>5. \A p \in Holders : res'[p] = res[p]
    BY <1>1, <2>1, <2>4 DEF Holders
  <2>6. HeldBudget' = HeldBudget + res'[r].budget
    BY <2>4, <2>5, HeldRises
  <2>7. res'[r].budget <= AvailableBudget
    BY <1>1, <2>1, <2>3
  <2>8. AvailableBudget = 0 \/ AvailableBudget = balance - HeldBudget
    BY <1>1, <1>2 DEF AvailableBudget, Remaining, NonNegative
  <2>9. res'[r].budget \in Nat
    BY DEF StoreTypeOK, ReservationType
  <2> HIDE DEF row
  <2> QED BY <1>1, <1>2, <2>1, <2>2, <2>6, <2>7, <2>8, <2>9 DEF BudgetCovered
<1>6. ASSUME NEW r \in Refs, ReleaseReservation(r)
      PROVE  BudgetCovered'
  <2>1. balance' = balance /\ exposure' = exposure
    BY <1>6 DEF ReleaseReservation
  <2>2. \A p \in Refs : res'[p] = res[p] \/ /\ res'[p].status = "released"
                                            /\ res'[p].budget = res[p].budget
    BY <1>1, <1>6 DEF ReleaseReservation, ReservationType
  <2>3. Holders' \subseteq Holders /\ \A p \in Holders' : res'[p].budget = res[p].budget
    BY <2>2 DEF Holders, Holding
  <2>4. HeldBudget' <= HeldBudget
    BY <2>3, HeldShrinks
  <2> QED BY <1>1, <1>2, <2>1, <2>4 DEF BudgetCovered
<1>7. ASSUME NEW r \in Refs, MarkReconciliation(r)
      PROVE  BudgetCovered'
  <2>1. balance' = balance /\ res' = [res EXCEPT ![r].status = "reconciliation"]
    BY <1>7 DEF MarkReconciliation
  <2>2. /\ res'[r].status = "reconciliation" /\ res'[r].budget = res[r].budget
        /\ \A p \in Refs \ {r} : res'[p] = res[p]
    BY <1>1, <2>1 DEF ReservationType
  <2>3. Holders' = Holders \cup {r}
    BY <2>2 DEF Holders, Holding
  <2>4. CASE r \in Holders
    <3>1. exposure' = exposure
      BY <1>1, <1>7, <2>4 DEF MarkReconciliation, Holders
    <3>2. \A p \in Holders' : res'[p].budget = res[p].budget
      BY <2>2 DEF Holders
    <3>3. HeldBudget' <= HeldBudget
      BY <2>3, <2>4, <3>2, HeldShrinks
    <3> QED BY <1>1, <1>2, <2>1, <3>1, <3>3 DEF BudgetCovered
  <2>5. CASE r \notin Holders
    <3>1. exposure' = exposure + res[r].budget
      BY <1>7, <2>5 DEF MarkReconciliation, Holders
    <3>2. \A p \in Holders : res'[p] = res[p]
      BY <2>2, <2>5 DEF Holders
    <3>3. HeldBudget' = HeldBudget + res[r].budget
      BY <2>2, <2>3, <2>5, <3>2, HeldRises
    <3>4. res[r].budget \in Nat
      BY <1>1 DEF ReservationType
    <3> QED BY <1>1, <1>2, <2>1, <3>1, <3>3, <3>4 DEF BudgetCovered
  <2> QED BY <2>4, <2>5
<1>8. ASSUME NEW r \in Refs, NEW charge \in Nat, SettleReservation(r, charge)
      PROVE  BudgetCovered'
  <2> DEFINE overage == charge - Covered(r, charge)
  <2>1. overage \in Nat
    BY CoveredNat
  <2>2. /\ balance' = balance - overage
        /\ exposure' = exposure + NonNegative(overage - IF Holding(r) THEN res[r].budget ELSE 0)
        /\ res' = [res EXCEPT ![r].status = "settled", ![r].entry = Len(ledger')]
    BY <1>8 DEF SettleReservation
  <2> HIDE DEF overage
  <2>3. res'[r].status = "settled" /\ \A p \in Refs \ {r} : res'[p] = res[p]
    BY <1>1, <2>2 DEF ReservationType
  <2>4. Holders' = Holders \ {r} /\ \A p \in Holders' : res'[p] = res[p]
    BY <2>3 DEF Holders, Holding
  <2>5. res[r].budget \in Nat
    BY <1>1 DEF ReservationType
  <2>6. CASE r \in Holders
    <3>1. HeldBudget = HeldBudget' + res[r].budget
      BY <2>4, <2>6, HeldDrops
    <3>2. exposure' = exposure + NonNegative(overage - res[r].budget)
      BY <2>2, <2>6 DEF Holders
    <3> QED BY <1>1, <1>2, <2>1, <2>2, <2>5, <3>1, <3>2 DEF BudgetCovered, NonNegative
  <2>7. CASE r \notin Holders
    <3>1. HeldBudget' <= HeldBudget
      BY <2>4, HeldShrinks
    <3>2. exposure' = exposure + NonNegative(overage - 0)
      BY <2>2, <2>7 DEF Holders
    <3> QED BY <1>1, <1>2, <2>1, <2>2, <3>1, <3>2 DEF BudgetCovered, NonNegative
  <2> QED BY <2>6, <2>7
<1>9. ASSUME NEW renewed, PassInterval(renewed)
      PROVE  BudgetCovered'
  <2>1. balance' = balance /\ exposure' = exposure
    BY <1>9 DEF PassInterval
  <2>2. ASSUME NEW p \in Refs
        PROVE  /\ res'[p].budget = res[p].budget /\ res'[p].status = res[p].status
               /\ res[p].status # "active" => res'[p] = res[p]
               /\ res'[p].lease > 0 => res[p].lease > 0 \/ res[p].status # "active"
    <3>1. res[p] \in ReservationType
      BY <1>1
    <3>2. res[p].lease \in Nat
      BY <3>1, StoreAssumption DEF ReservationType
    <3>3. CASE res[p].status # "active" \/ (p \in renewed /\ res[p].lease > 1)
      BY <1>1, <1>9, <3>1, <3>2, <3>3 DEF PassInterval, ReservationType
    <3>4. CASE res[p].status = "active" /\ ~(p \in renewed /\ res[p].lease > 1)
      <4>1. res'[p] = [res[p] EXCEPT !.lease = NonNegative(res[p].lease - 1)]
        BY <1>1, <1>9, <3>4 DEF PassInterval
      <4> QED BY <3>1, <3>2, <3>4, <4>1 DEF ReservationType, NonNegative
    <3> QED BY <3>3, <3>4
  <2>3. Holders' \subseteq Holders /\ \A p \in Holders' : res'[p].budget = res[p].budget
    BY <2>2 DEF Holders, Holding
  <2>4. HeldBudget' <= HeldBudget
    BY <2>3, HeldShrinks
  <2> QED BY <1>1, <1>2, <2>1, <2>4 DEF BudgetCovered
<1>10. ASSUME NEW b \in Nat, SetBalance(b)
       PROVE  BudgetCovered'
  <2>1. /\ balance' = b /\ res' = res
        /\ exposure' = exposure + NonNegative(balance - b)
    BY <1>10 DEF SetBalance
  <2>2. HeldBudget' = HeldBudget
    BY <2>1 DEF HeldBudget, Holders, Holding, Budgets
  <2> QED BY <1>1, <1>2, <2>1, <2>2 DEF BudgetCovered, NonNegative
<1>11. ASSUME NEW n, DeleteUsageBefore(n)
       PROVE  BudgetCovered'
  BY <1>11 DEF DeleteUsageBefore, BudgetCovered, HeldBudget, Holders, Holding, Budgets
<1> QED BY <1>4, <1>5, <1>6, <1>7, <1>8, <1>9, <1>10, <1>11 DEF StoreStep

(* For every number of requests and slots: the budgets that are held never  *)
(* promise more than the balance and what no reservation could limit.       *)
THEOREM BudgetsCovered == Spec => []BudgetCovered
<1>1. Init => BudgetCovered
  <2> SUFFICES ASSUME Init PROVE BudgetCovered
    OBVIOUS
  <2>1. Holders = {}
    BY DEF Init, StoreInit, NoReservation, Holders, Holding
  <2>2. HeldBudget = 0
    BY <2>1, TotalEmpty DEF HeldBudget
  <2> QED BY <2>2, StoreAssumption DEF Init, StoreInit, BudgetCovered
<1>2. TypeInv /\ BudgetCovered /\ [Next]_vars => BudgetCovered'
  BY StepIsTransaction, StoreTypeStep, BudgetCoveredStep DEF TypeInv, TypeOK, StoreTypeOK
<1>3. Spec => []TypeInv
  BY InitTypes, NextTypes, PTL DEF Spec
<1> QED BY <1>1, <1>2, <1>3, PTL DEF Spec

-----------------------------------------------------------------------------

LEMMA FinalStep ==
  ASSUME StoreTypeOK, StoreStep, NEW p \in Refs
  PROVE  /\ res[p].status \in {"settled", "released"} => res'[p] = res[p]
         /\ res[p].status = "reconciliation" =>
               res'[p].status \in {"reconciliation", "settled"}
<1> DEFINE Final == /\ res[p].status \in {"settled", "released"} => res'[p] = res[p]
                    /\ res[p].status = "reconciliation" =>
                          res'[p].status \in {"reconciliation", "settled"}
<1>1. res \in [Refs -> ReservationType] /\ res[p] \in ReservationType
  BY DEF StoreTypeOK
<1>2. CASE res'[p] = res[p]
  BY <1>2
<1>3. ASSUME NEW r \in Refs, NEW mode \in Modes, NEW asked \in Nat,
             ReserveUsageBalance(r, mode, asked)
      PROVE  Final
  <2>1. res[r].status = "none" /\ (p # r => res'[p] = res[p])
    BY <1>1, <1>3 DEF ReserveUsageBalance, CanReserve
  <2> QED BY <2>1
<1>4. ASSUME NEW r \in Refs, ReleaseReservation(r)
      PROVE  Final
  <2>1. res'[p] = res[p] \/ res[p].status = "active"
    BY <1>1, <1>4 DEF ReleaseReservation
  <2> QED BY <2>1
<1>5. ASSUME NEW r \in Refs, MarkReconciliation(r)
      PROVE  Final
  <2>1. \/ res'[p] = res[p]
        \/ /\ res[p].status \in {"active", "reconciliation"}
           /\ res'[p] = [res[p] EXCEPT !.status = "reconciliation"]
    BY <1>1, <1>5 DEF MarkReconciliation, CanReconcile
  <2> QED BY <1>1, <2>1 DEF ReservationType
<1>6. ASSUME NEW r \in Refs, NEW charge \in Nat, SettleReservation(r, charge)
      PROVE  Final
  <2>1. /\ res' = [res EXCEPT ![r].status = "settled", ![r].entry = Len(ledger')]
        /\ res[r].status \in {"active", "reconciliation"}
    BY <1>6 DEF SettleReservation, CanSettle
  <2>2. res'[r].status = "settled" /\ (p # r => res'[p] = res[p])
    BY <1>1, <2>1 DEF ReservationType
  <2> QED BY <2>1, <2>2
<1>7. ASSUME NEW renewed, PassInterval(renewed)
      PROVE  Final
  <2>1. res[p].status # "active" => res'[p] = res[p]
    BY <1>1, <1>7 DEF PassInterval
  <2> QED BY <2>1
<1>8. ASSUME \/ UNCHANGED storeVars
             \/ \E b \in Nat : SetBalance(b)
             \/ \E n : DeleteUsageBefore(n)
      PROVE  Final
  BY <1>2, <1>8 DEF storeVars, SetBalance, DeleteUsageBefore
<1> HIDE DEF Final
<1>9. Final
  BY <1>3, <1>4, <1>5, <1>6, <1>7, <1>8 DEF StoreStep
<1> QED BY <1>9 DEF Final

(* Settled and released are final, and what waits for reconciliation can    *)
(* only be settled, whichever handler comes late.                           *)
THEOREM FinalStaysFinal == Spec => ReservationsFinal
<1>1. TypeInv /\ [Next]_vars
        => [\A r \in Refs :
              /\ res[r].status \in {"settled", "released"} => res'[r] = res[r]
              /\ res[r].status = "reconciliation" =>
                   res'[r].status \in {"reconciliation", "settled"}]_vars
  BY StepIsTransaction, FinalStep DEF TypeInv, TypeOK, StoreTypeOK
<1>2. Spec => []TypeInv
  BY InitTypes, NextTypes, PTL DEF Spec
<1> QED BY <1>1, <1>2, PTL DEF Spec, ReservationsFinal
-----------------------------------------------------------------------------
(* The bill a handler holds is the row that was charged. *)

(* A reference is authorised by one request only. *)
RefsDistinct ==
  \A q, p \in Requests : req[q].ref = req[p].ref /\ req[q].ref # "none" => q = p

(* What a handler knows of its reservation: the charge that settled it is   *)
(* its own, also when the answer to the settlement was lost.                *)
BillKnown(q) ==
  /\ req[q].pc = "idle" => req[q].bill = 0
  /\ req[q].pc = "running" => res[req[q].ref].status # "settled"
  /\ req[q].ref # "none" => res[req[q].ref].status # "none"
  /\ req[q].ref # "none" /\ res[req[q].ref].status = "settled" =>
       ledger[res[req[q].ref].entry].billed = req[q].charge
  /\ req[q].bill # 0 =>
       /\ req[q].ref # "none" /\ res[req[q].ref].status = "settled"
       /\ req[q].bill = res[req[q].ref].entry
  /\ req[q].pc = "stamping" => req[q].bill # 0
  /\ req[q].pc = "recorded" => req[q].stamped /\ req[q].bill # 0

BillInv == RefsDistinct /\ \A q \in Requests : BillKnown(q)

(* A step of a handler that authorises nothing and receives no bill. *)
MovesOn(q) ==
  /\ req'[q].ref = req[q].ref /\ req'[q].bill = req[q].bill
  /\ req'[q].charge = req[q].charge \/ req[q].pc = "running"
  /\ req'[q].pc \in {"idle", "running", "stamping"} => req'[q].pc = req[q].pc
  /\ req'[q].pc = "recorded" =>
       \/ req[q].pc = "recorded" /\ req'[q].stamped = req[q].stamped
       \/ req[q].pc = "stamping" /\ req'[q].stamped

Authorizes(q, r) ==
  /\ req[q].pc = "idle" /\ res[r].status = "none" /\ res'[r].status = "active"
  /\ req'[q].ref = r /\ req'[q].bill = req[q].bill
  /\ req'[q].pc \in {"running", "unanswered"}

Receives(q, row) ==
  /\ req[q].pc = "settling" /\ req'[q].pc = "stamping"
  /\ req'[q].ref = req[q].ref /\ req'[q].charge = req[q].charge /\ req'[q].bill = row

LEMMA GotoMovesOn ==
  ASSUME TypeInv, NEW q \in Requests,
         NEW pc \in Pcs \ {"idle", "running", "stamping", "recorded"},
         Goto(q, pc) \/ RetryOr(q, pc)
  PROVE  \A p \in Requests : MovesOn(p)
<1>1. req \in [Requests -> RequestType]
  BY DEF TypeInv, TypeOK
<1>2. \/ req' = [req EXCEPT ![q] = [[req[q] EXCEPT !.pc = pc] EXCEPT !.tries = 0]]
      \/ req' = [req EXCEPT ![q] = [req[q] EXCEPT !.tries = req[q].tries + 1]]
  BY <1>1 DEF Goto, RetryOr
<1>3. ASSUME NEW p \in Requests, p # q PROVE MovesOn(p)
  BY <1>1, <1>2, <1>3 DEF MovesOn
<1>4. MovesOn(q)
  <2>1. CASE req'[q] = [[req[q] EXCEPT !.pc = pc] EXCEPT !.tries = 0]
    BY <1>1, <2>1 DEF MovesOn, RequestType
  <2>2. CASE req'[q] = [req[q] EXCEPT !.tries = req[q].tries + 1]
    BY <1>1, <2>2 DEF MovesOn, RequestType
  <2> QED BY <1>1, <1>2, <2>1, <2>2
<1> QED BY <1>3, <1>4

(* One handler is authorised or receives its bill; the others move on. *)
OneMoves(q) ==
  /\ \A p \in Requests \ {q} : MovesOn(p)
  /\ \/ \E r \in Refs : UnsettledStep /\ Authorizes(q, r)
     \/ SettlesFor(q) /\ Receives(q, Len(ledger'))
     \/ /\ UNCHANGED storeVars /\ res[req[q].ref].status = "settled"
        /\ Receives(q, res[req[q].ref].entry)

AllMoveOn == \A p \in Requests : MovesOn(p)

(* What a step does to the handlers. *)
LEMMA HandlersMove ==
  ASSUME TypeInv, [Next]_vars
  PROVE  AllMoveOn \/ \E q \in Requests : OneMoves(q)
<1>1. /\ req \in [Requests -> RequestType] /\ res \in [Refs -> ReservationType]
      /\ \A q \in Requests : req[q].pc \in Live => req[q].ref \in Refs
  BY DEF TypeInv, TypeOK, Authorised
<1>2. ASSUME NEW q \in Requests, NEW new, req' = [req EXCEPT ![q] = new]
      PROVE  req'[q] = new /\ \A p \in Requests \ {q} : MovesOn(p)
  BY <1>1, <1>2 DEF MovesOn
<1>3. ASSUME NEW q \in Requests, NEW r \in Refs, NEW mode \in Modes, NEW asked \in Asks,
             Authorize(q, r, mode, asked)
      PROVE  AllMoveOn \/ OneMoves(q)
  <2>1. CASE req' = [req EXCEPT ![q].pc = "refused"]
    BY <1>1, <2>1 DEF AllMoveOn, MovesOn, RequestType
  <2>2. ASSUME ReserveUsageBalance(r, mode, asked), NEW pc \in {"running", "unanswered"},
               req' = [req EXCEPT ![q].pc = pc, ![q].ref = r]
        PROVE  OneMoves(q)
    <3> DEFINE new == [[req[q] EXCEPT !.pc = pc] EXCEPT !.ref = r]
    <3>1. req' = [req EXCEPT ![q] = new]
      BY <1>1, <2>2
    <3>2. new.ref = r /\ new.bill = req[q].bill /\ new.pc = pc
      BY <1>1 DEF RequestType
    <3>3. res[r].status = "none" /\ res'[r].status = "active"
      BY <1>1, <2>2 DEF ReserveUsageBalance, CanReserve
    <3>4. UnsettledStep
      <4>1. asked \in Nat
        BY BillingAssumption
      <4> QED BY <2>2, <4>1 DEF UnsettledStep
    <3> HIDE DEF new
    <3>5. Authorizes(q, r)
      BY <1>2, <1>3, <3>1, <3>2, <3>3 DEF Authorizes, Authorize
    <3> QED BY <1>2, <3>1, <3>4, <3>5 DEF OneMoves
  <2> QED BY <1>3, <2>1, <2>2 DEF Authorize
<1>4. ASSUME NEW q \in Requests, UpstreamEnds(q) PROVE AllMoveOn
  <2>1. CASE Goto(q, "releasing")
    BY <2>1, GotoMovesOn DEF AllMoveOn, Pcs
  <2>2. ASSUME NEW c, req' = [req EXCEPT ![q].pc = "settling", ![q].charge = c] PROVE AllMoveOn
    <3> DEFINE new == [[req[q] EXCEPT !.pc = "settling"] EXCEPT !.charge = c]
    <3>1. req' = [req EXCEPT ![q] = new]
      BY <1>1, <2>2
    <3>2. new.ref = req[q].ref /\ new.bill = req[q].bill /\ new.pc = "settling"
      BY <1>1 DEF RequestType
    <3>3. req[q].pc = "running"
      BY <1>4 DEF UpstreamEnds
    <3> HIDE DEF new
    <3>4. MovesOn(q)
      BY <1>2, <3>1, <3>2, <3>3 DEF MovesOn
    <3> QED BY <1>2, <3>1, <3>4 DEF AllMoveOn
  <2> QED BY <1>4, <2>1, <2>2 DEF UpstreamEnds
<1>5. ASSUME NEW q \in Requests, SettleUsage(q) PROVE AllMoveOn \/ OneMoves(q)
  <2>1. CASE RetryOr(q, "marking") \/ Goto(q, "marking")
    BY <2>1, GotoMovesOn DEF AllMoveOn, Pcs
  <2>2. ASSUME NEW row, req' = [req EXCEPT ![q].pc = "stamping", ![q].tries = 0, ![q].bill = row]
        PROVE  Receives(q, row) /\ \A p \in Requests \ {q} : MovesOn(p)
    <3> DEFINE new == [[[req[q] EXCEPT !.pc = "stamping"] EXCEPT !.tries = 0] EXCEPT !.bill = row]
    <3>1. req' = [req EXCEPT ![q] = new]
      BY <1>1, <2>2
    <3>2. new.ref = req[q].ref /\ new.bill = row /\ new.pc = "stamping"
          /\ new.charge = req[q].charge
      BY <1>1 DEF RequestType
    <3> HIDE DEF new
    <3> QED BY <1>2, <1>5, <3>1, <3>2 DEF Receives, SettleUsage
  <2>3. req[q].ref \in Refs /\ req[q].charge \in Nat
    BY <1>1, <1>5 DEF SettleUsage, Live, RequestType
  <2>4. \/ RetryOr(q, "marking") \/ Goto(q, "marking")
        \/ /\ SettleReservation(req[q].ref, req[q].charge)
           /\ req' = [req EXCEPT ![q].pc = "stamping", ![q].tries = 0,
                                 ![q].bill = Len(ledger')]
        \/ /\ UNCHANGED storeVars /\ res[req[q].ref].status = "settled"
           /\ req' = [req EXCEPT ![q].pc = "stamping", ![q].tries = 0,
                                 ![q].bill = res[req[q].ref].entry]
    BY <1>5, Zenon DEF SettleUsage, SettledRow
  <2> QED BY <1>5, <2>1, <2>2, <2>3, <2>4 DEF OneMoves, SettlesFor
<1>6. ASSUME NEW q \in Requests, StampMessage(q) PROVE AllMoveOn
  <2> DEFINE new == [[req[q] EXCEPT !.pc = "recorded"] EXCEPT !.stamped = TRUE]
  <2>1. req' = [req EXCEPT ![q] = new] /\ req[q].pc = "stamping"
    BY <1>1, <1>6 DEF StampMessage
  <2>2. /\ new.ref = req[q].ref /\ new.bill = req[q].bill /\ new.charge = req[q].charge
        /\ new.pc = "recorded" /\ new.stamped
    BY <1>1 DEF RequestType
  <2> HIDE DEF new
  <2>3. MovesOn(q)
    BY <1>2, <2>1, <2>2 DEF MovesOn
  <2> QED BY <1>2, <2>1, <2>3 DEF AllMoveOn
<1>7. ASSUME NEW q \in Requests, ContextEnds(q) PROVE AllMoveOn
  <2> DEFINE new == [req[q] EXCEPT !.cut = TRUE]
  <2>1. req' = [req EXCEPT ![q] = new]
    BY <1>1, <1>7 DEF ContextEnds
  <2>2. /\ new.ref = req[q].ref /\ new.bill = req[q].bill /\ new.charge = req[q].charge
        /\ new.pc = req[q].pc /\ new.stamped = req[q].stamped
    BY <1>1 DEF RequestType
  <2> HIDE DEF new
  <2>3. MovesOn(q)
    BY <1>2, <2>1, <2>2 DEF MovesOn
  <2> QED BY <1>2, <2>1, <2>3 DEF AllMoveOn
<1>8. ASSUME NEW q \in Requests,
             \/ ReleaseUsage(q) \/ BuildLedgerFails(q) \/ SettleError(q)
             \/ MarkForReconciliation(q) \/ MarkError(q) \/ StampError(q) \/ Crash(q)
      PROVE  AllMoveOn
  <2>1. \E pc \in {"released", "failed", "marking", "crashed"} : Goto(q, pc) \/ RetryOr(q, pc)
    BY <1>8 DEF ReleaseUsage, BuildLedgerFails, SettleError, MarkForReconciliation,
                MarkError, StampError, Crash
  <2> QED BY <2>1, GotoMovesOn DEF AllMoveOn, Pcs
<1>9. CASE \/ UNCHANGED vars \/ Interval \/ CleanUsageLogs
           \/ \E b \in AdminBalances : AdminSetsBalance(b)
  <2>1. req' = req
    BY <1>9 DEF vars, Interval, CleanUsageLogs, AdminSetsBalance
  <2> QED BY <2>1 DEF AllMoveOn, MovesOn
<1>10. ASSUME NEW q \in Requests, Handle(q) \/ ContextEnds(q) \/ Crash(q)
       PROVE  AllMoveOn \/ OneMoves(q)
  BY <1>4, <1>5, <1>6, <1>7, <1>8, <1>10 DEF Handle
<1> QED BY <1>3, <1>9, <1>10 DEF Next

RowKept(r) ==
  /\ res[r].status # "none" => res'[r].status # "none"
  /\ res'[r].status = "settled" <=> res[r].status = "settled"
  /\ res[r].status = "settled" =>
       res'[r] = res[r] /\ ledger'[res[r].entry] = ledger[res[r].entry]

LEMMA UnsettledKeepsRows ==
  ASSUME StoreTypeOK, UnsettledStep, NEW p \in Refs
  PROVE  RowKept(p)
<1>1. res \in [Refs -> ReservationType]
  BY DEF StoreTypeOK
<1>2. /\ ledger' = ledger
      /\ res'[p].status = "settled" <=> res[p].status = "settled"
      /\ res[p].status = "settled" => res'[p] = res[p]
  BY LedgerUnchanged
<1>3. ASSUME res[p].status # "none" PROVE res'[p].status # "none"
  <2>1. ASSUME NEW r \in Refs, NEW mode \in Modes, NEW asked \in Nat,
               ReserveUsageBalance(r, mode, asked)
        PROVE  res'[p].status # "none"
    BY <1>1, <1>3, <2>1 DEF ReserveUsageBalance
  <2>2. ASSUME NEW r \in Refs, ReleaseReservation(r) \/ MarkReconciliation(r)
        PROVE  res'[p].status # "none"
    BY <1>1, <1>3, <2>2 DEF ReleaseReservation, MarkReconciliation, ReservationType
  <2>3. ASSUME NEW renewed, PassInterval(renewed) PROVE res'[p].status # "none"
    BY <1>1, <1>3, <2>3 DEF PassInterval, ReservationType
  <2>4. ASSUME (\E b \in Nat : SetBalance(b)) \/ \E n : DeleteUsageBefore(n)
        PROVE  res'[p].status # "none"
    BY <1>3, <2>4 DEF SetBalance, DeleteUsageBefore
  <2>5. CASE UNCHANGED storeVars
    BY <1>3, <2>5 DEF storeVars
  <2> QED BY <2>1, <2>2, <2>3, <2>4, <2>5 DEF UnsettledStep
<1> QED BY <1>2, <1>3 DEF RowKept

LEMMA SettlementKeepsRows ==
  ASSUME StoreTypeOK, ChargedOnce, NEW r \in Refs, NEW charge \in Nat,
         SettleReservation(r, charge)
  PROVE  /\ \A p \in Refs \ {r} : RowKept(p)
         /\ res[r].status # "settled"
         /\ res'[r].status = "settled" /\ res'[r].entry = Len(ledger')
         /\ ledger'[Len(ledger')].billed = charge /\ Len(ledger') # 0
<1> DEFINE row == [ref |-> r, billed |-> charge, covered |-> Covered(r, charge),
                   after |-> balance']
           n   == Len(ledger) + 1
<1>1. res \in [Refs -> ReservationType] /\ ledger \in Seq(LedgerRowType)
  BY DEF StoreTypeOK
<1>2. ledger' = Append(ledger, row) /\ row.billed = charge
  BY DEF SettleReservation
<1>3. /\ Len(ledger') = n /\ n # 0 /\ n \notin DOMAIN ledger
      /\ \A i \in DOMAIN ledger : ledger'[i] = ledger[i]
      /\ ledger'[n].billed = charge
  <2> HIDE DEF row
  <2> QED BY <1>1, <1>2, Appended
<1>4. res' = [res EXCEPT ![r].status = "settled", ![r].entry = n] /\ res[r].status # "settled"
  BY <1>3 DEF SettleReservation, CanSettle
<1>5. res'[r].status = "settled" /\ res'[r].entry = n
  BY <1>1, <1>4 DEF ReservationType
<1> HIDE DEF n
<1>6. ASSUME NEW p \in Refs \ {r} PROVE RowKept(p)
  <2>1. res'[p] = res[p]
    BY <1>1, <1>4
  <2>2. res[p].status = "settled" => res[p].entry \in DOMAIN ledger
    BY DEF ChargedOnce
  <2> QED BY <1>3, <2>1, <2>2 DEF RowKept
<1> QED BY <1>3, <1>4, <1>5, <1>6

(* A handler that moves on keeps what it knows if its reservation is kept.  *)
LEMMA BillKept ==
  ASSUME TypeInv, NEW q \in Requests, BillKnown(q), MovesOn(q),
         req[q].ref \in Refs => RowKept(req[q].ref)
  PROVE  BillKnown(q)'
<1>1. req[q] \in RequestType /\ "none" \notin Refs
  BY BillingAssumption DEF TypeInv, TypeOK
<1>2. req[q].ref # "none" <=> req[q].ref \in Refs
  BY <1>1 DEF RequestType
<1>3. req[q].pc = "running" => req[q].ref \in Refs
  BY DEF TypeInv, Authorised, Live
<1>4. CASE req[q].ref \in Refs
  <2>1. req'[q].pc \in {"idle", "running", "stamping"} => req'[q].pc = req[q].pc
    BY DEF MovesOn
  <2>2. /\ req'[q].pc = "running" => res'[req[q].ref].status # "settled"
        /\ res'[req[q].ref].status # "none"
        /\ res'[req[q].ref].status = "settled" =>
             ledger'[res'[req[q].ref].entry].billed = req'[q].charge
    BY <1>2, <1>4, <2>1 DEF BillKnown, RowKept, MovesOn
  <2>3. req[q].bill # 0 =>
          res'[req[q].ref].status = "settled" /\ req[q].bill = res'[req[q].ref].entry
    BY <1>4 DEF BillKnown, RowKept
  <2> QED BY <1>2, <1>4, <2>1, <2>2, <2>3 DEF BillKnown, MovesOn
<1>5. CASE req[q].ref \notin Refs
  BY <1>2, <1>3, <1>5 DEF BillKnown, MovesOn
<1> QED BY <1>4, <1>5

LEMMA BillStep ==
  ASSUME TypeInv, ChargedOnce, BillInv, [Next]_vars
  PROVE  BillInv'
<1>1. StoreTypeOK /\ "none" \notin Refs /\ \A q \in Requests : req[q] \in RequestType
  BY BillingAssumption DEF TypeInv, TypeOK, StoreTypeOK
<1>2. \A q \in Requests : BillKnown(q) /\ (req[q].ref # "none" <=> req[q].ref \in Refs)
  BY <1>1 DEF BillInv, RequestType
<1>3. UnsettledStep => \A r \in Refs : RowKept(r)
  BY <1>1, UnsettledKeepsRows
<1>4. ASSUME NEW s \in Requests, SettlesFor(s)
      PROVE  \A r \in Refs \ {req[s].ref} : RowKept(r)
  BY <1>1, <1>4, SettlementKeepsRows DEF SettlesFor
<1>5. ASSUME NEW q \in Requests, NEW r \in Refs, UnsettledStep, Authorizes(q, r),
             \A p \in Requests \ {q} : MovesOn(p)
      PROVE  BillInv'
  <2>1. BillKnown(q)'
    BY <1>1, <1>2, <1>5 DEF BillKnown, Authorizes
  <2>2. ASSUME NEW p \in Requests \ {q} PROVE BillKnown(p)' /\ req'[p].ref # r
    BY <1>2, <1>3, <1>5, <2>2, BillKept DEF BillKnown, MovesOn, Authorizes
  <2>3. RefsDistinct'
    BY <1>5, <2>2 DEF BillInv, RefsDistinct, MovesOn, Authorizes
  <2> QED BY <2>1, <2>2, <2>3 DEF BillInv
<1>6. ASSUME \A q \in Requests : req'[q].ref = req[q].ref PROVE RefsDistinct'
  BY <1>6 DEF BillInv, RefsDistinct
<1>7. ASSUME NEW s \in Requests, SettlesFor(s)
      PROVE  /\ res[req[s].ref].status # "settled" /\ res'[req[s].ref].status = "settled"
             /\ res'[req[s].ref].entry = Len(ledger') /\ Len(ledger') # 0
             /\ ledger'[Len(ledger')].billed = req[s].charge
             /\ \A p \in Requests \ {s} : req[p].ref # req[s].ref
             /\ req[s].ref \in Refs /\ req[s].pc = "settling" /\ req[s].bill = 0
  BY <1>1, <1>2, <1>7, SettlementKeepsRows
     DEF SettlesFor, SettleUsage, BillInv, BillKnown, RefsDistinct
<1>8. ASSUME NEW s \in Requests, SettlesFor(s), \A p \in Requests \ {s} : MovesOn(p),
             NEW q \in Requests \ {s}
      PROVE  BillKnown(q)'
  BY <1>2, <1>4, <1>7, <1>8, BillKept
<1>9. ASSUME NEW s \in Requests, SettlesFor(s), Receives(s, Len(ledger')),
             \A p \in Requests \ {s} : MovesOn(p)
      PROVE  BillInv'
  <2>1. BillKnown(s)'
    BY <1>1, <1>2, <1>7, <1>9 DEF BillKnown, Receives
  <2>2. RefsDistinct'
    BY <1>6, <1>9 DEF MovesOn, Receives
  <2> QED BY <1>8, <1>9, <2>1, <2>2 DEF BillInv
<1>10. ASSUME NEW q \in Requests, UNCHANGED storeVars, res[req[q].ref].status = "settled",
              Receives(q, res[req[q].ref].entry), \A p \in Requests \ {q} : MovesOn(p)
       PROVE  BillInv'
  <2>1. req[q].ref \in Refs
    BY <1>10 DEF Receives, TypeInv, Authorised, Live
  <2>2. res[req[q].ref].entry # 0
    <3>1. res[req[q].ref].entry \in DOMAIN ledger
      BY <1>10, <2>1 DEF ChargedOnce
    <3> QED BY <1>1, <3>1 DEF StoreTypeOK
  <2>3. BillKnown(q)'
    BY <1>1, <1>2, <1>10, <2>1, <2>2 DEF BillKnown, Receives, storeVars
  <2>4. UnsettledStep
    BY <1>10 DEF UnsettledStep
  <2>5. \A p \in Requests \ {q} : BillKnown(p)'
    BY <1>2, <1>3, <1>10, <2>4, BillKept
  <2>6. RefsDistinct'
    BY <1>6, <1>10 DEF MovesOn, Receives
  <2> QED BY <2>3, <2>5, <2>6 DEF BillInv
<1>11. ASSUME AllMoveOn PROVE BillInv'
  <2>1. RefsDistinct'
    BY <1>6, <1>11 DEF AllMoveOn, MovesOn
  <2>2. CASE UnsettledStep
    BY <1>2, <1>3, <1>11, <2>1, <2>2, BillKept DEF AllMoveOn, BillInv
  <2>3. ASSUME NEW s \in Requests, SettlesFor(s) PROVE BillInv'
    <3>1. BillKnown(s)'
      BY <1>1, <1>2, <1>7, <1>11, <2>3 DEF AllMoveOn, BillKnown, MovesOn
    <3> QED BY <1>8, <1>11, <2>1, <2>3, <3>1 DEF AllMoveOn, BillInv
  <2> QED BY <2>2, <2>3, HandlerStep
<1>12. ASSUME NEW q \in Requests, OneMoves(q) PROVE BillInv'
  BY <1>5, <1>9, <1>10, <1>12 DEF OneMoves
<1> QED BY <1>11, <1>12, HandlersMove

(* The bill shown on a message is the row that was charged, and a handler   *)
(* that reported a recorded bill has one, for any number of retries, lost   *)
(* answers and handlers.                                                    *)
THEOREM BillsAuthoritative == Spec => []BillIsAuthoritative
<1>1. Init => BillInv
  BY BillingAssumption DEF Init, Idle, BillInv, BillKnown, RefsDistinct
<1>2. TypeInv /\ ChargedOnce /\ BillInv /\ [Next]_vars => BillInv'
  BY BillStep
<1>3. TypeInv /\ ChargedOnce /\ BillInv => BillIsAuthoritative
  <2> SUFFICES ASSUME TypeInv, ChargedOnce, BillInv, NEW q \in Requests
               PROVE  /\ req[q].bill # 0 => /\ res[req[q].ref].entry = req[q].bill
                                            /\ ledger[req[q].bill].ref = req[q].ref
                                            /\ ledger[req[q].bill].billed = req[q].charge
                      /\ req[q].pc = "recorded" => req[q].stamped /\ req[q].bill # 0
    BY DEF BillIsAuthoritative
  <2>1. BillKnown(q) /\ (req[q].ref # "none" => req[q].ref \in Refs)
    BY DEF BillInv, TypeInv, TypeOK, RequestType
  <2>2. req[q].bill # 0 => ledger[res[req[q].ref].entry].ref = req[q].ref
    BY <2>1 DEF BillKnown, ChargedOnce
  <2> QED BY <2>1, <2>2 DEF BillKnown
<1>4. Spec => []TypeInv
  BY InitTypes, NextTypes, PTL DEF Spec
<1> QED BY <1>1, <1>2, <1>3, <1>4, EveryReferenceChargedOnce, PTL DEF Spec

-----------------------------------------------------------------------------
(* What the ledger and the balance transactions record. *)

Row(r, charge) == [ref |-> r, billed |-> charge, covered |-> Covered(r, charge),
                   after |-> balance']
Txn(kind, ref, amount) == [kind |-> kind, ref |-> ref, amount |-> amount,
                           after |-> balance']

(* The three ways in which a transaction touches what is recorded.         *)
Settles(r, charge) ==
  /\ Covered(r, charge) \in Nat /\ charge - Covered(r, charge) \in Nat
  /\ balance' = balance - (charge - Covered(r, charge))
  /\ ledger' = Append(ledger, Row(r, charge))
  /\ \/ txns' = Append(txns, Txn("usage", r, -(charge - Covered(r, charge))))
     \/ txns' = txns /\ balance' = balance
  /\ res[r].status # "settled"

Adjusts(b) ==
  /\ balance' = b /\ ledger' = ledger
  /\ \/ txns' = Append(txns, Txn("admin_set", "admin", b - balance))
     \/ txns' = txns /\ b = balance

LEMMA RecordedEffect ==
  ASSUME StoreTypeOK, StoreStep
  PROVE  \/ UNCHANGED <<balance, ledger, txns>>
         \/ \E r \in Refs, charge \in Nat : Settles(r, charge)
         \/ \E b \in Nat : Adjusts(b)
<1>1. ASSUME NEW r \in Refs, NEW charge \in Nat, SettleReservation(r, charge)
      PROVE  Settles(r, charge)
  <2> DEFINE overage == charge - Covered(r, charge)
  <2>1. Covered(r, charge) \in Nat /\ overage \in Nat
    BY CoveredNat
  <2>2. /\ balance' = balance - overage /\ ledger' = Append(ledger, Row(r, charge))
        /\ res[r].status # "settled"
        /\ IF overage > 0 THEN AppendTxn("usage", r, -overage) ELSE UNCHANGED txns
    BY <1>1 DEF SettleReservation, CanSettle, Row
  <2>3. CASE overage > 0
    BY <2>1, <2>2, <2>3 DEF Settles, AppendTxn, Txn
  <2>4. CASE ~(overage > 0)
    <3>1. overage = 0
      BY <2>1, <2>4
    <3>2. balance' = balance /\ txns' = txns
      BY <2>2, <2>4, <3>1 DEF StoreTypeOK
    <3> QED BY <2>1, <2>2, <3>2 DEF Settles
  <2> QED BY <2>3, <2>4
<1>2. ASSUME NEW b \in Nat, SetBalance(b)
      PROVE  Adjusts(b)
  BY <1>2 DEF SetBalance, AppendTxn, Adjusts, Txn
<1>3. ASSUME \/ \E r \in Refs, mode \in Modes, asked \in Nat :
                  ReserveUsageBalance(r, mode, asked)
             \/ \E r \in Refs : ReleaseReservation(r) \/ MarkReconciliation(r)
             \/ \E renewed : PassInterval(renewed)
             \/ \E n : DeleteUsageBefore(n)
             \/ UNCHANGED storeVars
      PROVE  UNCHANGED <<balance, ledger, txns>>
  BY <1>3 DEF ReserveUsageBalance, ReleaseReservation, MarkReconciliation, PassInterval,
              DeleteUsageBefore, storeVars
<1> QED BY <1>1, <1>2, <1>3 DEF StoreStep

-----------------------------------------------------------------------------

LEMMA TxnsChainStep ==
  ASSUME StoreTypeOK, TxnsChain, StoreStep
  PROVE  TxnsChain'
<1>1. balance \in Int /\ txns \in Seq(TxnType)
  BY DEF StoreTypeOK
<1>2. ASSUME UNCHANGED <<balance, txns>>
      PROVE  TxnsChain'
  BY <1>2 DEF TxnsChain, BalanceAfter
<1>3. ASSUME NEW kind, NEW ref, NEW amount \in Int,
             txns' = Append(txns, Txn(kind, ref, amount)), balance' = balance + amount
      PROVE  TxnsChain'
  <2> DEFINE n == Len(txns)
             txn == Txn(kind, ref, amount)
  <2>1. n \in Nat /\ DOMAIN txns = 1..n
    BY <1>1
  <2>2. /\ Len(txns') = n + 1
        /\ DOMAIN txns' = DOMAIN txns \cup {n + 1}
        /\ \A i \in DOMAIN txns : i # n + 1 /\ txns'[i] = txns[i]
        /\ txns'[n + 1] = txn
    BY <1>1, <1>3, Appended
  <2>3. txn.after = balance' /\ txn.amount = amount
    BY DEF Txn
  <2> HIDE DEF txn
  <2>4. BalanceAfter(Len(txns))' = balance'
    BY <2>1, <2>2, <2>3 DEF BalanceAfter
  <2>5. ASSUME NEW i \in DOMAIN txns
        PROVE  txns'[i].after = (IF i - 1 = 0 THEN InitBalance ELSE txns'[i - 1].after)
                                + txns'[i].amount
    <3>1. txns[i].after = (IF i - 1 = 0 THEN InitBalance ELSE txns[i - 1].after)
                          + txns[i].amount
      BY DEF TxnsChain, BalanceAfter
    <3>2. txns'[i] = txns[i] /\ (i - 1 # 0 => txns'[i - 1] = txns[i - 1])
      BY <2>1, <2>2
    <3> QED BY <3>1, <3>2
  <2>6. txns'[n + 1].after = (IF n = 0 THEN InitBalance ELSE txns'[n].after)
                             + txns'[n + 1].amount
    <3>1. balance = IF n = 0 THEN InitBalance ELSE txns[n].after
      BY DEF TxnsChain, BalanceAfter
    <3>2. n # 0 => txns'[n] = txns[n]
      BY <2>1, <2>2
    <3> QED BY <1>3, <2>2, <2>3, <3>1, <3>2
  <2>7. \A i \in DOMAIN txns' :
           txns'[i].after = (IF i - 1 = 0 THEN InitBalance ELSE txns'[i - 1].after)
                            + txns'[i].amount
    <3>1. (n + 1) - 1 = n
      BY <2>1
    <3> QED BY <2>2, <2>5, <2>6, <3>1
  <2> QED BY <2>4, <2>7 DEF TxnsChain, BalanceAfter
<1>4. ASSUME NEW r \in Refs, NEW charge \in Nat, Settles(r, charge)
      PROVE  TxnsChain'
  <2> DEFINE overage == charge - Covered(r, charge)
  <2>1. overage \in Nat /\ balance' = balance - overage
    BY <1>4 DEF Settles
  <2>2. -overage \in Int /\ balance' = balance + (-overage)
    BY <1>1, <2>1
  <2>3. txns' = Append(txns, Txn("usage", r, -overage)) \/ UNCHANGED <<balance, txns>>
    BY <1>4 DEF Settles
  <2> HIDE DEF overage
  <2> QED BY <1>2, <1>3, <2>2, <2>3
<1>5. ASSUME NEW b \in Nat, Adjusts(b)
      PROVE  TxnsChain'
  <2>1. b - balance \in Int /\ balance' = balance + (b - balance)
    BY <1>1, <1>5 DEF Adjusts
  <2>2. \/ txns' = Append(txns, Txn("admin_set", "admin", b - balance))
        \/ UNCHANGED <<balance, txns>>
    BY <1>5 DEF Adjusts
  <2> QED BY <1>2, <1>3, <2>1, <2>2
<1> QED BY <1>2, <1>4, <1>5, RecordedEffect

LEMMA ChargesStep ==
  ASSUME StoreTypeOK, ChargedOnce, ChargesBacked, ChargesDistinct, StoreStep
  PROVE  ChargesBacked' /\ ChargesDistinct'
<1>1. ledger \in Seq(LedgerRowType) /\ txns \in Seq(TxnType)
  BY DEF StoreTypeOK
<1>2. ASSUME UNCHANGED <<ledger, txns>>
      PROVE  ChargesBacked' /\ ChargesDistinct'
  BY <1>2 DEF ChargesBacked, ChargesDistinct
<1>3. ASSUME NEW r \in Refs, NEW charge \in Nat, Settles(r, charge)
      PROVE  ChargesBacked' /\ ChargesDistinct'
  <2> DEFINE n == Len(ledger) + 1
             m == Len(txns) + 1
             covered == Covered(r, charge)
  <2>1. /\ DOMAIN ledger' = DOMAIN ledger \cup {n}
        /\ \A i \in DOMAIN ledger : i # n /\ ledger'[i] = ledger[i]
        /\ ledger'[n] = Row(r, charge)
    BY <1>1, <1>3, Appended DEF Settles
  <2>2. \A j \in DOMAIN ledger : ledger[j].ref # r
    BY <1>3 DEF Settles, ChargedOnce
  <2>3. \A i \in DOMAIN txns : txns[i].kind = "usage" => txns[i].ref # r
    BY <2>2 DEF ChargesBacked
  <2>4. ASSUME txns' = txns
        PROVE  ChargesBacked' /\ ChargesDistinct'
    BY <2>1, <2>4 DEF ChargesBacked, ChargesDistinct
  <2>5. ASSUME txns' = Append(txns, Txn("usage", r, -(charge - covered)))
        PROVE  ChargesBacked' /\ ChargesDistinct'
    <3>1. /\ DOMAIN txns' = DOMAIN txns \cup {m}
          /\ \A i \in DOMAIN txns : i # m /\ txns'[i] = txns[i]
          /\ txns'[m] = Txn("usage", r, -(charge - covered))
      BY <1>1, <2>5, Appended
    <3>2. /\ ledger'[n].ref = txns'[m].ref /\ ledger'[n].after = txns'[m].after
          /\ ledger'[n].billed - ledger'[n].covered = - txns'[m].amount
          /\ txns'[m].ref = r
      <4>1. covered \in Nat /\ charge - covered \in Nat
        BY <1>3 DEF Settles
      <4>2. - (- (charge - covered)) = charge - covered
        BY <4>1
      <4> HIDE DEF covered
      <4>3. Row(r, charge).billed - Row(r, charge).covered = charge - covered
        BY DEF Row, covered
      <4> QED BY <2>1, <3>1, <4>2, <4>3 DEF Row, Txn
    <3> HIDE DEF n, m, covered
    <3>3. ChargesBacked'
      BY <2>1, <3>1, <3>2 DEF ChargesBacked
    <3>4. ChargesDistinct'
      BY <2>3, <3>1, <3>2 DEF ChargesDistinct
    <3> QED BY <3>3, <3>4
  <2> QED BY <1>3, <2>4, <2>5 DEF Settles
<1>4. ASSUME NEW b \in Nat, Adjusts(b)
      PROVE  ChargesBacked' /\ ChargesDistinct'
  <2> DEFINE m == Len(txns) + 1
  <2>1. ledger' = ledger
    BY <1>4 DEF Adjusts
  <2>2. ASSUME txns' = Append(txns, Txn("admin_set", "admin", b - balance))
        PROVE  ChargesBacked' /\ ChargesDistinct'
    <3>1. /\ DOMAIN txns' = DOMAIN txns \cup {m}
          /\ \A i \in DOMAIN txns : i # m /\ txns'[i] = txns[i]
          /\ txns'[m].kind = "admin_set"
      BY <1>1, <2>2, Appended DEF Txn
    <3> HIDE DEF m
    <3> QED BY <2>1, <3>1 DEF ChargesBacked, ChargesDistinct
  <2> QED BY <1>2, <1>4, <2>1, <2>2 DEF Adjusts
<1> QED BY <1>2, <1>3, <1>4, RecordedEffect

(* Lost answers, retries and concurrent administrators leave no movement of *)
(* the balance without its transaction, and no charge without its row.      *)
THEOREM BalancesExplained == Spec => []BalanceExplained
<1>1. Init => ChargedOnce /\ BalanceExplained
  <2> SUFFICES ASSUME Init PROVE ChargedOnce /\ BalanceExplained
    OBVIOUS
  <2>1. ledger = <<>> /\ txns = <<>> /\ balance = InitBalance
    BY DEF Init, StoreInit
  <2>2. ChargedOnce
    BY <2>1 DEF Init, StoreInit, ChargedOnce, NoReservation
  <2> QED BY <2>1, <2>2 DEF BalanceExplained, TxnsChain, BalanceAfter, ChargesBacked,
                            ChargesDistinct
<1>2. TypeInv /\ ChargedOnce /\ BalanceExplained /\ [Next]_vars
        => ChargedOnce' /\ BalanceExplained'
  BY StepIsTransaction, ChargedOnceStep, TxnsChainStep, ChargesStep
     DEF TypeInv, TypeOK, StoreTypeOK, BalanceExplained
<1>3. Spec => []TypeInv
  BY InitTypes, NextTypes, PTL DEF Spec
<1> QED BY <1>1, <1>2, <1>3, PTL DEF Spec

-----------------------------------------------------------------------------

CoveredColumn == [i \in DOMAIN ledger |-> ledger[i].covered]
BilledColumn  == [i \in DOMAIN ledger |-> ledger[i].billed]

CoveredByBill == \A i \in DOMAIN ledger : ledger[i].covered <= ledger[i].billed

PaidByPlan == Total(Kept, CoveredColumn)
Promised   == Total(Unexpired, Credits)

LEMMA RowsTyped ==
  ASSUME StoreTypeOK
  PROVE  /\ IsFiniteSet(Kept) /\ Kept \subseteq DOMAIN ledger
         /\ \A i \in DOMAIN ledger : CoveredColumn[i] \in Nat /\ BilledColumn[i] \in Nat
<1>1. /\ DOMAIN ledger = 1..Len(ledger) /\ Len(ledger) \in Nat
      /\ IsFiniteSet(Kept) /\ Kept \subseteq DOMAIN ledger
  BY KeptRows DEF StoreTypeOK
<1>2. \A i \in DOMAIN ledger : ledger[i] \in LedgerRowType
  BY <1>1 DEF StoreTypeOK
<1> QED BY <1>1, <1>2 DEF CoveredColumn, BilledColumn, LedgerRowType

(* What the plan paid is part of what was billed. *)
LEMMA CoveredWithinUsed ==
  ASSUME StoreTypeOK, CoveredByBill
  PROVE  PaidByPlan \in Nat /\ PaidByPlan <= Used
<1>1. \A i \in Kept : CoveredColumn[i] \in Nat /\ BilledColumn[i] \in Nat
                      /\ CoveredColumn[i] <= BilledColumn[i]
  BY RowsTyped DEF CoveredByBill, CoveredColumn, BilledColumn
<1>2. Total(Kept, CoveredColumn) <= Total(Kept, BilledColumn)
  BY <1>1, RowsTyped, TotalGrows
<1>3. Used = Total(Kept, BilledColumn)
  BY DEF Used, BilledColumn
<1>4. Total(Kept, CoveredColumn) \in Nat
  BY <1>1, RowsTyped, TotalNat
<1> QED BY <1>2, <1>3, <1>4 DEF PaidByPlan

(* Unexpired reservations hold, so the transactions subtract their credit.  *)
LEMMA PromisedWithinHeld ==
  ASSUME StoreTypeOK
  PROVE  /\ IsFiniteSet(Unexpired) /\ Unexpired \subseteq Refs
         /\ \A r \in Refs : Credits[r] = res[r].credit /\ Credits[r] \in Nat
         /\ Promised \in Nat
         /\ \A owner : Total(Unexpired \ owner, Credits) <= HeldCredit(owner)
<1>1. \A r \in Refs : Credits[r] = res[r].credit /\ Credits[r] \in Nat
  BY DEF StoreTypeOK, Credits, ReservationType
<1>2. Unexpired \subseteq Holders /\ IsFiniteSet(Holders) /\ Holders \subseteq Refs
  BY HoldersFinite DEF Unexpired, Holders, Holding
<1>3. IsFiniteSet(Unexpired)
  BY <1>2, FS_Subset
<1>4. Promised \in Nat
  BY <1>1, <1>2, <1>3, TotalNat DEF Promised
<1>5. ASSUME NEW owner PROVE Total(Unexpired \ owner, Credits) <= HeldCredit(owner)
  <2>1. IsFiniteSet(Holders \ owner) /\ Unexpired \ owner \in SUBSET (Holders \ owner)
    BY <1>2, FS_Difference
  <2>2. \A r \in Holders \ owner : Credits[r] \in Nat
    BY <1>1, <1>2
  <2> QED BY <2>1, <2>2, TotalSubset DEF HeldCredit
<1> QED BY <1>1, <1>2, <1>3, <1>4, <1>5

(* The promises that stay as they were. *)
LEMMA PromisedShrinks ==
  ASSUME StoreTypeOK, NEW S \in SUBSET Unexpired, \A r \in S : res'[r].credit = res[r].credit
  PROVE  /\ Total(S, Credits') = Total(S, Credits)
         /\ Total(S, Credits) <= Promised
<1>1. \A r \in S : Credits'[r] = Credits[r]
  BY PromisedWithinHeld DEF Credits
<1>2. Total(S, Credits') = Total(S, Credits)
  BY <1>1, TotalSame
<1>3. \A r \in Unexpired : Credits[r] \in Nat
  BY PromisedWithinHeld
<1> QED BY <1>2, <1>3, PromisedWithinHeld, TotalSubset DEF Promised

LEMMA PaidShrinks ==
  ASSUME StoreTypeOK, ledger' = ledger, Kept' \subseteq Kept
  PROVE  PaidByPlan' <= PaidByPlan
<1>1. CoveredColumn' = CoveredColumn
  BY DEF CoveredColumn
<1>2. \A i \in Kept : CoveredColumn[i] \in Nat
  BY RowsTyped
<1> QED BY <1>1, <1>2, RowsTyped, TotalSubset DEF PaidByPlan

CreditInv == CoveredByBill /\ PaidByPlan + Promised <= PeriodLimit

(* A transaction that writes no row and makes no promise. *)
LEMMA CreditKept ==
  ASSUME StoreTypeOK, StoreTypeOK', CreditInv, ledger' = ledger, Kept' \subseteq Kept,
         Unexpired' \subseteq Unexpired, \A r \in Unexpired' : res'[r].credit = res[r].credit
  PROVE  CreditInv'
<1>1. CoveredByBill'
  BY DEF CreditInv, CoveredByBill
<1>2. PaidByPlan' <= PaidByPlan
  BY PaidShrinks
<1>3. Promised' <= Promised
  <2>1. Total(Unexpired', Credits') <= Promised
    BY PromisedShrinks
  <2> QED BY <2>1 DEF Promised
<1>4. PaidByPlan \in Nat /\ Promised \in Nat /\ PeriodLimit \in Nat
  BY CoveredWithinUsed, PromisedWithinHeld, StoreAssumption DEF CreditInv
<1>5. CoveredByBill' => PaidByPlan' \in Nat
  <2>1. \A i \in Kept' : CoveredColumn'[i] \in Nat
    <3>1. CoveredColumn' = CoveredColumn
      BY DEF CoveredColumn
    <3> QED BY <3>1, RowsTyped
  <2>2. IsFiniteSet(Kept')
    BY RowsTyped, FS_Subset
  <2>3. Total(Kept', CoveredColumn') \in Nat
    BY <2>1, <2>2, TotalNat
  <2> QED BY <2>3 DEF PaidByPlan
<1>6. Promised' \in Nat
  <2>1. IsFiniteSet(Unexpired') /\ Unexpired' \subseteq Refs
    BY PromisedWithinHeld, FS_Subset
  <2>2. \A r \in Unexpired' : Credits'[r] \in Nat
    BY <2>1 DEF StoreTypeOK, Credits, ReservationType
  <2>3. Total(Unexpired', Credits') \in Nat
    BY <2>1, <2>2, TotalNat
  <2> QED BY <2>3 DEF Promised
<1> QED BY <1>1, <1>2, <1>3, <1>4, <1>5, <1>6 DEF CreditInv

LEMMA CreditReserved ==
  ASSUME StoreTypeOK, StoreTypeOK', CreditInv,
         NEW r \in Refs, NEW mode \in Modes, NEW asked \in Nat,
         ReserveUsageBalance(r, mode, asked)
  PROVE  CreditInv'
<1> DEFINE amount == Requested(mode, asked)
           credit == Lesser(amount, AvailableCredit(mode))
           row    == [status |-> "active", mode |-> mode, budget |-> amount - credit,
                      credit |-> credit, lease |-> LeaseTTL, entry |-> 0]
<1>1. /\ res' = [res EXCEPT ![r] = row] /\ res[r].status = "none"
      /\ UNCHANGED <<ledger, cleaned>>
      /\ amount \in 1..(AvailableCredit(mode) + AvailableBudget)
  BY DEF ReserveUsageBalance, CanReserve
<1>2. res \in [Refs -> ReservationType]
  BY DEF StoreTypeOK
<1>3. AvailableBudget \in Nat /\ AvailableCredit(mode) \in Nat
  BY AvailableNat
<1>4. credit \in Nat /\ credit <= AvailableCredit(mode)
  <2>1. amount \in Nat
    BY <1>1, <1>3
  <2> HIDE DEF amount
  <2> QED BY <1>3, <2>1, LesserNat
<1>5. /\ res'[r].credit = credit /\ res'[r].status = "active" /\ res'[r].lease > 0
      /\ \A p \in Refs \ {r} : res'[p] = res[p]
  <2> HIDE DEF credit, amount
  <2> QED BY <1>1, <1>2, StoreAssumption
<1> HIDE DEF row, credit, amount
<1>6. r \notin Unexpired /\ Unexpired' = Unexpired \cup {r}
  BY <1>1, <1>5 DEF Unexpired
<1>7. Promised' = Promised + credit
  <2>1. \A p \in Refs : Credits'[p] = res'[p].credit /\ Credits'[p] \in Nat
    BY DEF StoreTypeOK, Credits, ReservationType
  <2>2. Total(Unexpired \cup {r}, Credits') = Total(Unexpired, Credits') + Credits'[r]
    <3>1. IsFiniteSet(Unexpired) /\ \A p \in Unexpired \cup {r} : Credits'[p] \in Nat
      BY <2>1, PromisedWithinHeld
    <3> QED BY <1>6, <3>1, TotalAdd
  <2>3. \A p \in Unexpired : res'[p].credit = res[p].credit
    BY <1>5, <1>6, PromisedWithinHeld
  <2>4. Total(Unexpired, Credits') = Promised
    BY <2>3, PromisedShrinks DEF Promised
  <2> QED BY <1>5, <1>6, <2>1, <2>2, <2>4 DEF Promised
<1>8. PaidByPlan' = PaidByPlan /\ CoveredByBill'
  BY <1>1 DEF CreditInv, CoveredByBill, PaidByPlan, Kept, CoveredColumn
<1>9. credit = 0 \/ Used + Promised + credit <= PeriodLimit
  <2>1. Used \in Nat /\ HeldCredit({}) \in Nat /\ PeriodLimit \in Nat /\ Promised \in Nat
    BY UsedNat, HeldNat, PromisedWithinHeld, StoreAssumption DEF StoreTypeOK
  <2>2. Promised <= HeldCredit({})
    <3>1. Total(Unexpired \ {}, Credits) <= HeldCredit({})
      BY PromisedWithinHeld
    <3>2. Unexpired \ {} = Unexpired
      OBVIOUS
    <3> QED BY <3>1, <3>2 DEF Promised
  <2>3. \/ AvailableCredit(mode) = 0
        \/ AvailableCredit(mode) = PeriodLimit - Used - HeldCredit({})
    BY DEF AvailableCredit, Remaining, NonNegative
  <2> QED BY <1>4, <2>1, <2>2, <2>3
<1>10. PaidByPlan <= Used /\ PaidByPlan \in Nat /\ Used \in Nat /\ Promised \in Nat
       /\ PeriodLimit \in Nat
  BY CoveredWithinUsed, UsedNat, PromisedWithinHeld, StoreAssumption DEF StoreTypeOK, CreditInv
<1> QED BY <1>4, <1>7, <1>8, <1>9, <1>10 DEF CreditInv

LEMMA CreditSettled ==
  ASSUME StoreTypeOK, StoreTypeOK', CreditInv,
         NEW r \in Refs, NEW charge \in Nat, SettleReservation(r, charge)
  PROVE  CreditInv'
<1> DEFINE n == Len(ledger) + 1
           covered == Covered(r, charge)
<1>1. /\ ledger' = Append(ledger, Row(r, charge)) /\ cleaned' = cleaned
      /\ res' = [res EXCEPT ![r].status = "settled", ![r].entry = Len(ledger')]
  BY DEF SettleReservation, Row
<1>2. /\ DOMAIN ledger' = DOMAIN ledger \cup {n}
      /\ \A i \in DOMAIN ledger : i # n /\ ledger'[i] = ledger[i]
      /\ ledger'[n] = Row(r, charge)
      /\ n \notin DOMAIN ledger /\ Len(ledger') = n
  BY <1>1, Appended DEF StoreTypeOK
<1>3. Kept' = Kept \cup {n} /\ n \notin Kept
  <2>1. cleaned \in 0..Len(ledger) /\ Len(ledger) \in Nat
    BY DEF StoreTypeOK
  <2>2. Kept' = (cleaned + 1)..n
    BY <1>1, <1>2 DEF Kept
  <2>3. n \in Int /\ n = Len(ledger) + 1 /\ Kept = (cleaned + 1)..Len(ledger)
    BY <2>1 DEF Kept
  <2> HIDE DEF n
  <2>4. \A i : i \in (cleaned + 1)..n <=> i \in (cleaned + 1)..Len(ledger) \/ i = n
    BY <2>1, <2>3
  <2>5. n \notin (cleaned + 1)..Len(ledger)
    BY <2>1, <2>3
  <2> QED BY <2>2, <2>3, <2>4, <2>5
<1>4. ledger'[n].covered = covered /\ ledger'[n].billed = charge
  BY <1>2 DEF Row
<1>5. covered \in Nat /\ covered <= charge
  BY CoveredNat
<1>6. covered = 0 \/ Used + HeldCredit({r}) + covered <= PeriodLimit
  <2>1. Used \in Nat /\ HeldCredit({r}) \in Nat /\ PeriodLimit \in Nat
    BY UsedNat, HeldNat, StoreAssumption DEF StoreTypeOK
  <2> QED BY <1>5, <2>1 DEF Covered, Lesser, Remaining, NonNegative
<1> HIDE DEF n, covered
<1>7. CoveredByBill'
  BY <1>2, <1>4, <1>5 DEF CreditInv, CoveredByBill
<1>8. PaidByPlan' = PaidByPlan + covered
  <2>1. /\ CoveredColumn'[n] = covered
        /\ \A i \in DOMAIN ledger : CoveredColumn'[i] = CoveredColumn[i]
    BY <1>2, <1>4 DEF CoveredColumn
  <2>2. \A i \in Kept \cup {n} : CoveredColumn'[i] \in Nat
    BY <1>5, <2>1, RowsTyped
  <2>3. Total(Kept \cup {n}, CoveredColumn') = Total(Kept, CoveredColumn') + CoveredColumn'[n]
    BY <1>3, <2>2, RowsTyped, TotalAdd
  <2>4. Total(Kept, CoveredColumn') = Total(Kept, CoveredColumn)
    BY <2>1, RowsTyped, TotalSame
  <2> QED BY <1>3, <2>1, <2>3, <2>4 DEF PaidByPlan
<1>9. /\ Unexpired' = Unexpired \ {r}
      /\ \A p \in Unexpired' : res'[p].credit = res[p].credit
  <2>1. res'[r].status = "settled" /\ \A p \in Refs \ {r} : res'[p] = res[p]
    BY <1>1 DEF StoreTypeOK, ReservationType
  <2> QED BY <2>1 DEF Unexpired
<1>10. Promised' <= HeldCredit({r}) /\ Promised' <= Promised
  <2>1. Total(Unexpired \ {r}, Credits) <= HeldCredit({r})
    BY PromisedWithinHeld
  <2>2. /\ Total(Unexpired', Credits') = Total(Unexpired', Credits)
        /\ Total(Unexpired', Credits) <= Promised
    BY <1>9, PromisedShrinks
  <2> QED BY <1>9, <2>1, <2>2 DEF Promised
<1>11. Promised' \in Nat
  <2>1. IsFiniteSet(Unexpired') /\ Unexpired' \subseteq Refs
    BY <1>9, PromisedWithinHeld, FS_Subset
  <2>2. \A p \in Unexpired' : Credits'[p] \in Nat
    BY <2>1 DEF StoreTypeOK, Credits, ReservationType
  <2>3. Total(Unexpired', Credits') \in Nat
    BY <2>1, <2>2, TotalNat
  <2> QED BY <2>3 DEF Promised
<1>12. /\ PaidByPlan <= Used /\ PaidByPlan \in Nat /\ Used \in Nat /\ Promised \in Nat
       /\ PeriodLimit \in Nat /\ HeldCredit({r}) \in Nat
  BY CoveredWithinUsed, UsedNat, HeldNat, PromisedWithinHeld, StoreAssumption
     DEF StoreTypeOK, CreditInv
<1>13. PaidByPlan + Promised <= PeriodLimit
  BY DEF CreditInv
<1>14. Promised' <= PeriodLimit - (PaidByPlan + covered)
  BY <1>5, <1>6, <1>10, <1>11, <1>12, <1>13
<1>15. PaidByPlan + covered \in Nat
  BY <1>5, <1>12
<1> QED BY <1>7, <1>8, <1>11, <1>12, <1>14, <1>15 DEF CreditInv

LEMMA CreditStep ==
  ASSUME StoreTypeOK, StoreTypeOK', CreditInv, StoreStep
  PROVE  CreditInv'
<1>1. res \in [Refs -> ReservationType]
  BY DEF StoreTypeOK
<1>2. ASSUME NEW r \in Refs, ReleaseReservation(r) \/ MarkReconciliation(r)
      PROVE  CreditInv'
  <2>1. ledger' = ledger /\ cleaned' = cleaned
    BY <1>2 DEF ReleaseReservation, MarkReconciliation
  <2>2. \A p \in Refs : \/ res'[p] = res[p]
                        \/ res'[p].status \in {"released", "reconciliation"}
    BY <1>1, <1>2 DEF ReleaseReservation, MarkReconciliation, ReservationType
  <2>3. Unexpired' \subseteq Unexpired /\ \A p \in Unexpired' : res'[p].credit = res[p].credit
    BY <2>2 DEF Unexpired
  <2> QED BY <2>1, <2>3, CreditKept DEF Kept
<1>3. ASSUME NEW renewed, PassInterval(renewed)
      PROVE  CreditInv'
  <2>1. ledger' = ledger /\ cleaned' = cleaned
    BY <1>3 DEF PassInterval
  <2>2. ASSUME NEW p \in Refs
        PROVE  /\ res'[p].credit = res[p].credit /\ res'[p].status = res[p].status
               /\ res'[p].status = "active" /\ res'[p].lease > 0 => res[p].lease > 0
    <3>1. res[p] \in ReservationType /\ res[p].lease \in Nat
      BY <1>1, StoreAssumption DEF ReservationType
    <3>2. CASE res[p].status # "active" \/ (p \in renewed /\ res[p].lease > 1)
      BY <1>1, <1>3, <3>1, <3>2 DEF PassInterval, ReservationType
    <3>3. CASE res[p].status = "active" /\ ~(p \in renewed /\ res[p].lease > 1)
      <4>1. res'[p] = [res[p] EXCEPT !.lease = NonNegative(res[p].lease - 1)]
        BY <1>1, <1>3, <3>3 DEF PassInterval
      <4> QED BY <3>1, <3>3, <4>1 DEF ReservationType, NonNegative
    <3> QED BY <3>2, <3>3
  <2>3. Unexpired' \subseteq Unexpired /\ \A p \in Unexpired' : res'[p].credit = res[p].credit
    BY <2>2 DEF Unexpired
  <2> QED BY <2>1, <2>3, CreditKept DEF Kept
<1>4. ASSUME (\E b \in Nat : SetBalance(b)) \/ UNCHANGED storeVars
      PROVE  CreditInv'
  <2>1. UNCHANGED <<res, ledger, cleaned>>
    BY <1>4 DEF SetBalance, storeVars
  <2> QED BY <2>1, CreditKept DEF Kept, Unexpired
<1>5. ASSUME NEW n, DeleteUsageBefore(n)
      PROVE  CreditInv'
  <2>1. UNCHANGED <<res, ledger>> /\ cleaned' = n /\ n \in (cleaned + 1)..Len(ledger)
    BY <1>5 DEF DeleteUsageBefore, Kept
  <2>2. cleaned \in 0..Len(ledger) /\ Len(ledger) \in Nat
    BY DEF StoreTypeOK
  <2>3. Kept' \subseteq Kept
    BY <2>1, <2>2 DEF Kept
  <2> QED BY <2>1, <2>3, CreditKept DEF Unexpired
<1> QED BY <1>2, <1>3, <1>4, <1>5, CreditReserved, CreditSettled DEF StoreStep

(* For every plan, every number of requests and every interleaving, log     *)
(* cleanup included: what the plan paid for the rows still in the ledger    *)
(* and what it promised unexpired reservations stay within the credit of    *)
(* the period.                                                              *)
THEOREM CreditNeverExceeded == Spec => []CreditBounded
<1>1. Init => CreditInv
  <2> SUFFICES ASSUME Init PROVE CreditInv
    OBVIOUS
  <2>1. ledger = <<>> /\ cleaned = 0 /\ Unexpired = {}
    BY DEF Init, StoreInit, NoReservation, Unexpired
  <2>2. Kept = {}
    <3>1. Kept = 1..0
      BY <2>1 DEF Kept
    <3> QED BY <3>1
  <2>3. PaidByPlan = 0 /\ Promised = 0
    BY <2>1, <2>2, TotalEmpty DEF PaidByPlan, Promised
  <2> QED BY <2>1, <2>3, StoreAssumption DEF CreditInv, CoveredByBill
<1>2. TypeInv /\ CreditInv /\ [Next]_vars => CreditInv'
  BY StepIsTransaction, StoreTypeStep, CreditStep DEF TypeInv, TypeOK, StoreTypeOK
<1>3. CreditInv => CreditBounded
  BY DEF CreditInv, CreditBounded, PaidByPlan, Promised, CoveredColumn
<1>4. Spec => []TypeInv
  BY InitTypes, NextTypes, PTL DEF Spec
<1> QED BY <1>1, <1>2, <1>3, <1>4, PTL DEF Spec

-----------------------------------------------------------------------------
(* Refinement.                                                             *)

LEMMA PromiseStep ==
  ASSUME StoreTypeOK, ChargedOnce, StoreStep
  PROVE  [Promise!Charge \/ Promise!Credit]_(Promise!account)
<1>1. ledger \in Seq(LedgerRowType) /\ txns \in Seq(TxnType)
  BY DEF StoreTypeOK
<1>2. CASE UNCHANGED <<balance, ledger, txns>>
  BY <1>2 DEF Promise!account, Bills, Adjustments
<1>3. ASSUME NEW r \in Refs, NEW charge \in Nat, Settles(r, charge)
      PROVE  Promise!Charge
  <2> DEFINE n   == Len(ledger) + 1
             m   == Len(txns) + 1
             paid == charge - Covered(r, charge)
             new == [ref |-> r, amount |-> paid]
  <2>1. /\ DOMAIN ledger' = DOMAIN ledger \cup {n}
        /\ \A i \in DOMAIN ledger : i # n /\ ledger'[i] = ledger[i]
        /\ ledger'[n] = Row(r, charge)
    <3>1. ledger' = Append(ledger, Row(r, charge))
      BY <1>3 DEF Settles
    <3> QED BY <1>1, <3>1, Appended
  <2>2. paid \in Nat /\ balance' = balance - paid
    BY <1>3 DEF Settles
  <2>3. Bills' = Bills \cup {new}
    <3>1. [ref |-> ledger'[n].ref, amount |-> ledger'[n].billed - ledger'[n].covered] = new
      BY <2>1 DEF Row
    <3>2. Bills' = {[ref |-> ledger'[i].ref,
                     amount |-> ledger'[i].billed - ledger'[i].covered] :
                       i \in DOMAIN ledger \cup {n}}
      BY <2>1 DEF Bills
    <3>3. \A i \in DOMAIN ledger :
             [ref |-> ledger'[i].ref, amount |-> ledger'[i].billed - ledger'[i].covered]
               = [ref |-> ledger[i].ref, amount |-> ledger[i].billed - ledger[i].covered]
      BY <2>1
    <3> DEFINE amountOf(i) == [ref |-> ledger'[i].ref,
                               amount |-> ledger'[i].billed - ledger'[i].covered]
               before(i) == [ref |-> ledger[i].ref,
                             amount |-> ledger[i].billed - ledger[i].covered]
    <3>4. Bills = {before(i) : i \in DOMAIN ledger}
      BY DEF Bills
    <3>5. Bills' = {amountOf(i) : i \in DOMAIN ledger \cup {n}}
      BY <3>2
    <3>6. amountOf(n) = new /\ \A i \in DOMAIN ledger : amountOf(i) = before(i)
      BY <3>1, <3>3
    <3> HIDE DEF n, new, amountOf, before
    <3> QED BY <3>4, <3>5, <3>6
  <2>4. \A old \in Bills : old.ref # r
    BY <1>3 DEF Settles, ChargedOnce, Bills
  <2>5. Adjustments' = Adjustments
    <3>1. CASE txns' = txns
      BY <3>1 DEF Adjustments
    <3>2. CASE txns' = Append(txns, Txn("usage", r, -paid))
      <4>1. /\ DOMAIN txns' = DOMAIN txns \cup {m}
            /\ \A i \in DOMAIN txns : i # m /\ txns'[i] = txns[i]
            /\ txns'[m].kind = "usage"
        BY <1>1, <3>2, Appended DEF Txn
      <4>2. {j \in DOMAIN txns' : txns'[j].kind # "usage"}
              = {j \in DOMAIN txns : txns[j].kind # "usage"}
        BY <4>1
      <4> QED BY <4>1, <4>2 DEF Adjustments
    <3> QED BY <1>3, <3>1, <3>2 DEF Settles
  <2>6. new.ref = r /\ new.amount = paid /\ new \in Bills'
    BY <2>3
  <2> HIDE DEF paid, new
  <2>7. /\ \A old \in Bills : old.ref # new.ref
        /\ new.ref \in Refs /\ new.amount >= 0
        /\ Bills' = Bills \cup {new}
        /\ balance' = balance - new.amount
    BY <2>2, <2>3, <2>4, <2>6
  <2> QED BY <2>5, <2>6, <2>7 DEF Promise!Charge
<1>4. ASSUME NEW b \in Nat, Adjusts(b)
      PROVE  Promise!Credit \/ UNCHANGED Promise!account
  <2>1. Bills' = Bills
    BY <1>4 DEF Adjusts, Bills
  <2>2. CASE txns' = txns /\ b = balance
    BY <1>4, <2>1, <2>2 DEF Adjusts, Adjustments, Promise!account
  <2>3. CASE txns' = Append(txns, Txn("admin_set", "admin", b - balance))
    <3> DEFINE m   == Len(txns) + 1
               new == [nr |-> m, amount |-> b - balance]
    <3>1. /\ DOMAIN txns' = DOMAIN txns \cup {m}
          /\ \A i \in DOMAIN txns : i # m /\ txns'[i] = txns[i]
          /\ txns'[m] = Txn("admin_set", "admin", b - balance)
          /\ m \notin DOMAIN txns
      BY <1>1, <2>3, Appended
    <3>2. txns'[m].kind # "usage" /\ txns'[m].amount = b - balance
      BY <3>1 DEF Txn
    <3>3. {j \in DOMAIN txns' : txns'[j].kind # "usage"}
            = {j \in DOMAIN txns : txns[j].kind # "usage"} \cup {m}
      <4> HIDE DEF m
      <4> QED BY <3>1, <3>2
    <3>4. Adjustments' = Adjustments \cup {new}
      <4> HIDE DEF m
      <4>1. [nr |-> m, amount |-> txns'[m].amount] = new
        BY <3>2
      <4>2. \A i \in DOMAIN txns : txns'[i].amount = txns[i].amount
        BY <3>1
      <4> HIDE DEF new
      <4> QED BY <3>3, <4>1, <4>2 DEF Adjustments
    <3>5. \A old \in Adjustments : old.nr # m
      BY <3>1 DEF Adjustments
    <3>6. balance' = balance + (b - balance)
      BY <1>4 DEF Adjusts, StoreTypeOK
    <3>7. new.nr = m /\ new.amount = b - balance /\ new \in Adjustments'
      BY <3>4
    <3> HIDE DEF new, m
    <3>8. /\ \A old \in Adjustments : old.nr # new.nr
          /\ Adjustments' = Adjustments \cup {new}
          /\ balance' = balance + new.amount
      BY <3>4, <3>5, <3>6, <3>7
    <3> QED BY <2>1, <3>7, <3>8 DEF Promise!Credit
  <2> QED BY <1>4, <2>2, <2>3 DEF Adjusts
<1> QED BY <1>2, <1>3, <1>4, RecordedEffect

(* Reservations, settlements, retries, lapsed leases and reconciliations    *)
(* together implement the promise of UserAccount.                           *)
THEOREM PromiseKept == Spec => KeepsPromise
<1>1. Init => Promise!Init
  BY DEF Init, StoreInit, Promise!Init, Bills, Adjustments
<1>2. Init => ChargedOnce
  BY DEF Init, StoreInit, ChargedOnce, NoReservation
<1>3. TypeInv /\ ChargedOnce /\ [Next]_vars
        => ChargedOnce' /\ [Promise!Charge \/ Promise!Credit]_(Promise!account)
  BY StepIsTransaction, ChargedOnceStep, PromiseStep DEF TypeInv, TypeOK, StoreTypeOK
<1>4. Spec => []TypeInv
  BY InitTypes, NextTypes, PTL DEF Spec
<1> QED BY <1>1, <1>2, <1>3, <1>4, PTL DEF Spec, KeepsPromise, Promise!Spec

=============================================================================
