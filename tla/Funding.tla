------------------------------- MODULE Funding -------------------------------
(***************************************************************************)
(* What users pay for and redeem: orders completed by webhooks, redemption *)
(* codes, and the balance and the subscriptions they grant.                *)
(*                                                                         *)
(* A call is a webhook, a redemption or a change to the free plan.  Its    *)
(* transaction locks the row of the order or the code; what it locks of    *)
(* the user's subscriptions are the rows that were there when its          *)
(* statement began (PostgreSQL, read committed), as they are when it gets  *)
(* them: rows that others insert meanwhile it does not see.  Locking,      *)
(* rewriting and committing are one step, since nobody else changes locked *)
(* rows.  Calls are short: time passes between them.                       *)
(***************************************************************************)
EXTENDS SubscriptionTimeline, Totals

CONSTANTS
  Users, Orders, Codes,
  Calls,       \* calls under way at the same time
  Plans,       \* ranks of the plans that are paid for
  Durations,   \* what an order or a code may grant of a plan
  Limits,      \* of the redemptions of a code, all and a user's; 0: none
  MaxClock,    \* bound: time
  MaxChanges   \* bound: changes that administrators make, or to the free plan

ASSUME FundingAssumption ==
  /\ \A S \in {Users, Orders, Codes, Calls} : IsFiniteSet(S)
  /\ Plans \subseteq Nat \ {0} /\ Durations \subseteq Nat \ {0}
  /\ Limits \subseteq Nat
  /\ Orders \cap Codes = {}   \* rows of different tables
  /\ MaxClock \in Nat /\ MaxChanges \in Nat

VARIABLES
  clock,
  sub,       \* the subscriptions of each user that have an end
  balance,   \* in credits: a top-up or a code grants one
  order,
  code,
  redeemed,  \* how often a user has redeemed a code
  call,
  owed,      \* history: the time a user is still to have
  crossed,   \* history: two changes of a user's subscriptions crossed
  changes

vars == <<clock, sub, balance, order, code, redeemed, call, owed, crossed,
          changes>>

TopUp == 0

Kinds == Plans \cup {TopUp}

NoOrder == [status |-> "none", user |-> CHOOSE u \in Users : TRUE,
            kind |-> TopUp, long |-> 0, late |-> FALSE, nr |-> 0, gone |-> FALSE]

NoCode == [status |-> "none", kind |-> TopUp, long |-> 0, max |-> 0,
           each |-> 1, count |-> 0]

Idle == [pc |-> "idle", of |-> "none", user |-> CHOOSE u \in Users : TRUE,
         late |-> FALSE, at |-> 0, seen |-> {}, give |-> Gone]

Init ==
  /\ clock = 0
  /\ sub = [u \in Users |-> <<>>]
  /\ balance = [u \in Users |-> 0]
  /\ order = [o \in Orders |-> NoOrder]
  /\ code = [c \in Codes |-> NoCode]
  /\ redeemed = [c \in Codes |-> [u \in Users |-> 0]]
  /\ call = [k \in Calls |-> Idle]
  /\ owed = [u \in Users |-> 0]
  /\ crossed = [u \in Users |-> FALSE]
  /\ changes = 0

Long(kind) == IF kind = TopUp THEN {0} ELSE Durations

Return(k) == call' = [call EXCEPT ![k] = Idle]

(* The row of the order or the code is locked by another call.             *)
Locked(x) == \E k \in Calls : call[k].pc \in {"starting", "granting"}
                              /\ call[k].of = x

(* Others that have read the user's subscriptions and not yet written.     *)
Crosses(u, others) ==
  crossed' = [crossed EXCEPT ![u] = @ \/ \E k \in others :
    call[k].pc \in {"starting", "granting", "replacing", "expiring"}
    /\ call[k].user = u]

(* The time that rows still have.                                          *)
Time(rows, now) ==
  UNION {Max({now, rows[i].from})..(rows[i].to - 1) :
         i \in {j \in DOMAIN rows : rows[j] # Gone}}

(* What is due may be less than "long", were a grant made twice.           *)
Grant(k, kind, long, due) ==
  LET u == call[k].user
  IN /\ sub' = [sub EXCEPT ![u] =
          Granted(@, call[k].seen, kind, call[k].at, long, clock)]
     /\ owed' = [owed EXCEPT ![u] = @ + due]
     /\ Crosses(u, Calls \ {k})
-----------------------------------------------------------------------------
(* Orders, as they were ever placed: nr is the order in which they were,   *)
(* and the row of one that is gone was deleted by log cleanup.             *)

Placed == {o \in Orders : order[o].status # "none"}

CreatePaymentOrder(o) ==
  /\ order[o].status = "none"
  /\ \E u \in Users, kind \in Kinds : \E long \in Long(kind) :
       order' = [order EXCEPT ![o] =
         [status |-> "pending", user |-> u, kind |-> kind, long |-> long,
          late |-> FALSE, nr |-> Cardinality(Placed), gone |-> FALSE]]
  /\ UNCHANGED <<clock, sub, balance, code, redeemed, call, owed, crossed,
                 changes>>

OrderExpires(o) ==
  /\ order[o].status = "pending" /\ ~order[o].late
  /\ order' = [order EXCEPT ![o].late = TRUE]
  /\ UNCHANGED <<clock, sub, balance, code, redeemed, call, owed, crossed,
                 changes>>

(* DeleteBefore of the log cleanup, type orders: all orders no newer than o *)
(* leave the table, whatever their status; a locked row is waited for.     *)
DeleteOrdersBefore(o) ==
  LET old == {p \in Placed : order[p].nr <= order[o].nr}
  IN /\ o \in Placed /\ ~order[o].gone
     /\ \A p \in old : ~Locked(p)
     /\ order' = [p \in Orders |-> [order[p] EXCEPT !.gone = @ \/ p \in old]]
     /\ UNCHANGED <<clock, sub, balance, code, redeemed, call, owed, crossed,
                    changes>>

(* A webhook, as often as the provider likes: the order is read and what   *)
(* the time is.  A paid order needs nothing more.                          *)
CompletePaymentOrder(k, o) ==
  /\ call[k].pc = "idle"
  /\ order[o].status = "pending" /\ ~order[o].gone
  /\ call' = [call EXCEPT ![k] =
       [Idle EXCEPT !.pc = "completing", !.of = o, !.user = order[o].user,
                    !.late = order[o].late, !.at = clock]]
  /\ UNCHANGED <<clock, sub, balance, order, code, redeemed, owed, crossed,
                 changes>>

(* Mutant: the order is not read again under the lock.                     *)
Payable_AsRead(k, o) == ~Locked(o) /\ ~call[k].late

Payable(k, o) ==
  /\ ~Locked(o)
  /\ order[o].status = "pending" /\ ~order[o].gone /\ ~call[k].late

(* Nothing is left of a call that is refused: its transaction is rolled    *)
(* back, also the status of an expired order.                              *)
RefusePayment(k) ==
  /\ call[k].pc = "completing"
  /\ ~Locked(call[k].of) /\ ~Payable(k, call[k].of)
  /\ Return(k)
  /\ UNCHANGED <<clock, sub, balance, order, code, redeemed, owed, crossed,
                 changes>>

Paid(o) == order' = [order EXCEPT ![o].status = "paid"]

MarkPaidAndCreditBalance(k) ==
  LET o == call[k].of
  IN /\ call[k].pc = "completing" /\ order[o].kind = TopUp
     /\ Payable(k, o)
     /\ balance' = [balance EXCEPT ![order[o].user] = @ + 1]
     /\ Paid(o)
     /\ Return(k)
     /\ UNCHANGED <<clock, sub, code, redeemed, owed, crossed, changes>>

(* Mutant: the order is paid in a transaction of its own, before the grant. *)
LockOrder_Paid(k) ==
  LET o == call[k].of
  IN /\ call[k].pc = "completing" /\ order[o].kind # TopUp
     /\ Payable(k, o)
     /\ call' = [call EXCEPT ![k].pc = "granting",
          ![k].seen = Entitled(sub[call[k].user], clock)]
     /\ Paid(o)
     /\ UNCHANGED <<clock, sub, balance, code, redeemed, owed, crossed, changes>>

LockOrder(k) ==
  LET o == call[k].of
  IN /\ call[k].pc = "completing" /\ order[o].kind # TopUp
     /\ Payable(k, o)
     /\ call' = [call EXCEPT ![k].pc = "granting",
          ![k].seen = Entitled(sub[call[k].user], clock)]
     /\ UNCHANGED <<clock, sub, balance, order, code, redeemed, owed, crossed,
                    changes>>

MarkPaidAndGrantSubscription(k) ==
  LET o == call[k].of
  IN /\ call[k].pc = "granting" /\ o \in Orders
     /\ Grant(k, order[o].kind, order[o].long,
              IF order[o].status = "paid" THEN 0 ELSE order[o].long)
     /\ Paid(o)
     /\ Return(k)
     /\ UNCHANGED <<clock, balance, code, redeemed, changes>>
-----------------------------------------------------------------------------
(* Redemption codes.                                                       *)

Fits(max, each) == max = 0 \/ each <= max

CreateRedemptionCode(c) ==
  /\ code[c].status = "none"
  /\ \E kind \in Kinds, max, each \in Limits : \E long \in Long(kind) :
       /\ Fits(max, Max({each, 1}))
       /\ code' = [code EXCEPT ![c] =
            [status |-> "active", kind |-> kind, long |-> long,
             max |-> max, each |-> Max({each, 1}), count |-> 0]]
  /\ UNCHANGED <<clock, sub, balance, order, redeemed, call, owed, crossed,
                 changes>>

(* Mutant: the limit may be set below what has been redeemed.              *)
MayBe_Below(c, max, each) == each > 0 /\ Fits(max, each)

(* Mutant: a user's limit may be none.                                     *)
MayBe_Zero(c, max, each) ==
  Fits(max, each) /\ (max # 0 => max >= code[c].count)

MayBe(c, max, each) ==
  /\ each > 0 /\ Fits(max, each)
  /\ max # 0 => max >= code[c].count

Changes == changes < MaxChanges /\ changes' = changes + 1

PatchRedemptionCode(c) ==
  /\ code[c].status \in {"active", "closed"} /\ ~Locked(c)
  /\ \E max, each \in Limits, status \in {"active", "closed"} :
       /\ MayBe(c, max, each)
       /\ code' = [code EXCEPT ![c].status = status, ![c].max = max,
                               ![c].each = each]
  /\ Changes
  /\ UNCHANGED <<clock, sub, balance, order, redeemed, call, owed, crossed>>

(* Mutant: a redemption under way does not hold the code.                  *)
Delete_Unlocked(c) ==
  /\ code[c].status \in {"active", "closed"}
  /\ code' = [code EXCEPT ![c].status = "deleted"]
  /\ Changes
  /\ UNCHANGED <<clock, sub, balance, order, redeemed, call, owed, crossed>>

DeleteRedemptionCode(c) ==
  /\ code[c].status \in {"active", "closed"} /\ ~Locked(c)
  /\ code' = [code EXCEPT ![c].status = "deleted"]
  /\ Changes
  /\ UNCHANGED <<clock, sub, balance, order, redeemed, call, owed, crossed>>

(* "closed" is a code that is inactive or past its date.  A redemption goes *)
(* by the time at which it began.                                          *)
CodeExpires(c) ==
  /\ code[c].status = "active" /\ ~Locked(c)
  /\ code' = [code EXCEPT ![c].status = "closed"]
  /\ UNCHANGED <<clock, sub, balance, order, redeemed, call, owed, crossed,
                 changes>>

(* validateRedeemableCode, under the lock of the code.                     *)
Redeemable(c, u) ==
  /\ ~Locked(c)
  /\ code[c].status = "active"
  /\ code[c].max # 0 => code[c].count < code[c].max
  /\ redeemed[c][u] < code[c].each

Redeemed(c, u) ==
  /\ redeemed' = [redeemed EXCEPT ![c][u] = @ + 1]
  /\ code' = [code EXCEPT ![c].count = @ + 1]

RedeemBalance(c, u) ==
  /\ code[c].kind = TopUp
  /\ Redeemable(c, u)
  /\ balance' = [balance EXCEPT ![u] = @ + 1]
  /\ Redeemed(c, u)
  /\ UNCHANGED <<clock, sub, order, call, owed, crossed, changes>>

(* The code is locked; where the grant begins is read without a lock, then *)
(* the rows it moves are read again.                                       *)
RedeemSubscription(k, c, u) ==
  /\ call[k].pc = "idle" /\ code[c].kind # TopUp
  /\ Redeemable(c, u)
  /\ call' = [call EXCEPT ![k] =
       [Idle EXCEPT !.pc = "starting", !.of = c, !.user = u,
                    !.at = GrantStart(sub[u], code[c].kind, clock)]]
  /\ UNCHANGED <<clock, sub, balance, order, code, redeemed, owed, crossed,
                 changes>>

LockTimeline(k) ==
  /\ call[k].pc = "starting"
  /\ call' = [call EXCEPT ![k].pc = "granting",
       ![k].seen = Entitled(sub[call[k].user], call[k].at)]
  /\ UNCHANGED <<clock, sub, balance, order, code, redeemed, owed, crossed,
                 changes>>

ApplyRedemption(k) ==
  LET c == call[k].of
  IN /\ call[k].pc = "granting" /\ c \in Codes
     /\ Grant(k, code[c].kind, code[c].long, code[c].long)
     /\ Redeemed(c, call[k].user)
     /\ Return(k)
     /\ UNCHANGED <<clock, balance, order, changes>>
-----------------------------------------------------------------------------
(* Other changes of a subscription expire all that there is.               *)

Change(k, u, row) ==
  call' = [call EXCEPT ![k] =
    [Idle EXCEPT !.pc = "replacing", !.user = u, !.at = clock, !.give = row]]

(* The free plan is for users without another; that is read first.         *)
Subscribe(k, u) ==
  /\ call[k].pc = "idle"
  /\ Entitled(sub[u], clock) = {}
  /\ Change(k, u, Gone)
  /\ Changes
  /\ UNCHANGED <<clock, sub, balance, order, code, redeemed, owed, crossed>>

(* The administrator gives a plan for some time, or the free one.          *)
SetUserSubscription(k, u) ==
  /\ call[k].pc = "idle"
  /\ \/ Change(k, u, Gone)
     \/ \E plan \in Plans, long \in Durations :
          Change(k, u, [plan |-> plan, from |-> clock, to |-> clock + long])
  /\ Changes
  /\ UNCHANGED <<clock, sub, balance, order, code, redeemed, owed, crossed>>

(* As with a grant, rows inserted since the statement began are not seen.  *)
LockActive(k) ==
  /\ call[k].pc = "replacing"
  /\ call' = [call EXCEPT ![k].pc = "expiring",
       ![k].seen = Entitled(sub[call[k].user], clock)]
  /\ UNCHANGED <<clock, sub, balance, order, code, redeemed, owed, crossed,
                 changes>>

(* A user is owed the new row and what has not been seen.                  *)
ReplaceSubscription(k) ==
  LET u == call[k].user
      row == call[k].give
      left == [i \in DOMAIN sub[u] |-> IF i \in call[k].seen THEN Gone
                                                             ELSE sub[u][i]]
  IN /\ call[k].pc = "expiring"
     /\ sub' = [sub EXCEPT ![u] = IF row = Gone THEN left ELSE Append(left, row)]
     /\ owed' = [owed EXCEPT ![u] =
          row.to - row.from + Total(DOMAIN left, RowTime(left, clock))]
     /\ Crosses(u, Calls \ {k})
     /\ Return(k)
     /\ UNCHANGED <<clock, balance, order, code, redeemed, changes>>
-----------------------------------------------------------------------------
(* An error or the end of the process rolls a transaction back.            *)
Fail(k) ==
  /\ call[k].pc # "idle"
  /\ Return(k)
  /\ UNCHANGED <<clock, sub, balance, order, code, redeemed, owed, crossed,
                 changes>>

Covered(u, t) == \E i \in DOMAIN sub[u] : In(sub[u][i], t)

(* Rows that are over are as good as expired.                              *)
Tick ==
  /\ clock < MaxClock
  /\ \A k \in Calls : call[k].pc = "idle"
  /\ clock' = clock + 1
  /\ owed' = [u \in Users |-> IF Covered(u, clock) THEN owed[u] - 1
                                                   ELSE owed[u]]
  /\ sub' = [u \in Users |-> [i \in DOMAIN sub[u] |->
               IF sub[u][i].to <= clock' THEN Gone ELSE sub[u][i]]]
  /\ UNCHANGED <<balance, order, code, redeemed, call, crossed, changes>>

Paying(k) ==
  \/ \E o \in Orders : CompletePaymentOrder(k, o)
  \/ RefusePayment(k) \/ MarkPaidAndCreditBalance(k) \/ LockOrder(k)
  \/ MarkPaidAndGrantSubscription(k)

Redeeming(k) ==
  \/ \E c \in Codes, u \in Users : RedeemSubscription(k, c, u)
  \/ LockTimeline(k) \/ ApplyRedemption(k)

Next ==
  \/ \E o \in Orders : \/ CreatePaymentOrder(o) \/ OrderExpires(o)
                       \/ DeleteOrdersBefore(o)
  \/ \E c \in Codes : \/ CreateRedemptionCode(c) \/ PatchRedemptionCode(c)
                      \/ DeleteRedemptionCode(c) \/ CodeExpires(c)
                      \/ \E u \in Users : RedeemBalance(c, u)
  \/ \E k \in Calls : \/ Paying(k) \/ Redeeming(k) \/ Fail(k)
                      \/ LockActive(k) \/ ReplaceSubscription(k)
                      \/ \E u \in Users : Subscribe(k, u) \/ SetUserSubscription(k, u)
  \/ Tick

Spec == Init /\ [][Next]_vars
-----------------------------------------------------------------------------
(* Every row that is not expired has a plan and some time, every code lets *)
(* a user redeem it at least once, and what is owed is never negative.     *)
TypeOK ==
  /\ clock \in 0..MaxClock
  /\ \A u \in Users : \A i \in DOMAIN sub[u] :
       LET r == sub[u][i] IN r = Gone \/ (r.plan \in Plans /\ Nonempty(r))
  /\ \A o \in Orders : order[o].status \in {"none", "pending", "paid"}
                       /\ order[o].kind \in Kinds
  /\ \A c \in Codes : code[c].status \in {"none", "active", "closed", "deleted"}
                      /\ code[c].each > 0
  /\ balance \in [Users -> Nat]
  /\ \A k \in Calls : call[k].pc \in {"idle", "completing", "starting",
                          "granting", "replacing", "expiring"}
  /\ owed \in [Users -> Nat]
  /\ changes \in 0..MaxChanges

Live(u) == {i \in DOMAIN sub[u] : sub[u][i] # Gone}

TimeLeft(u) == Cardinality(Time(sub[u], clock))

(* A user never has more time under plans than orders, codes and the       *)
(* administrator gave: not when a provider calls the webhook twice, and    *)
(* not when grants and replacements of the same rows cross.                *)
NothingForNothing == \A u \in Users : TimeLeft(u) <= owed[u]

(* What was granted is kept to the last unit, whatever plan comes on top   *)
(* of it or behind it, as long as no two changes of the user's             *)
(* subscriptions cross: grantSubscriptionOnTimeline moves what a higher    *)
(* plan displaces behind it.                                               *)
EntitlementsKept == \A u \in Users : ~crossed[u] => TimeLeft(u) = owed[u]

(* The best plan that a user has is in force now, lower ones follow, and   *)
(* between them the user is never without one                              *)
(* (placeSubscriptionTimelineGrant, redemptionSubscriptionGrantStart).     *)
HighestFirst ==
  \A u \in Users : ~crossed[u] =>
    /\ \A i, j \in Live(u) : sub[u][i].from < sub[u][j].from =>
         sub[u][i].plan >= sub[u][j].plan
    /\ \A i \in Live(u) : \A t \in clock..sub[u][i].from : Covered(u, t)

(* The balance holds one credit for each top-up that is paid and each      *)
(* redemption of a code for the balance: webhooks that arrive twice credit *)
(* once, and a call that fails half-way leaves neither without the other.  *)
BalanceIsCredited ==
  \A u \in Users : balance[u] =
    Cardinality({o \in Orders : order[o].status = "paid" /\ order[o].kind = TopUp
                                /\ order[o].user = u})
    + Total({c \in Codes : code[c].kind = TopUp}, [c \in Codes |-> redeemed[c][u]])

(* The redemptions of a code agree with its count and stay within its      *)
(* limit, while users redeem it and administrators change the limit.       *)
LimitsKept ==
  \A c \in Codes :
    /\ code[c].count = Total(Users, redeemed[c])
    /\ code[c].max # 0 => code[c].count <= code[c].max

(* A redemption that commits is of a code that is still in force then and  *)
(* within the limits it has then, though it was validated before the       *)
(* subscriptions were read and rewritten (RedeemCode).                     *)
RedeemedInForce ==
  [][\A c \in Codes : redeemed'[c] # redeemed[c] =>
       /\ code[c].status = "active"
       /\ code'[c].max # 0 => code'[c].count <= code'[c].max
       /\ \A u \in Users : redeemed'[c][u] > redeemed[c][u] =>
            redeemed'[c][u] <= code[c].each]_vars

(* What a row of an order or a code is good for, and what a user sees: how  *)
(* much time under plans is left, of those whose changes have not crossed.  *)
Worth(row) ==
  [issued |-> row.status # "none",
   credit |-> IF row.kind = TopUp THEN 1 ELSE 0,
   time |-> IF row.kind = TopUp THEN 0 ELSE row.long]

Purchases ==
  [o \in Orders |-> [status |-> order[o].status, user |-> order[o].user,
                     worth |-> Worth(order[o])]]

Offers == [c \in Codes |-> Worth(code[c])]

Remaining == [u \in Users |-> IF crossed[u] THEN 0 ELSE TimeLeft(u)]

Unsettled == {u \in Users : crossed[u]}

Promised == INSTANCE Entitlements WITH
  Terms <- Durations,
  order <- Purchases, worth <- Offers, uses <- redeemed,
  time <- Remaining, unsettled <- Unsettled

(* Webhooks, redemptions, administrators and the time, with all that they  *)
(* read, lock and rewrite, are to the user the steps of Entitlements: each *)
(* order and each redemption is granted once, in full, in the step that    *)
(* records it, and what was granted runs down to the last unit without a   *)
(* gap.                                                                    *)
GrantsHonoured == Promised!Spec
=============================================================================
