---------------------------- MODULE FundingProofs ----------------------------
(***************************************************************************)
(* What holds of Funding for any number of users, orders, codes and calls: *)
(* a call that has locked the row of an order or a code is alone with it   *)
(* until it commits or fails, so that what it read there is still so when  *)
(* it writes.                                                              *)
(* Then the time of subscriptions: none is given for nothing, and as long  *)
(* as no two changes of a user's subscriptions cross, none is lost and the *)
(* highest plan comes first.                                               *)
(***************************************************************************)
EXTENDS Funding, SubscriptionTimelineProofs

CodeRow ==
  [status : {"none", "active", "closed", "deleted"}, kind : Kinds, long : Nat,
   max : Nat, each : Nat, count : Nat]

Somebody == CHOOSE u \in Users : TRUE

OrderRow ==
  [status : {"none", "pending", "paid"}, user : Users \cup {Somebody},
   kind : Kinds, long : Nat, late : BOOLEAN, nr : Nat, gone : BOOLEAN]

(* A call has the fields of Idle; what it has seen of subscriptions is left *)
(* open.                                                                    *)
CallShaped(k) ==
  call[k] \in [pc : {call[k].pc}, of : {call[k].of}, user : {call[k].user},
              late : {call[k].late}, at : {call[k].at}, seen : {call[k].seen},
              give : {call[k].give}]

RowsTyped ==
  /\ balance \in [Users -> Nat]
  /\ redeemed \in [Codes -> [Users -> Nat]]
  /\ code \in [Codes -> CodeRow]
  /\ order \in [Orders -> OrderRow]
  /\ \A o \in Orders : order[o].status # "none" => order[o].user \in Users
  /\ \A c \in Codes : code[c].status = "none" => \A u \in Users : redeemed[c][u] = 0

CallsTyped ==
  /\ call = [k \in Calls |-> call[k]]
  /\ \A k \in Calls : CallShaped(k)

Holds(k, x) == call[k].pc \in {"starting", "granting"} /\ call[k].of = x

(* The user may redeem the code once more. *)
InForce(c, u) ==
  /\ code[c].status = "active"
  /\ code[c].max # 0 => code[c].count < code[c].max
  /\ redeemed[c][u] < code[c].each

(* What a call knows of the row that it has read or locked. *)
CallKnows(k) ==
  /\ call[k].pc = "completing" => call[k].of \in Orders
  /\ call[k].pc \in {"starting", "granting"}
       => \/ /\ call[k].of \in Codes /\ call[k].user \in Users
             /\ InForce(call[k].of, call[k].user)
             /\ code[call[k].of].kind # TopUp
          \/ /\ call[k].of \in Orders
             /\ order[call[k].of].status = "pending"
             /\ order[call[k].of].kind # TopUp

LockInv ==
  /\ \A k \in Calls : CallKnows(k)
  /\ \A k, l \in Calls, x \in Orders \cup Codes : Holds(k, x) /\ Holds(l, x) => k = l

Inv == RowsTyped /\ CallsTyped /\ LockInv
-----------------------------------------------------------------------------
(* The calls. *)

LEMMA MaxOfTwo ==
  ASSUME NEW a \in Nat, NEW b \in Nat
  PROVE  Max({a, b}) \in Nat /\ Max({a, b}) >= a /\ Max({a, b}) >= b
<1>1. \E x \in {a, b} : \A y \in {a, b} : x >= y
  OBVIOUS
<1>2. Max({a, b}) \in {a, b} /\ \A y \in {a, b} : Max({a, b}) >= y
  BY <1>1 DEF Max
<1>3. QED
  BY <1>2

(* The other calls stand where they were. *)
Others(k) == \A l \in Calls : l # k => call'[l] = call[l]

LEMMA ReturnAt ==
  ASSUME CallsTyped, NEW k \in Calls, Return(k)
  PROVE  CallsTyped' /\ Others(k) /\ call'[k].pc = "idle"
<1>1. Idle = [pc |-> "idle", of |-> "none", user |-> Idle.user, late |-> FALSE, at |-> 0,
              seen |-> {}, give |-> Gone]
  BY DEF Idle
<1> HIDE DEF Idle
<1>2. call'[k] = Idle /\ Others(k) /\ call' = [l \in Calls |-> call'[l]]
  BY DEF CallsTyped, Return, Others
<1>3. \A l \in Calls : CallShaped(l)'
  BY <1>1, <1>2 DEF CallsTyped, CallShaped, Others
<1>4. QED
  BY <1>1, <1>2, <1>3 DEF CallsTyped

(* A call that begins. *)
LEMMA BegunAt ==
  ASSUME CallsTyped, NEW k \in Calls, NEW r,
         r \in [pc : {r.pc}, of : {r.of}, user : {r.user}, late : {r.late}, at : {r.at},
               seen : {r.seen}, give : {r.give}],
         call' = [call EXCEPT ![k] = r]
  PROVE  CallsTyped' /\ Others(k) /\ call'[k] = r
<1>1. call'[k] = r /\ Others(k) /\ call' = [l \in Calls |-> call'[l]]
  BY DEF CallsTyped, Others
<1>2. \A l \in Calls : CallShaped(l)'
  BY <1>1 DEF CallsTyped, CallShaped, Others
<1>3. QED
  BY <1>1, <1>2 DEF CallsTyped

(* A call that goes on with the rows of subscriptions it has seen. *)
LEMMA SeenAt ==
  ASSUME CallsTyped, NEW k \in Calls, NEW pc, NEW seen,
         call' = [call EXCEPT ![k].pc = pc, ![k].seen = seen]
  PROVE  /\ CallsTyped' /\ Others(k)
         /\ call'[k].pc = pc /\ call'[k].of = call[k].of /\ call'[k].user = call[k].user
         /\ call'[k].at = call[k].at /\ call'[k].give = call[k].give /\ call'[k].seen = seen
<1> DEFINE c == call[k]
           r == [[c EXCEPT !.pc = pc] EXCEPT !.seen = seen]
<1>1. c \in [pc : {c.pc}, of : {c.of}, user : {c.user}, late : {c.late}, at : {c.at},
            seen : {c.seen}, give : {c.give}]
  BY DEF CallsTyped, CallShaped
<1> HIDE DEF c
<1>2. /\ r.pc = pc /\ r.of = c.of /\ r.user = c.user /\ r.seen = seen
      /\ r.at = c.at /\ r.give = c.give
      /\ r \in [pc : {pc}, of : {c.of}, user : {c.user}, late : {c.late}, at : {c.at},
                seen : {seen}, give : {c.give}]
  BY <1>1
<1>3. call' = [call EXCEPT ![k] = r]
  BY DEF CallsTyped, c
<1> HIDE DEF r
<1>4. r \in [pc : {r.pc}, of : {r.of}, user : {r.user}, late : {r.late}, at : {r.at},
            seen : {r.seen}, give : {r.give}]
  BY <1>2
<1>5. CallsTyped' /\ Others(k) /\ call'[k] = r
  BY <1>3, <1>4, BegunAt
<1>6. QED
  BY <1>2, <1>5 DEF c

(* A call begins from Idle. *)
LEMMA IdleFields ==
  Idle \in [pc : {"idle"}, of : {"none"}, user : {Idle.user}, late : {FALSE}, at : {0},
            seen : {{}}, give : {Gone}]
<1> DEFINE u == CHOOSE x \in Users : TRUE
<1>1. Idle = [pc |-> "idle", of |-> "none", user |-> u, late |-> FALSE, at |-> 0,
              seen |-> {}, give |-> Gone]
  BY DEF Idle
<1> HIDE DEF u, Idle, Gone
<1>2. QED
  BY <1>1

LEMMA WebhookAt ==
  ASSUME CallsTyped, NEW k \in Calls, NEW o \in Orders, CompletePaymentOrder(k, o)
  PROVE  /\ CallsTyped' /\ Others(k) /\ call'[k].pc = "completing" /\ call'[k].of = o
         /\ call'[k].user = order[o].user /\ call'[k].at = clock
<1> DEFINE r == [Idle EXCEPT !.pc = "completing", !.of = o, !.user = order[o].user,
                             !.late = order[o].late, !.at = clock]
<1>1. /\ r.pc = "completing" /\ r.of = o /\ r.user = order[o].user /\ r.at = clock
      /\ r \in [pc : {"completing"}, of : {o}, user : {order[o].user}, late : {order[o].late},
                at : {clock}, seen : {{}}, give : {Gone}]
  BY IdleFields
<1>2. call' = [call EXCEPT ![k] = r]
  BY DEF CompletePaymentOrder
<1> HIDE DEF r
<1>3. r \in [pc : {r.pc}, of : {r.of}, user : {r.user}, late : {r.late}, at : {r.at},
            seen : {r.seen}, give : {r.give}]
  BY <1>1
<1>4. QED
  BY <1>1, <1>2, <1>3, BegunAt

LEMMA RedemptionAt ==
  ASSUME CallsTyped, NEW k \in Calls, NEW c, NEW u, RedeemSubscription(k, c, u)
  PROVE  /\ CallsTyped' /\ Others(k)
         /\ call'[k].pc = "starting" /\ call'[k].of = c /\ call'[k].user = u
         /\ call'[k].at = GrantStart(sub[u], code[c].kind, clock)
<1> DEFINE at == GrantStart(sub[u], code[c].kind, clock)
           r == [Idle EXCEPT !.pc = "starting", !.of = c, !.user = u, !.at = at]
<1>2. call' = [call EXCEPT ![k] = r]
  BY DEF RedeemSubscription
<1> HIDE DEF at
<1>1. /\ r.pc = "starting" /\ r.of = c /\ r.user = u /\ r.at = at
      /\ r \in [pc : {"starting"}, of : {c}, user : {u}, late : {FALSE},
                at : {at}, seen : {{}}, give : {Gone}]
  BY IdleFields
<1> HIDE DEF r
<1>3. r \in [pc : {r.pc}, of : {r.of}, user : {r.user}, late : {r.late}, at : {r.at},
            seen : {r.seen}, give : {r.give}]
  BY <1>1
<1>4. QED
  BY <1>1, <1>2, <1>3, BegunAt DEF at

LEMMA ChangeAt ==
  ASSUME CallsTyped, NEW k \in Calls, NEW u, NEW row, Change(k, u, row)
  PROVE  /\ CallsTyped' /\ Others(k) /\ call'[k].pc = "replacing"
         /\ call'[k].user = u /\ call'[k].give = row
<1> DEFINE r == [Idle EXCEPT !.pc = "replacing", !.user = u, !.at = clock, !.give = row]
<1>1. /\ r.pc = "replacing" /\ r.user = u /\ r.give = row
      /\ r \in [pc : {"replacing"}, of : {"none"}, user : {u}, late : {FALSE},
                at : {clock}, seen : {{}}, give : {row}]
  BY IdleFields
<1>2. call' = [call EXCEPT ![k] = r]
  BY DEF Change
<1> HIDE DEF r
<1>3. r \in [pc : {r.pc}, of : {r.of}, user : {r.user}, late : {r.late}, at : {r.at},
            seen : {r.seen}, give : {r.give}]
  BY <1>1
<1>4. QED
  BY <1>1, <1>2, <1>3, BegunAt

(* A call still knows the row that it holds if nobody writes that.         *)
LEMMA StillKnows ==
  ASSUME LockInv, NEW l \in Calls, call'[l] = call[l],
         \A c \in Codes : Holds(l, c) => code'[c] = code[c] /\ redeemed'[c] = redeemed[c],
         \A o \in Orders : Holds(l, o) => /\ order'[o].status = order[o].status
                                          /\ order'[o].kind = order[o].kind
  PROVE  CallKnows(l)'
<1>1. CallKnows(l)
  BY DEF LockInv
<1>2. CASE call[l].pc \in {"starting", "granting"}
  BY <1>1, <1>2 DEF CallKnows, Holds, InForce
<1>3. CASE call[l].pc \notin {"starting", "granting"}
  BY <1>1, <1>3 DEF CallKnows
<1>4. QED
  BY <1>2, <1>3

(* The step of one call keeps the locks if what it locks was free.         *)
LEMMA LocksKept ==
  ASSUME LockInv, NEW k \in Calls, Others(k), CallKnows(k)',
         \A x \in Orders \cup Codes : Holds(k, x)' => Holds(k, x) \/ ~Locked(x),
         \A l \in Calls : l # k => CallKnows(l)'
  PROVE  LockInv'
<1>1. \A l \in Calls : CallKnows(l)'
  OBVIOUS
<1>2. \A l \in Calls, x \in Orders \cup Codes : l # k => (Holds(l, x)' <=> Holds(l, x))
  BY DEF Others, Holds
<1>3. \A l \in Calls, x \in Orders \cup Codes : Holds(l, x) => Locked(x)
  BY DEF Holds, Locked
<1>4. ASSUME NEW l \in Calls, NEW x \in Orders \cup Codes, l # k, Holds(l, x)', Holds(k, x)'
      PROVE  FALSE
  BY <1>2, <1>3, <1>4 DEF LockInv
<1>5. \A l, m \in Calls, x \in Orders \cup Codes : Holds(l, x)' /\ Holds(m, x)' => l = m
  BY <1>2, <1>4 DEF LockInv
<1>6. QED
  BY <1>1, <1>5 DEF LockInv

(* A step of a call that leaves the rows alone.                            *)
LEMMA QuietLocks ==
  ASSUME LockInv, NEW k \in Calls, Others(k), CallKnows(k)',
         UNCHANGED <<order, code, redeemed>>,
         \A x \in Orders \cup Codes : Holds(k, x)' => Holds(k, x) \/ ~Locked(x)
  PROVE  LockInv'
<1>1. ASSUME NEW l \in Calls, l # k PROVE CallKnows(l)'
  BY <1>1, StillKnows DEF Others
<1>2. QED
  BY <1>1, LocksKept

Money == <<balance, order, code, redeemed>>

LEMMA QuietStep ==
  ASSUME Inv, NEW k \in Calls,
         \/ RefusePayment(k) \/ LockOrder(k) \/ LockTimeline(k) \/ LockActive(k)
         \/ ReplaceSubscription(k) \/ Fail(k)
         \/ \E o \in Orders : CompletePaymentOrder(k, o)
         \/ \E c \in Codes, u \in Users : RedeemSubscription(k, c, u)
         \/ \E u \in Users : Subscribe(k, u) \/ SetUserSubscription(k, u)
  PROVE  UNCHANGED Money /\ CallsTyped' /\ LockInv'
<1> USE DEF Inv, Money
<1>1. ASSUME call'[k].pc \notin {"completing", "starting", "granting"}, Others(k),
             UNCHANGED Money
      PROVE  LockInv'
  <2>1. CallKnows(k)' /\ \A x : ~Holds(k, x)'
    BY <1>1 DEF CallKnows, Holds
  <2>2. QED
    BY <1>1, <2>1, QuietLocks
<1>2. CASE RefusePayment(k) \/ ReplaceSubscription(k) \/ Fail(k)
  BY <1>1, <1>2, ReturnAt DEF RefusePayment, ReplaceSubscription, Fail
<1>3. CASE LockActive(k)
  <2>1. call'[k].pc = "expiring" /\ CallsTyped' /\ Others(k)
    BY <1>3, SeenAt DEF LockActive
  <2>2. QED
    BY <1>1, <1>3, <2>1 DEF LockActive
<1>4. ASSUME NEW u \in Users, Subscribe(k, u) \/ SetUserSubscription(k, u)
      PROVE  UNCHANGED Money /\ CallsTyped' /\ LockInv'
  <2>1. PICK row : Change(k, u, row)
    BY <1>4 DEF Subscribe, SetUserSubscription
  <2>2. UNCHANGED Money
    BY <1>4 DEF Subscribe, SetUserSubscription
  <2>3. CallsTyped' /\ Others(k) /\ call'[k].pc = "replacing"
    <3>1. CallsTyped
      OBVIOUS
    <3>2. QED
      BY ONLY k \in Calls, <2>1, <3>1, ChangeAt
  <2>4. QED
    BY <1>1, <2>2, <2>3
<1>5. ASSUME NEW o \in Orders, CompletePaymentOrder(k, o)
      PROVE  UNCHANGED Money /\ CallsTyped' /\ LockInv'
  <2>1. CallKnows(k)' /\ \A x : ~Holds(k, x)'
    BY <1>5, WebhookAt DEF CallKnows, Holds
  <2>2. QED
    BY <1>5, <2>1, WebhookAt, QuietLocks DEF CompletePaymentOrder
<1>6. ASSUME NEW c \in Codes, NEW u \in Users, RedeemSubscription(k, c, u)
      PROVE  UNCHANGED Money /\ CallsTyped' /\ LockInv'
  <2>1. CallKnows(k)' /\ \A x : Holds(k, x)' => x = c
    BY <1>6, RedemptionAt DEF RedeemSubscription, Redeemable, CallKnows, InForce, Holds
  <2>2. QED
    BY <1>6, <2>1, RedemptionAt, QuietLocks DEF RedeemSubscription, Redeemable
<1>7. CASE LockOrder(k)
  <2>1. /\ call'[k].pc = "granting" /\ call'[k].of = call[k].of
        /\ CallsTyped' /\ Others(k) /\ call[k].of \in Orders
    BY <1>7, SeenAt DEF LockOrder, LockInv, CallKnows
  <2>2. CallKnows(k)' /\ \A x : Holds(k, x)' => ~Locked(x)
    BY <1>7, <2>1 DEF LockOrder, Payable, CallKnows, Holds
  <2>3. QED
    BY <1>7, <2>1, <2>2, QuietLocks DEF LockOrder
<1>8. CASE LockTimeline(k)
  <2>1. /\ call'[k].pc = "granting" /\ call'[k].of = call[k].of
        /\ call'[k].user = call[k].user /\ call[k].pc = "starting"
        /\ CallsTyped' /\ Others(k)
    BY <1>8, SeenAt DEF LockTimeline
  <2>2. CallKnows(k)' /\ \A x : Holds(k, x)' => Holds(k, x)
    BY <1>8, <2>1 DEF LockTimeline, LockInv, CallKnows, InForce, Holds
  <2>3. QED
    BY <1>8, <2>1, <2>2, QuietLocks DEF LockTimeline
<1>9. QED
  BY <1>2, <1>3, <1>4, <1>5, <1>6, <1>7, <1>8

(* The calls stay where they are.                                          *)
LEMMA LocksUnmoved ==
  ASSUME LockInv, UNCHANGED call, \A l \in Calls : CallKnows(l)'
  PROVE  LockInv'
  BY DEF LockInv, Holds
-----------------------------------------------------------------------------
(* Totals.                                                                 *)

(* Rows of nothing do not count.                                           *)
LEMMA TotalOfSome ==
  ASSUME NEW S, NEW f, \A x \in S : f[x] \in Nat
  PROVE  Total(S, f) = Total({x \in S : f[x] # 0}, f)
<1>1. ASSUME NEW x \in S, f[x] = 0 PROVE {x} \X (1..f[x]) = {}
  BY <1>1
<1>2. Cells(S, f) = Cells({x \in S : f[x] # 0}, f)
  BY <1>1 DEF Cells
<1>3. QED
  BY <1>2 DEF Total

LEMMA TotalOfNone ==
  ASSUME NEW S, NEW f, \A x \in S : f[x] = 0
  PROVE  Total(S, f) = 0
<1>1. {x \in S : f[x] # 0} = {}
  OBVIOUS
<1>2. Total(S, f) = Total({}, f)
  BY <1>1, TotalOfSome
<1>3. QED
  BY <1>2, TotalEmpty

(* One row grows by one.                                                   *)
LEMMA TotalOfOneMore ==
  ASSUME NEW S, IsFiniteSet(S), NEW f, NEW g, NEW x \in S,
         \A y \in S : f[y] \in Nat, g[x] = f[x] + 1, \A y \in S : y # x => g[y] = f[y]
  PROVE  Total(S, g) = Total(S, f) + 1
<1>1. \A y \in S : g[y] \in Nat
  OBVIOUS
<1>2. Total(S, f) = Total(S \ {x}, f) + f[x] /\ Total(S, g) = Total(S \ {x}, g) + g[x]
  BY <1>1, TotalRemove
<1>3. Total(S \ {x}, f) = Total(S \ {x}, g)
  BY TotalSame
<1>4. Total(S \ {x}, f) \in Nat
  <2>1. IsFiniteSet(S \ {x})
    BY FS_RemoveElement
  <2>2. QED
    BY <2>1, TotalNat
<1>5. QED
  BY <1>2, <1>3, <1>4

PaidTopUps(u) ==
  {o \in Orders : order[o].status = "paid" /\ order[o].kind = TopUp /\ order[o].user = u}

ForBalance == {c \in Codes : code[c].kind = TopUp}

Uses(u) == [c \in Codes |-> redeemed[c][u]]

(* BalanceIsCredited in these names.                                       *)
LEMMA Credits ==
  BalanceIsCredited
    <=> \A u \in Users : balance[u] = Cardinality(PaidTopUps(u)) + Total(ForBalance, Uses(u))
  BY DEF BalanceIsCredited, PaidTopUps, ForBalance, Uses

(* Only a code that nobody has redeemed yet may change its kind.           *)
LEMMA SameUses ==
  ASSUME RowsTyped, UNCHANGED redeemed, NEW u \in Users,
         \A c \in Codes : code'[c].kind = code[c].kind \/ redeemed[c][u] = 0
  PROVE  Total(ForBalance, Uses(u))' = Total(ForBalance, Uses(u))
<1>1. Uses(u)' = Uses(u) /\ \A c \in Codes : Uses(u)[c] = redeemed[c][u] /\ Uses(u)[c] \in Nat
  BY DEF Uses, RowsTyped
<1>2. {c \in ForBalance' : Uses(u)[c] # 0} = {c \in ForBalance : Uses(u)[c] # 0}
  BY <1>1 DEF ForBalance
<1>3. /\ Total(ForBalance, Uses(u)) = Total({c \in ForBalance : Uses(u)[c] # 0}, Uses(u))
      /\ Total(ForBalance', Uses(u)) = Total({c \in ForBalance' : Uses(u)[c] # 0}, Uses(u))
  BY <1>1, TotalOfSome DEF ForBalance
<1>4. Total(ForBalance, Uses(u))' = Total(ForBalance', Uses(u)')
  BY DEF Total, Cells
<1>5. QED
  BY <1>1, <1>2, <1>3, <1>4
-----------------------------------------------------------------------------
(* What is kept of the balance and of the limits.                          *)

Kept ==
  /\ RowsTyped' /\ CallsTyped' /\ LockInv'
  /\ LimitsKept => LimitsKept'
  /\ BalanceIsCredited => BalanceIsCredited'

LEMMA QuietKeeps ==
  ASSUME Inv, UNCHANGED Money, CallsTyped', LockInv'
  PROVE  Kept
<1>1. RowsTyped'
  BY DEF Inv, Money, RowsTyped
<1>2. LimitsKept => LimitsKept'
  BY DEF Money, LimitsKept, Total, Cells
<1>3. BalanceIsCredited => BalanceIsCredited'
  BY Credits DEF Money, PaidTopUps, ForBalance, Uses, Total, Cells, BalanceIsCredited
<1>4. QED
  BY <1>1, <1>2, <1>3 DEF Kept

(* Orders that are written and not paid for the balance.                   *)
LEMMA OrderKeeps ==
  ASSUME Inv, UNCHANGED <<balance, code, redeemed>>, CallsTyped', LockInv',
         order' \in [Orders -> OrderRow],
         \A o \in Orders : order'[o].status # "none" => order'[o].user \in Users,
         \A u \in Users : PaidTopUps(u)' = PaidTopUps(u)
  PROVE  Kept
<1>1. RowsTyped'
  BY DEF Inv, RowsTyped
<1>2. LimitsKept => LimitsKept'
  BY DEF LimitsKept, Total, Cells
<1>3. \A u \in Users : Total(ForBalance, Uses(u))' = Total(ForBalance, Uses(u))
  BY DEF ForBalance, Uses, Total, Cells
<1>4. BalanceIsCredited => BalanceIsCredited'
  BY <1>3 DEF BalanceIsCredited, PaidTopUps, ForBalance, Uses
<1>5. QED
  BY <1>1, <1>2, <1>4 DEF Kept

LEMMA OrdersKept ==
  ASSUME Inv, NEW o \in Orders, CreatePaymentOrder(o) \/ OrderExpires(o)
  PROVE  Kept
<1>1. order \in [Orders -> OrderRow] /\ \A p \in Orders : order[p].status # "none" => order[p].user \in Users
  BY DEF Inv, RowsTyped
<1>2. UNCHANGED <<balance, code, redeemed, call>>
  BY DEF CreatePaymentOrder, OrderExpires
<1>3. /\ order'[o] \in OrderRow /\ order'[o].user \in Users
      /\ order' = [order EXCEPT ![o] = order'[o]]
      /\ \/ order[o].status = "none" /\ order'[o].status = "pending"
         \/ /\ order'[o].status = order[o].status /\ order'[o].kind = order[o].kind
            /\ order'[o].user = order[o].user
  <2>1. CASE CreatePaymentOrder(o)
    <3>1. PICK u \in Users, kind \in Kinds : \E long \in Long(kind) :
            order' = [order EXCEPT ![o] = [status |-> "pending", user |-> u, kind |-> kind,
                                           long |-> long, late |-> FALSE,
                                           nr |-> Cardinality(Placed), gone |-> FALSE]]
      BY <2>1 DEF CreatePaymentOrder
    <3>2. PICK long \in Long(kind) :
            order' = [order EXCEPT ![o] = [status |-> "pending", user |-> u, kind |-> kind,
                                           long |-> long, late |-> FALSE,
                                           nr |-> Cardinality(Placed), gone |-> FALSE]]
      BY <3>1
    <3>3. long \in Nat
      BY FundingAssumption DEF Long
    <3>4. PICK nr : nr = Cardinality(Placed)
      OBVIOUS
    <3>5. nr \in Nat
      <4>1. IsFiniteSet(Placed)
        BY FundingAssumption, FS_Subset DEF Placed
      <4>2. QED
        BY <3>4, <4>1, FS_CardinalityType
    <3>6. QED
      BY <1>1, <2>1, <3>2, <3>3, <3>4, <3>5 DEF OrderRow, CreatePaymentOrder
  <2>2. CASE OrderExpires(o)
    BY <1>1, <2>2 DEF OrderExpires, OrderRow
  <2>3. QED
    BY <2>1, <2>2
<1>4. /\ order' \in [Orders -> OrderRow]
      /\ \A p \in Orders : order'[p].status # "none" => order'[p].user \in Users
      /\ \A p \in Orders : p # o => order'[p] = order[p]
  BY <1>1, <1>3
<1>5. \A u \in Users : PaidTopUps(u)' = PaidTopUps(u)
  BY <1>3, <1>4 DEF PaidTopUps
<1>6. ASSUME NEW l \in Calls PROVE CallKnows(l)'
  <2>1. Holds(l, o) => order[o].status = "pending"
    BY FundingAssumption DEF Inv, LockInv, CallKnows, Holds
  <2>2. QED
    BY <1>2, <1>3, <1>4, <2>1, StillKnows DEF Inv
<1>7. CallsTyped' /\ LockInv'
  BY <1>2, <1>6, LocksUnmoved DEF Inv, CallsTyped, CallShaped
<1>8. QED
  BY <1>2, <1>4, <1>5, <1>7, OrderKeeps

(* Log cleanup leaves alone what was bought and what became of it.         *)
LEMMA OrdersDeleted ==
  ASSUME RowsTyped, NEW d \in Orders, DeleteOrdersBefore(d)
  PROVE  /\ order' \in [Orders -> OrderRow]
         /\ \A o \in Orders :
              /\ order'[o].status = order[o].status /\ order'[o].user = order[o].user
              /\ order'[o].kind = order[o].kind /\ order'[o].long = order[o].long
<1>1. ASSUME NEW o \in Orders
      PROVE  /\ order'[o] \in OrderRow
             /\ order'[o].status = order[o].status /\ order'[o].user = order[o].user
             /\ order'[o].kind = order[o].kind /\ order'[o].long = order[o].long
  <2>1. order[o] \in OrderRow
    BY DEF RowsTyped
  <2>2. PICK gone \in BOOLEAN : order'[o] = [order[o] EXCEPT !.gone = gone]
    BY <2>1 DEF DeleteOrdersBefore, OrderRow
  <2>3. QED
    BY <2>1, <2>2 DEF OrderRow
<1>2. QED
  BY <1>1 DEF DeleteOrdersBefore

LEMMA DeletionKept ==
  ASSUME Inv, NEW o \in Orders, DeleteOrdersBefore(o)
  PROVE  Kept
<1>1. UNCHANGED <<balance, code, redeemed, call>>
  BY DEF DeleteOrdersBefore
<1>2. /\ order' \in [Orders -> OrderRow]
      /\ \A p \in Orders :
           /\ order'[p].status = order[p].status /\ order'[p].user = order[p].user
           /\ order'[p].kind = order[p].kind
  BY OrdersDeleted DEF Inv
<1>3. \A p \in Orders : order'[p].status # "none" => order'[p].user \in Users
  BY <1>2 DEF Inv, RowsTyped
<1>4. \A u \in Users : PaidTopUps(u)' = PaidTopUps(u)
  BY <1>2 DEF PaidTopUps
<1>5. ASSUME NEW l \in Calls PROVE CallKnows(l)'
  BY <1>1, <1>2, StillKnows DEF Inv
<1>6. CallsTyped' /\ LockInv'
  BY <1>1, <1>5, LocksUnmoved DEF Inv, CallsTyped, CallShaped
<1>7. QED
  BY <1>1, <1>2, <1>3, <1>4, <1>6, OrderKeeps

(* An order is marked as paid. *)
LEMMA PaidRow ==
  ASSUME RowsTyped, NEW o \in Orders, Paid(o)
  PROVE  /\ order' \in [Orders -> OrderRow]
         /\ order'[o].status = "paid" /\ order'[o].kind = order[o].kind
         /\ order'[o].user = order[o].user
         /\ \A p \in Orders : p # o => order'[p] = order[p]
  BY DEF RowsTyped, Paid, OrderRow

LEMMA GrantPaymentKept ==
  ASSUME Inv, NEW k \in Calls, MarkPaidAndGrantSubscription(k)
  PROVE  Kept
<1>1. PICK o \in Orders : o = call[k].of
  BY DEF MarkPaidAndGrantSubscription
<1>2. UNCHANGED <<balance, code, redeemed>> /\ Paid(o) /\ Return(k) /\ Holds(k, o)
  BY <1>1 DEF MarkPaidAndGrantSubscription, Holds
<1>3. order[o].status = "pending" /\ order[o].kind # TopUp
  BY <1>1, <1>2, FundingAssumption DEF Inv, LockInv, CallKnows, Holds
<1>4. CallsTyped' /\ Others(k) /\ call'[k].pc = "idle"
  BY <1>2, ReturnAt DEF Inv
<1>5. ASSUME NEW l \in Calls, l # k PROVE CallKnows(l)'
  <2>1. ~Holds(l, o)
    BY <1>2, <1>5 DEF Inv, LockInv
  <2>2. QED
    BY <1>2, <1>4, <1>5, <2>1, PaidRow, StillKnows DEF Inv, Others
<1>6. LockInv'
  <2>1. CallKnows(k)' /\ \A x : ~Holds(k, x)'
    BY <1>4 DEF CallKnows, Holds
  <2>2. QED
    BY <1>4, <1>5, <2>1, LocksKept DEF Inv
<1>7. \A u \in Users : PaidTopUps(u)' = PaidTopUps(u)
  BY <1>2, <1>3, PaidRow DEF Inv, PaidTopUps
<1>8. \A p \in Orders : order'[p].status # "none" => order'[p].user \in Users
  BY <1>2, <1>3, PaidRow DEF Inv, RowsTyped
<1>9. QED
  BY <1>2, <1>4, <1>6, <1>7, <1>8, PaidRow, OrderKeeps DEF Inv

LEMMA TopUpPaymentKept ==
  ASSUME Inv, NEW k \in Calls, MarkPaidAndCreditBalance(k)
  PROVE  Kept
<1>1. PICK o \in Orders : o = call[k].of
  BY DEF MarkPaidAndCreditBalance, Inv, LockInv, CallKnows
<1>2. /\ UNCHANGED <<code, redeemed>> /\ Paid(o) /\ Return(k) /\ ~Locked(o)
      /\ order[o].status = "pending" /\ order[o].kind = TopUp
      /\ balance' = [balance EXCEPT ![order[o].user] = @ + 1]
  BY <1>1 DEF MarkPaidAndCreditBalance, Payable
<1>3. order[o].user \in Users /\ RowsTyped
  BY <1>2 DEF Inv, RowsTyped
<1>4. CallsTyped' /\ Others(k) /\ call'[k].pc = "idle"
  BY <1>2, ReturnAt DEF Inv
<1>5. ASSUME NEW l \in Calls, l # k PROVE CallKnows(l)'
  <2>1. ~Holds(l, o)
    BY <1>2 DEF Holds, Locked
  <2>2. QED
    BY <1>2, <1>3, <1>4, <1>5, <2>1, PaidRow, StillKnows DEF Inv, Others
<1>6. LockInv'
  <2>1. CallKnows(k)' /\ \A x : ~Holds(k, x)'
    BY <1>4 DEF CallKnows, Holds
  <2>2. QED
    BY <1>4, <1>5, <2>1, LocksKept DEF Inv
<1>7. RowsTyped'
  <2>1. balance' \in [Users -> Nat]
    BY <1>2, <1>3 DEF RowsTyped
  <2>2. \A p \in Orders : order'[p].status # "none" => order'[p].user \in Users
    BY <1>2, <1>3, PaidRow DEF RowsTyped
  <2>3. QED
    BY <1>2, <1>3, <2>1, <2>2, PaidRow DEF RowsTyped
<1>8. LimitsKept => LimitsKept'
  BY <1>2 DEF LimitsKept, Total, Cells
<1>9. BalanceIsCredited => BalanceIsCredited'
  <2>1. ASSUME NEW u \in Users,
               balance[u] = Cardinality(PaidTopUps(u)) + Total(ForBalance, Uses(u))
        PROVE  balance'[u] = Cardinality(PaidTopUps(u)') + Total(ForBalance, Uses(u))'
    <3>1. Total(ForBalance, Uses(u))' = Total(ForBalance, Uses(u))
      BY <1>2 DEF ForBalance, Uses, Total, Cells
    <3>2. CASE u # order[o].user
      <4>1. PaidTopUps(u)' = PaidTopUps(u)
        BY <1>2, <1>3, <3>2, PaidRow DEF PaidTopUps
      <4>2. balance'[u] = balance[u]
        BY <1>2, <1>3, <3>2 DEF RowsTyped
      <4>3. QED
        BY <2>1, <3>1, <4>1, <4>2
    <3>3. CASE u = order[o].user
      <4>1. PaidTopUps(u)' = PaidTopUps(u) \cup {o} /\ o \notin PaidTopUps(u)
        BY <1>2, <1>3, <3>3, PaidRow DEF PaidTopUps
      <4>2. IsFiniteSet(PaidTopUps(u))
        BY FS_Subset, FundingAssumption DEF PaidTopUps
      <4>3. Cardinality(PaidTopUps(u)') = Cardinality(PaidTopUps(u)) + 1
        BY <4>1, <4>2, FS_AddElement
      <4>4. Cardinality(PaidTopUps(u)) \in Nat
        BY <4>2, FS_CardinalityType
      <4>5. Total(ForBalance, Uses(u)) \in Nat
        <5>1. IsFiniteSet(ForBalance)
          BY FS_Subset, FundingAssumption DEF ForBalance
        <5>2. \A c \in ForBalance : Uses(u)[c] \in Nat
          BY <1>3 DEF Uses, RowsTyped, ForBalance
        <5>3. QED
          BY <5>1, <5>2, TotalNat
      <4>6. balance'[u] = balance[u] + 1
        BY <1>2, <1>3, <3>3 DEF RowsTyped
      <4>7. QED
        BY <2>1, <3>1, <4>3, <4>4, <4>5, <4>6
    <3>4. QED
      BY <3>2, <3>3
  <2>2. QED
    BY <2>1 DEF BalanceIsCredited, PaidTopUps, ForBalance, Uses
<1>10. QED
  BY <1>4, <1>6, <1>7, <1>8, <1>9 DEF Kept

(* A code that nobody holds is written, its count left as it is.           *)
LEMMA CodeKeeps ==
  ASSUME Inv, NEW c \in Codes, UNCHANGED <<balance, order, redeemed, call>>,
         NEW r \in CodeRow, code' = [code EXCEPT ![c] = r], r.status # "none",
         code[c].status = "none" \/ ~Locked(c),
         \/ code[c].status = "none" /\ r.count = 0
         \/ r.kind = code[c].kind /\ r.count = code[c].count,
         LimitsKept => (r.max # 0 => r.count <= r.max)
  PROVE  Kept
<1>1. RowsTyped /\ code \in [Codes -> CodeRow]
  BY DEF Inv, RowsTyped
<1>2. /\ code'[c] = r /\ \A d \in Codes : d # c => code'[d] = code[d]
      /\ code' \in [Codes -> CodeRow]
  BY <1>1
<1>3. RowsTyped'
  BY <1>1, <1>2 DEF RowsTyped
<1>4. ASSUME NEW l \in Calls PROVE CallKnows(l)'
  <2>1. ~Holds(l, c)
    BY FundingAssumption DEF Inv, LockInv, CallKnows, InForce, Holds, Locked
  <2>2. QED
    BY <1>2, <2>1, StillKnows DEF Inv
<1>5. CallsTyped' /\ LockInv'
  BY <1>4, LocksUnmoved DEF Inv, CallsTyped, CallShaped
<1>6. ASSUME LimitsKept PROVE LimitsKept'
  <2>1. ASSUME NEW d \in Codes, d # c
        PROVE  /\ code'[d].count = Total(Users, redeemed'[d])
               /\ code'[d].max # 0 => code'[d].count <= code'[d].max
    BY <1>2, <1>6, <2>1 DEF LimitsKept
  <2>2. r.count = Total(Users, redeemed[c])
    <3>1. CASE code[c].status = "none" /\ r.count = 0
      <4>1. \A u \in Users : redeemed[c][u] = 0
        BY <1>1, <3>1 DEF RowsTyped
      <4>2. {u \in Users : redeemed[c][u] # 0} = {}
        BY <4>1
      <4>3. Total(Users, redeemed[c]) = Total({}, redeemed[c])
        BY <4>1, <4>2, TotalOfSome
      <4>4. QED
        BY <3>1, <4>3, TotalEmpty
    <3>2. CASE r.count = code[c].count
      BY <1>6, <3>2 DEF LimitsKept
    <3>3. QED
      BY <3>1, <3>2
  <2>3. QED
    BY <1>2, <1>6, <2>1, <2>2 DEF LimitsKept
<1>7. ASSUME BalanceIsCredited PROVE BalanceIsCredited'
  <2>1. ASSUME NEW u \in Users PROVE Total(ForBalance, Uses(u))' = Total(ForBalance, Uses(u))
    <3>1. \A d \in Codes : code'[d].kind = code[d].kind \/ redeemed[d][u] = 0
      BY <1>1, <1>2 DEF RowsTyped
    <3>2. QED
      BY <1>1, <3>1, SameUses
  <2>2. QED
    BY <1>7, <2>1 DEF BalanceIsCredited, PaidTopUps, ForBalance, Uses
<1>8. QED
  BY <1>3, <1>5, <1>6, <1>7 DEF Kept

LEMMA CodesKept ==
  ASSUME Inv, NEW c \in Codes,
         \/ CreateRedemptionCode(c) \/ PatchRedemptionCode(c)
         \/ DeleteRedemptionCode(c) \/ CodeExpires(c)
  PROVE  Kept
<1>1. code \in [Codes -> CodeRow] /\ code[c] \in CodeRow
  BY DEF Inv, RowsTyped
<1>2. CASE CreateRedemptionCode(c)
  <2>0. PICK kind \in Kinds, max \in Limits, each \in Limits :
          \E long \in Long(kind) :
            /\ Fits(max, Max({each, 1}))
            /\ code' = [code EXCEPT ![c] =
                 [status |-> "active", kind |-> kind, long |-> long, max |-> max,
                  each |-> Max({each, 1}), count |-> 0]]
    BY <1>2 DEF CreateRedemptionCode
  <2>1. PICK long \in Long(kind) :
          /\ Fits(max, Max({each, 1}))
          /\ code' = [code EXCEPT ![c] =
               [status |-> "active", kind |-> kind, long |-> long, max |-> max,
                each |-> Max({each, 1}), count |-> 0]]
    BY <2>0
  <2> DEFINE r == [status |-> "active", kind |-> kind, long |-> long, max |-> max,
                   each |-> Max({each, 1}), count |-> 0]
  <2>2. long \in Nat /\ max \in Nat /\ Max({each, 1}) \in Nat
    BY FundingAssumption, MaxOfTwo DEF Long
  <2>3. r \in CodeRow /\ r.status = "active" /\ r.count = 0 /\ r.max \in Nat
    BY <2>2 DEF CodeRow
  <2>4. code' = [code EXCEPT ![c] = r]
    BY <2>1
  <2> HIDE DEF r
  <2>5. /\ UNCHANGED <<balance, order, redeemed, call>> /\ code[c].status = "none"
        /\ r.status # "none" /\ (r.max # 0 => r.count <= r.max)
    BY <1>2, <2>3 DEF CreateRedemptionCode
  <2>6. QED
    BY <2>3, <2>4, <2>5, CodeKeeps
<1>3. CASE PatchRedemptionCode(c)
  <2>1. PICK max \in Limits, each \in Limits, status \in {"active", "closed"} :
          /\ MayBe(c, max, each)
          /\ code' = [code EXCEPT ![c].status = status, ![c].max = max, ![c].each = each]
    BY <1>3 DEF PatchRedemptionCode
  <2> DEFINE r == [[[code[c] EXCEPT !.status = status] EXCEPT !.max = max] EXCEPT !.each = each]
  <2>2. max \in Nat /\ each \in Nat
    BY FundingAssumption
  <2>3. /\ r \in CodeRow /\ r.status = status /\ r.max = max
        /\ r.kind = code[c].kind /\ r.count = code[c].count
    BY <1>1, <2>2 DEF CodeRow
  <2>4. code' = [code EXCEPT ![c] = r]
    BY <1>1, <2>1
  <2> HIDE DEF r
  <2>5. r.max # 0 => r.count <= r.max
    BY <1>1, <2>1, <2>2, <2>3 DEF MayBe, CodeRow
  <2>6. QED
    BY <1>3, <2>3, <2>4, <2>5, CodeKeeps DEF PatchRedemptionCode
<1>4. CASE DeleteRedemptionCode(c) \/ CodeExpires(c)
  <2>1. PICK status \in {"deleted", "closed"} : code' = [code EXCEPT ![c].status = status]
    BY <1>4 DEF DeleteRedemptionCode, CodeExpires
  <2> DEFINE r == [code[c] EXCEPT !.status = status]
  <2>2. /\ r \in CodeRow /\ r.status = status /\ r.max = code[c].max
        /\ r.kind = code[c].kind /\ r.count = code[c].count
    BY <1>1 DEF CodeRow
  <2>3. code' = [code EXCEPT ![c] = r]
    BY <1>1, <2>1
  <2> HIDE DEF r
  <2>4. LimitsKept => (r.max # 0 => r.count <= r.max)
    BY <2>2 DEF LimitsKept
  <2>5. QED
    BY <1>4, <2>2, <2>3, <2>4, CodeKeeps DEF DeleteRedemptionCode, CodeExpires
<1>5. QED
  BY <1>2, <1>3, <1>4
-----------------------------------------------------------------------------
(* Redemptions. *)

LEMMA RedeemedRow ==
  ASSUME RowsTyped, NEW c \in Codes, NEW u \in Users, Redeemed(c, u), InForce(c, u)
  PROVE  /\ code' \in [Codes -> CodeRow] /\ redeemed' \in [Codes -> [Users -> Nat]]
         /\ code'[c].count = code[c].count + 1 /\ code'[c].status = code[c].status
         /\ code'[c].max = code[c].max /\ code'[c].kind = code[c].kind
         /\ redeemed'[c][u] = redeemed[c][u] + 1
         /\ \A v \in Users : v # u => redeemed'[c][v] = redeemed[c][v]
         /\ \A d \in Codes : d # c => code'[d] = code[d] /\ redeemed'[d] = redeemed[d]
<1>1. code \in [Codes -> CodeRow] /\ redeemed \in [Codes -> [Users -> Nat]]
  BY DEF RowsTyped
<1>2. /\ code' \in [Codes -> CodeRow]
      /\ code'[c].count = code[c].count + 1 /\ code'[c].status = code[c].status
      /\ code'[c].max = code[c].max /\ code'[c].kind = code[c].kind
      /\ \A d \in Codes : d # c => code'[d] = code[d]
  <2>1. PICK row : row = [code[c] EXCEPT !.count = @ + 1]
    OBVIOUS
  <2>2. code' = [code EXCEPT ![c] = row]
    BY <1>1, <2>1 DEF Redeemed
  <2>3. code[c] \in CodeRow
    BY <1>1
  <2>4. /\ row \in CodeRow /\ row.count = code[c].count + 1 /\ row.status = code[c].status
        /\ row.max = code[c].max /\ row.kind = code[c].kind
    BY <2>1, <2>3 DEF CodeRow
  <2>5. QED
    BY <1>1, <2>2, <2>4
<1>3. /\ redeemed' \in [Codes -> [Users -> Nat]]
      /\ redeemed'[c][u] = redeemed[c][u] + 1
      /\ \A v \in Users : v # u => redeemed'[c][v] = redeemed[c][v]
      /\ \A d \in Codes : d # c => redeemed'[d] = redeemed[d]
  BY <1>1 DEF Redeemed
<1>4. QED
  BY <1>2, <1>3

(* The count goes with the redemptions, and was below the limit.           *)
LEMMA RedeemedLimits ==
  ASSUME RowsTyped, NEW c \in Codes, NEW u \in Users, Redeemed(c, u), InForce(c, u), LimitsKept
  PROVE  LimitsKept'
<1>1. Total(Users, redeemed'[c]) = Total(Users, redeemed[c]) + 1
  <2>1. \A v \in Users : redeemed[c][v] \in Nat
    BY DEF RowsTyped
  <2>2. /\ redeemed'[c][u] = redeemed[c][u] + 1
        /\ \A v \in Users : v # u => redeemed'[c][v] = redeemed[c][v]
    BY RedeemedRow
  <2>3. IsFiniteSet(Users)
    BY FundingAssumption
  <2> HIDE DEF RowsTyped, Redeemed, InForce, LimitsKept
  <2>4. QED
    BY <2>1, <2>2, <2>3, TotalOfOneMore
<1>2. code[c].count \in Nat /\ code[c].max \in Nat
  BY DEF RowsTyped, CodeRow
<1>3. ASSUME NEW d \in Codes
      PROVE  /\ code'[d].count = Total(Users, redeemed'[d])
             /\ code'[d].max # 0 => code'[d].count <= code'[d].max
  <2>1. CASE d = c
    BY <1>1, <1>2, <2>1, RedeemedRow DEF LimitsKept, InForce
  <2>2. CASE d # c
    BY <2>2, RedeemedRow DEF LimitsKept
  <2>3. QED
    BY <2>1, <2>2
<1>4. QED
  BY <1>3 DEF LimitsKept

LEMMA RedeemedTyped ==
  ASSUME RowsTyped, NEW c \in Codes, NEW u \in Users, Redeemed(c, u), InForce(c, u),
         UNCHANGED order, balance' \in [Users -> Nat]
  PROVE  RowsTyped'
<1>1. \A d \in Codes : code'[d].status = "none" => d # c /\ code[d].status = "none"
  BY RedeemedRow DEF InForce
<1>2. QED
  BY <1>1, RedeemedRow DEF RowsTyped

LEMMA BalanceRedemptionKept ==
  ASSUME Inv, NEW c \in Codes, NEW u \in Users, RedeemBalance(c, u)
  PROVE  Kept
<1>1. /\ UNCHANGED <<order, call>> /\ Redeemed(c, u) /\ InForce(c, u) /\ ~Locked(c)
      /\ code[c].kind = TopUp /\ balance' = [balance EXCEPT ![u] = @ + 1]
  BY DEF RedeemBalance, Redeemable, InForce
<1>2. RowsTyped /\ balance \in [Users -> Nat] /\ redeemed \in [Codes -> [Users -> Nat]]
  BY DEF Inv, RowsTyped
<1>3. RowsTyped'
  BY <1>1, <1>2, RedeemedTyped
<1>4. ASSUME NEW l \in Calls PROVE CallKnows(l)'
  <2>1. ~Holds(l, c)
    BY <1>1 DEF Holds, Locked
  <2>2. QED
    BY <1>1, <1>2, <2>1, RedeemedRow, StillKnows DEF Inv
<1>5. CallsTyped' /\ LockInv'
  BY <1>1, <1>4, LocksUnmoved DEF Inv, CallsTyped, CallShaped
<1>6. LimitsKept => LimitsKept'
  BY <1>1, <1>2, RedeemedLimits
<1>7. ASSUME BalanceIsCredited PROVE BalanceIsCredited'
  <2>1. ForBalance' = ForBalance /\ c \in ForBalance /\ IsFiniteSet(ForBalance)
    <3>1. \A d \in Codes : code'[d].kind = code[d].kind
      BY <1>1, <1>2, RedeemedRow
    <3>2. QED
      BY <1>1, <3>1, FS_Subset, FundingAssumption DEF ForBalance
  <2>2. ASSUME NEW v \in Users
        PROVE  balance'[v] = Cardinality(PaidTopUps(v)') + Total(ForBalance, Uses(v))'
    <3>1. /\ balance[v] = Cardinality(PaidTopUps(v)) + Total(ForBalance, Uses(v))
          /\ PaidTopUps(v)' = PaidTopUps(v)
          /\ Total(ForBalance, Uses(v))' = Total(ForBalance, Uses(v)')
      BY <1>1, <1>7, <2>1, Credits DEF PaidTopUps, Total, Cells
    <3>2. \A d \in ForBalance : /\ Uses(v)[d] = redeemed[d][v] /\ Uses(v)[d] \in Nat
                                /\ Uses(v)'[d] = redeemed'[d][v]
      BY <1>2 DEF Uses, ForBalance
    <3>3. CASE v # u
      <4>1. \A d \in ForBalance : Uses(v)'[d] = Uses(v)[d]
        BY <1>1, <1>2, <3>2, <3>3, RedeemedRow DEF ForBalance
      <4>2. Total(ForBalance, Uses(v)') = Total(ForBalance, Uses(v))
        BY <4>1, TotalSame
      <4>3. QED
        BY <1>1, <1>2, <3>1, <3>3, <4>2
    <3>4. CASE v = u
      <4>1. /\ Uses(v)'[c] = Uses(v)[c] + 1
            /\ \A d \in ForBalance : d # c => Uses(v)'[d] = Uses(v)[d]
        BY <1>1, <1>2, <2>1, <3>2, <3>4, RedeemedRow DEF ForBalance
      <4>2. Total(ForBalance, Uses(v)') = Total(ForBalance, Uses(v)) + 1
        BY <2>1, <3>2, <4>1, TotalOfOneMore
      <4>3. Total(ForBalance, Uses(v)) \in Nat
        BY <2>1, <3>2, TotalNat
      <4>4. Cardinality(PaidTopUps(v)) \in Nat
        BY FS_Subset, FS_CardinalityType, FundingAssumption DEF PaidTopUps
      <4>5. balance'[v] = balance[v] + 1
        BY <1>1, <1>2, <3>4
      <4>6. QED
        BY <3>1, <4>2, <4>3, <4>4, <4>5
    <3>5. QED
      BY <3>3, <3>4
  <2>3. QED
    BY <2>2 DEF BalanceIsCredited, PaidTopUps, ForBalance, Uses
<1>8. QED
  BY <1>3, <1>5, <1>6, <1>7 DEF Kept

LEMMA SubscriptionRedemptionKept ==
  ASSUME Inv, NEW k \in Calls, ApplyRedemption(k)
  PROVE  Kept
<1>1. PICK c \in Codes : c = call[k].of
  BY DEF ApplyRedemption
<1> DEFINE u == call[k].user
<1>2. /\ UNCHANGED <<balance, order>> /\ Redeemed(c, u) /\ Return(k) /\ Holds(k, c)
  BY <1>1 DEF ApplyRedemption, Holds
<1>3. u \in Users /\ InForce(c, u) /\ code[c].kind # TopUp
  BY <1>1, <1>2, FundingAssumption DEF Inv, LockInv, CallKnows, Holds
<1> HIDE DEF u
<1>4. RowsTyped /\ RowsTyped'
  BY <1>2, <1>3, RedeemedTyped DEF Inv, RowsTyped
<1>5. CallsTyped' /\ Others(k) /\ call'[k].pc = "idle"
  BY <1>2, ReturnAt DEF Inv
<1>6. ASSUME NEW l \in Calls, l # k PROVE CallKnows(l)'
  <2>1. ~Holds(l, c)
    BY <1>2, <1>6 DEF Inv, LockInv
  <2>2. QED
    BY <1>2, <1>3, <1>4, <1>5, <1>6, <2>1, RedeemedRow, StillKnows DEF Inv, Others
<1>7. LockInv'
  <2>1. CallKnows(k)' /\ \A x : ~Holds(k, x)'
    BY <1>5 DEF CallKnows, Holds
  <2>2. QED
    BY <1>5, <1>6, <2>1, LocksKept DEF Inv
<1>8. LimitsKept => LimitsKept'
  BY <1>2, <1>3, <1>4, RedeemedLimits
<1>9. ASSUME BalanceIsCredited PROVE BalanceIsCredited'
  <2>1. ForBalance' = ForBalance /\ c \notin ForBalance
    BY <1>2, <1>3, <1>4, RedeemedRow DEF ForBalance
  <2>2. ASSUME NEW v \in Users
        PROVE  Total(ForBalance, Uses(v))' = Total(ForBalance, Uses(v))
    <3>1. \A d \in ForBalance : Uses(v)'[d] = Uses(v)[d]
      BY <1>2, <1>3, <1>4, <2>1, RedeemedRow DEF ForBalance, Uses
    <3>2. Total(ForBalance, Uses(v))' = Total(ForBalance, Uses(v)')
      BY <2>1 DEF Total, Cells
    <3>3. QED
      BY <3>1, <3>2, TotalSame
  <2>3. QED
    BY <1>2, <1>9, <2>2 DEF BalanceIsCredited, PaidTopUps, ForBalance, Uses
<1>10. QED
  BY <1>4, <1>5, <1>7, <1>8, <1>9 DEF Kept
-----------------------------------------------------------------------------
(* Every step.                                                             *)

LEMMA InitHolds == Init => Inv /\ LimitsKept /\ BalanceIsCredited
<1> SUFFICES ASSUME Init PROVE Inv /\ LimitsKept /\ BalanceIsCredited
  OBVIOUS
<1>1. \A k \in Calls : call[k] = Idle
  BY DEF Init
<1>2. CallsTyped
  <2>1. Idle.pc = "idle" /\ Idle.of = "none" /\ Idle.late = FALSE /\ Idle.at = 0
        /\ Idle.seen = {} /\ Idle.give = Gone
    BY IdleFields
  <2> HIDE DEF Idle, Gone
  <2>2. \A k \in Calls : CallShaped(k)
    BY <1>1, <2>1, IdleFields DEF CallShaped
  <2>3. call = [k \in Calls |-> call[k]]
    BY DEF Init
  <2>4. QED
    BY <2>2, <2>3 DEF CallsTyped
<1>3. \A k \in Calls : call[k].pc = "idle"
  BY <1>1, IdleFields
<1>4. LockInv
  BY <1>3 DEF LockInv, CallKnows, Holds
<1>5. \A o \in Orders : order[o].status = "none" /\ order[o] \in OrderRow
  <2>1. \A o \in Orders : order[o] = [status |-> "none", user |-> Somebody, kind |-> TopUp,
                                      long |-> 0, late |-> FALSE, nr |-> 0, gone |-> FALSE]
    BY DEF Init, NoOrder, Somebody
  <2>2. TopUp \in Kinds /\ FALSE \in BOOLEAN /\ 0 \in Nat
    BY DEF Kinds
  <2> HIDE DEF Somebody, TopUp
  <2>3. ASSUME NEW o \in Orders PROVE order[o].status = "none" /\ order[o] \in OrderRow
    <3>1. order[o] = [status |-> "none", user |-> Somebody, kind |-> TopUp,
                      long |-> 0, late |-> FALSE, nr |-> 0, gone |-> FALSE]
      BY <2>1
    <3>2. QED
      BY <2>2, <3>1, SMT DEF OrderRow
  <2>4. QED
    BY <2>3
<1>6. \A c \in Codes : code[c].status = "none" /\ code[c].count = 0 /\ code[c].max = 0
                       /\ code[c] \in CodeRow
  BY DEF Init, NoCode, CodeRow, Kinds
<1>7. /\ order \in [Orders -> OrderRow] /\ code \in [Codes -> CodeRow]
      /\ balance \in [Users -> Nat] /\ redeemed \in [Codes -> [Users -> Nat]]
      /\ \A u \in Users : balance[u] = 0
      /\ \A c \in Codes, u \in Users : redeemed[c][u] = 0
  BY <1>5, <1>6 DEF Init
<1>8. RowsTyped
  BY <1>5, <1>7 DEF RowsTyped
<1>9. LimitsKept
  <2>1. ASSUME NEW c \in Codes PROVE Total(Users, redeemed[c]) = 0
    BY <1>7, TotalOfNone
  <2>2. QED
    BY <1>6, <2>1 DEF LimitsKept
<1>10. BalanceIsCredited
  <2>1. ASSUME NEW u \in Users
        PROVE  balance[u] = Cardinality(PaidTopUps(u)) + Total(ForBalance, Uses(u))
    <3>1. PaidTopUps(u) = {}
      BY <1>5 DEF PaidTopUps
    <3>2. \A c \in ForBalance : Uses(u)[c] = 0
      BY <1>7 DEF ForBalance, Uses
    <3>3. Total(ForBalance, Uses(u)) = 0
      BY <3>2, TotalOfNone
    <3>4. QED
      BY <1>7, <3>1, <3>3, FS_EmptySet
  <2>2. QED
    BY <2>1, Credits
<1>11. QED
  BY <1>2, <1>4, <1>8, <1>9, <1>10 DEF Inv

LEMMA StepKept ==
  ASSUME Inv, [Next]_vars
  PROVE  Kept
<1>1. ASSUME NEW k \in Calls, Paying(k) PROVE Kept
  BY <1>1, QuietStep, QuietKeeps, GrantPaymentKept, TopUpPaymentKept DEF Paying
<1>2. ASSUME NEW k \in Calls, Redeeming(k) PROVE Kept
  BY <1>2, QuietStep, QuietKeeps, SubscriptionRedemptionKept DEF Redeeming
<1>3. ASSUME NEW k \in Calls,
             \/ Fail(k) \/ LockActive(k) \/ ReplaceSubscription(k)
             \/ \E u \in Users : Subscribe(k, u) \/ SetUserSubscription(k, u)
      PROVE  Kept
  BY <1>3, QuietStep, QuietKeeps
<1>4. ASSUME UNCHANGED <<balance, order, code, redeemed, call>> PROVE Kept
  <2>1. UNCHANGED Money /\ CallsTyped'
    BY <1>4 DEF Money, Inv, CallsTyped, CallShaped
  <2>2. LockInv'
    BY <1>4 DEF Inv, LockInv, CallKnows, InForce, Holds
  <2>3. QED
    BY <2>1, <2>2, QuietKeeps
<1>5. ASSUME NEW o \in Orders,
             CreatePaymentOrder(o) \/ OrderExpires(o) \/ DeleteOrdersBefore(o)
      PROVE  Kept
  BY <1>5, OrdersKept, DeletionKept
<1>6. ASSUME NEW c \in Codes,
             \/ CreateRedemptionCode(c) \/ PatchRedemptionCode(c)
             \/ DeleteRedemptionCode(c) \/ CodeExpires(c)
             \/ \E u \in Users : RedeemBalance(c, u)
      PROVE  Kept
  BY <1>6, CodesKept, BalanceRedemptionKept
<1>7. CASE Tick \/ UNCHANGED vars
  BY <1>4, <1>7 DEF Tick, vars
<1>8. QED
  BY <1>1, <1>2, <1>3, <1>5, <1>6, <1>7 DEF Next
-----------------------------------------------------------------------------
(* Users, administrators and providers may do what they like at the same   *)
(* time: the redemptions of a code agree with its count and stay within    *)
(* its limit (RedeemCode, PatchRedemptionCode).                            *)
THEOREM LimitsAreKept == Spec => []LimitsKept
<1>1. Inv /\ LimitsKept /\ [Next]_vars => (Inv /\ LimitsKept)'
  BY StepKept DEF Kept, Inv
<1>2. QED
  BY <1>1, InitHolds, PTL DEF Spec

(* A balance is credited once for each top-up that is paid and each        *)
(* redemption, however often the webhook arrives and wherever a call fails *)
(* (MarkPaymentOrderPaidAndCreditBalance, RedeemCode).                     *)
THEOREM BalancesCredited == Spec => []BalanceIsCredited
<1>1. Inv /\ BalanceIsCredited /\ [Next]_vars => (Inv /\ BalanceIsCredited)'
  BY StepKept DEF Kept, Inv
<1>2. QED
  BY <1>1, InitHolds, PTL DEF Spec

LEMMA StepRedeemsInForce ==
  ASSUME Inv, LimitsKept, [Next]_vars, NEW c \in Codes, redeemed'[c] # redeemed[c]
  PROVE  /\ code[c].status = "active"
         /\ code'[c].max # 0 => code'[c].count <= code'[c].max
         /\ \A u \in Users : redeemed'[c][u] > redeemed[c][u] =>
              redeemed'[c][u] <= code[c].each
<1>1. \E v \in Users : Redeemed(c, v) /\ InForce(c, v)
  <2>1. \/ \E d \in Codes, v \in Users : RedeemBalance(d, v)
        \/ \E k \in Calls : ApplyRedemption(k)
    BY DEF Next, vars, Tick, Paying, Redeeming, CreatePaymentOrder, OrderExpires,
           DeleteOrdersBefore, CreateRedemptionCode, PatchRedemptionCode, DeleteRedemptionCode, CodeExpires,
           CompletePaymentOrder, RefusePayment, MarkPaidAndCreditBalance, LockOrder,
           MarkPaidAndGrantSubscription, RedeemSubscription, LockTimeline, Fail, LockActive,
           ReplaceSubscription, Subscribe, SetUserSubscription
  <2>2. ASSUME NEW d \in Codes, NEW v \in Users, Redeemed(d, v), InForce(d, v)
        PROVE  d = c
    BY <2>2, RedeemedRow DEF Inv
  <2>3. ASSUME NEW d \in Codes, NEW v \in Users, RedeemBalance(d, v)
        PROVE  Redeemed(d, v) /\ InForce(d, v)
    BY <2>3 DEF RedeemBalance, Redeemable, InForce
  <2>4. ASSUME NEW k \in Calls, ApplyRedemption(k)
        PROVE  /\ call[k].of \in Codes /\ call[k].user \in Users
               /\ Redeemed(call[k].of, call[k].user) /\ InForce(call[k].of, call[k].user)
    BY <2>4, FundingAssumption DEF ApplyRedemption, Inv, LockInv, CallKnows
  <2>5. QED
    BY <2>1, <2>2, <2>3, <2>4
<1>2. PICK v \in Users : Redeemed(c, v) /\ InForce(c, v)
  BY <1>1
<1>3. LimitsKept'
  BY StepKept DEF Kept
<1>4. redeemed[c] \in [Users -> Nat] /\ code[c].each \in Nat
  BY DEF Inv, RowsTyped, CodeRow
<1>5. /\ redeemed'[c][v] = redeemed[c][v] + 1 /\ redeemed[c][v] < code[c].each
      /\ \A u \in Users : u # v => redeemed'[c][u] = redeemed[c][u]
  BY <1>2, RedeemedRow DEF Inv, InForce
<1>6. \A u \in Users : redeemed'[c][u] > redeemed[c][u] => u = v
  BY <1>4, <1>5
<1>7. QED
  BY <1>2, <1>3, <1>4, <1>5, <1>6 DEF InForce, LimitsKept

(* A redemption that was validated before the subscriptions were read is   *)
(* still of a code in force when it commits, and within its limits: the    *)
(* lock on the code's row keeps administrators and other users out.        *)
THEOREM RedemptionsInForce == Spec => RedeemedInForce
<1>1. Inv /\ LimitsKept /\ [Next]_vars => (Inv /\ LimitsKept)'
  BY StepKept DEF Kept, Inv
<1>2. Inv /\ LimitsKept /\ [Next]_vars =>
        [\A c \in Codes : redeemed'[c] # redeemed[c] =>
           /\ code[c].status = "active"
           /\ code'[c].max # 0 => code'[c].count <= code'[c].max
           /\ \A u \in Users : redeemed'[c][u] > redeemed[c][u] =>
                redeemed'[c][u] <= code[c].each]_vars
  BY StepRedeemsInForce
<1>3. QED
  BY <1>1, <1>2, InitHolds, PTL DEF Spec, RedeemedInForce
-----------------------------------------------------------------------------
(* The time that users have under plans.                                   *)

(* A row that a call is to insert begins now, as long as the call runs.    *)
Given(row) ==
  \/ row = Gone
  \/ /\ row \in [plan : Plans, from : Nat, to : Nat] /\ Nonempty(row)
     /\ row.from = clock /\ row.to - row.from \in Durations

(* What a call is to do with subscriptions is not in the past.             *)
CallTimed(k) ==
  /\ call[k].pc \in {"idle", "completing", "starting", "granting", "replacing", "expiring"}
  /\ call[k].pc # "idle" => call[k].user \in Users
  /\ call[k].pc \in {"completing", "starting", "granting"} =>
       call[k].at \in Nat /\ call[k].at >= clock
  /\ call[k].pc \in {"replacing", "expiring"} => Given(call[k].give)

Clocks == clock \in 0..MaxClock /\ changes \in 0..MaxChanges

SubsTyped ==
  /\ sub \in [Users -> Seq(Rows(Plans))] /\ owed \in [Users -> Nat]
  /\ \A u \in Users : \A i \in DOMAIN sub[u] : sub[u][i] # Gone => sub[u][i].to > clock

(* What the rows of a user have left, each for itself, also where they     *)
(* overlap, is owed.                                                       *)
RowsOwed ==
  \A u \in Users : Total(DOMAIN sub[u], RowTime(sub[u], clock)) <= owed[u]

CodesUsable == \A c \in Codes : code[c].each > 0

TimeInv ==
  /\ Clocks /\ CodesUsable
  /\ \A k \in Calls : CallTimed(k)
  /\ SubsTyped /\ RowsOwed

(* The step of one call leaves the others in time.                         *)
LEMMA CallsTimed ==
  ASSUME \A l \in Calls : CallTimed(l), UNCHANGED clock, NEW k \in Calls, Others(k),
         CallTimed(k)'
  PROVE  \A l \in Calls : CallTimed(l)'
<1>1. ASSUME NEW l \in Calls, l # k PROVE CallTimed(l)'
  <2>1. call'[l] = call[l] /\ CallTimed(l)
    BY <1>1 DEF Others
  <2>2. QED
    BY <2>1 DEF CallTimed, Given
<1>2. QED
  BY <1>1

(* Rows that are left alone, at the same time.                             *)
LEMMA RowsUnmoved ==
  ASSUME SubsTyped, RowsOwed, UNCHANGED <<sub, owed, clock>>
  PROVE  SubsTyped' /\ RowsOwed'
BY DEF SubsTyped, RowsOwed

(* A call begins, goes on or gives up.                                     *)
LEMMA QuietTimed ==
  ASSUME Inv, TimeInv, NEW k \in Calls,
         \/ RefusePayment(k) \/ LockOrder(k) \/ LockTimeline(k) \/ LockActive(k)
         \/ Fail(k)
         \/ \E o \in Orders : CompletePaymentOrder(k, o)
         \/ \E c \in Codes, u \in Users : RedeemSubscription(k, c, u)
         \/ \E u \in Users : Subscribe(k, u) \/ SetUserSubscription(k, u)
  PROVE  TimeInv'
<1> USE DEF Inv, TimeInv
<1>1. /\ UNCHANGED <<clock, sub, owed, code>>
      /\ changes' = changes \/ Changes
  BY DEF RefusePayment, LockOrder, LockTimeline, LockActive, Fail, CompletePaymentOrder,
         RedeemSubscription, Subscribe, SetUserSubscription
<1>2. Clocks'
  BY <1>1, FundingAssumption DEF Clocks, Changes
<1>3. ASSUME Others(k), CallTimed(k)' PROVE TimeInv'
  <2>1. \A l \in Calls : CallTimed(l)'
    BY <1>1, <1>3, CallsTimed
  <2>2. SubsTyped' /\ RowsOwed'
    BY <1>1, RowsUnmoved
  <2>3. CodesUsable'
    BY <1>1 DEF CodesUsable
  <2>4. QED
    BY <1>2, <2>1, <2>2, <2>3
<1>4. clock \in Nat
  BY FundingAssumption DEF Clocks
<1>5. CASE RefusePayment(k) \/ Fail(k)
  <2>1. Others(k) /\ call'[k].pc = "idle"
    BY <1>5, ReturnAt DEF RefusePayment, Fail
  <2>2. QED
    BY <1>3, <2>1 DEF CallTimed
<1>6. CASE LockOrder(k) \/ LockTimeline(k) \/ LockActive(k)
  <2>1. /\ Others(k) /\ call'[k].user = call[k].user
        /\ call'[k].at = call[k].at /\ call'[k].give = call[k].give
        /\ \/ call[k].pc = "replacing" /\ call'[k].pc = "expiring"
           \/ call[k].pc \in {"completing", "starting"} /\ call'[k].pc = "granting"
    <3>1. CASE LockOrder(k)
      BY <3>1, SeenAt DEF LockOrder
    <3>2. CASE LockTimeline(k)
      BY <3>2, SeenAt DEF LockTimeline
    <3>3. CASE LockActive(k)
      BY <3>3, SeenAt DEF LockActive
    <3>4. QED
      BY <1>6, <3>1, <3>2, <3>3
  <2>2. CallTimed(k)
    OBVIOUS
  <2>3. CallTimed(k)'
    <3>1. CASE call[k].pc = "replacing" /\ call'[k].pc = "expiring"
      <4>1. Given(call[k].give) /\ call[k].user \in Users
        BY <2>2, <3>1 DEF CallTimed
      <4>2. Given(call[k].give)'
        BY <1>1, <2>1, <4>1 DEF Given
      <4>3. QED
        BY <2>1, <3>1, <4>1, <4>2 DEF CallTimed
    <3>2. CASE call[k].pc \in {"completing", "starting"} /\ call'[k].pc = "granting"
      BY <1>1, <2>1, <2>2, <3>2 DEF CallTimed
    <3>3. QED
      BY <2>1, <3>1, <3>2
  <2>4. QED
    BY <1>3, <2>1, <2>3
<1>7. ASSUME NEW o \in Orders, CompletePaymentOrder(k, o) PROVE TimeInv'
  <2>1. /\ Others(k) /\ call'[k].pc = "completing"
        /\ call'[k].user = order[o].user /\ call'[k].at = clock
    BY <1>7, WebhookAt
  <2>2. order[o].user \in Users
    BY <1>7 DEF CompletePaymentOrder, RowsTyped
  <2>3. QED
    BY <1>1, <1>3, <1>4, <2>1, <2>2 DEF CallTimed
<1>8. ASSUME NEW c \in Codes, NEW u \in Users, RedeemSubscription(k, c, u) PROVE TimeInv'
  <2>1. /\ Others(k) /\ call'[k].pc = "starting" /\ call'[k].user = u
        /\ call'[k].at = GrantStart(sub[u], code[c].kind, clock)
    BY <1>8, RedemptionAt
  <2>2. code[c].kind \in Nat /\ Plans \subseteq Nat
    <3>1. code[c].kind \in Kinds
      BY DEF RowsTyped, CodeRow
    <3>2. Kinds \subseteq Nat /\ Plans \subseteq Nat
      BY FundingAssumption DEF Kinds, TopUp
    <3>3. QED
      BY <3>1, <3>2
  <2>3. call'[k].at \in Nat /\ call'[k].at >= clock
    <3>1. PICK rows, plan : rows = sub[u] /\ plan = code[c].kind
      OBVIOUS
    <3>2. rows \in Seq(Rows(Plans)) /\ plan \in Nat
      BY <2>2, <3>1 DEF SubsTyped
    <3>3. GrantStart(rows, plan, clock) \in Nat /\ GrantStart(rows, plan, clock) >= clock
      BY <1>4, <2>2, <3>2, GrantStartIs
    <3>4. QED
      BY <2>1, <3>1, <3>3
  <2>4. QED
    BY <1>1, <1>3, <2>1, <2>3 DEF CallTimed
<1>9. ASSUME NEW u \in Users, NEW row, Change(k, u, row), Given(row) PROVE TimeInv'
  <2>1. Others(k) /\ call'[k].pc = "replacing" /\ call'[k].user = u /\ call'[k].give = row
    BY <1>9, ChangeAt
  <2>2. QED
    BY <1>1, <1>3, <1>9, <2>1 DEF CallTimed, Given
<1>10. ASSUME NEW u \in Users, Subscribe(k, u) \/ SetUserSubscription(k, u) PROVE TimeInv'
  <2>1. CASE Change(k, u, Gone)
    BY <1>9, <2>1 DEF Given
  <2>2. CASE \E plan \in Plans, long \in Durations :
               Change(k, u, [plan |-> plan, from |-> clock, to |-> clock + long])
    <3>1. PICK plan \in Plans, long \in Durations :
            Change(k, u, [plan |-> plan, from |-> clock, to |-> clock + long])
      BY <2>2
    <3>2. Given([plan |-> plan, from |-> clock, to |-> clock + long])
      BY <1>4, FundingAssumption DEF Given, Nonempty
    <3>3. QED
      BY <1>9, <3>1, <3>2
  <2>3. QED
    BY <1>10, <2>1, <2>2 DEF Subscribe, SetUserSubscription
<1>11. QED
  BY <1>5, <1>6, <1>7, <1>8, <1>10

(* The rows of one user are written. *)
LEMMA OneUserTimed ==
  ASSUME SubsTyped, RowsOwed, UNCHANGED clock,
         NEW u \in Users, NEW rows \in Seq(Rows(Plans)), NEW due \in Nat,
         sub' = [sub EXCEPT ![u] = rows], owed' = [owed EXCEPT ![u] = due],
         \A i \in DOMAIN rows : rows[i] # Gone => rows[i].to > clock,
         Total(DOMAIN rows, RowTime(rows, clock)) <= due
  PROVE  SubsTyped' /\ RowsOwed'
<1>1. /\ sub' \in [Users -> Seq(Rows(Plans))] /\ owed' \in [Users -> Nat]
      /\ sub'[u] = rows /\ owed'[u] = due
      /\ \A v \in Users : v # u => sub'[v] = sub[v] /\ owed'[v] = owed[v]
  BY DEF SubsTyped
<1>2. ASSUME NEW v \in Users
      PROVE  /\ \A i \in DOMAIN sub'[v] : sub'[v][i] # Gone => sub'[v][i].to > clock
             /\ Total(DOMAIN sub'[v], RowTime(sub'[v], clock)) <= owed'[v]
  <2>1. CASE v = u
    BY <1>1, <2>1
  <2>2. CASE v # u
    BY <1>1, <2>2 DEF SubsTyped, RowsOwed
  <2>3. QED
    BY <2>1, <2>2
<1>3. QED
  BY <1>1, <1>2 DEF SubsTyped, RowsOwed

(* A grant adds no more than is due for it.                                *)
LEMMA GrantTimed ==
  ASSUME Inv, TimeInv, NEW k \in Calls, call[k].pc = "granting",
         NEW kind \in Plans, NEW long \in Nat, Grant(k, kind, long, long),
         Return(k), UNCHANGED <<clock, changes>>, CodesUsable'
  PROVE  TimeInv'
<1> USE DEF Inv, TimeInv
<1> DEFINE u == call[k].user
           new == Granted(sub[u], call[k].seen, kind, call[k].at, long, clock)
<1>1. u \in Users /\ call[k].at \in Nat /\ clock <= call[k].at
  <2>1. CallTimed(k)
    OBVIOUS
  <2>2. clock \in Nat
    BY FundingAssumption DEF Clocks
  <2>3. QED
    BY <2>1, <2>2 DEF CallTimed
<1>2. /\ sub' = [sub EXCEPT ![u] = new] /\ owed' = [owed EXCEPT ![u] = owed[u] + long]
  BY <1>1 DEF Grant, SubsTyped
<1> HIDE DEF u
<1>3. /\ sub[u] \in Seq(Rows(Plans)) /\ owed[u] \in Nat /\ clock \in Nat /\ Plans \subseteq Nat
      /\ \A i \in DOMAIN sub[u] : sub[u][i] # Gone => sub[u][i].to > clock
      /\ Total(DOMAIN sub[u], RowTime(sub[u], clock)) <= owed[u]
  BY <1>1, FundingAssumption DEF SubsTyped, RowsOwed, Clocks
<1>4. /\ new \in Seq(Rows(Plans))
      /\ \A i \in DOMAIN new : new[i] # Gone => new[i].to > clock
      /\ Total(DOMAIN new, RowTime(new, clock))
           <= Total(DOMAIN sub[u], RowTime(sub[u], clock)) + long
  <2>1. PICK rows, seen, at : rows = sub[u] /\ seen = call[k].seen /\ at = call[k].at
    OBVIOUS
  <2>2. /\ rows \in Seq(Rows(Plans)) /\ at \in Nat /\ clock <= at
        /\ \A i \in DOMAIN rows : rows[i] # Gone => rows[i].to > clock
    BY <1>1, <1>3, <2>1
  <2>3. new = Granted(rows, seen, kind, at, long, clock)
    BY <2>1
  <2> HIDE DEF new
  <2>4. /\ new \in Seq(Rows(Plans))
        /\ \A i \in DOMAIN new : new[i] # Gone => new[i].to > clock
        /\ Total(DOMAIN new, RowTime(new, clock))
             <= Total(DOMAIN rows, RowTime(rows, clock)) + long
    BY <1>3, <2>2, <2>3, GrantedKeeps
  <2>5. QED
    BY <2>1, <2>4
<1> HIDE DEF new
<1>5. Total(DOMAIN new, RowTime(new, clock)) <= owed[u] + long
  <2>1. Total(DOMAIN sub[u], RowTime(sub[u], clock)) \in Nat
    BY <1>3, RowTimeNat
  <2>2. Total(DOMAIN new, RowTime(new, clock)) \in Nat
    BY <1>3, <1>4, RowTimeNat
  <2>3. QED
    BY <1>3, <1>4, <2>1, <2>2
<1>6. SubsTyped' /\ RowsOwed'
  <2>1. owed[u] + long \in Nat
    BY <1>3
  <2>2. QED
    BY <1>1, <1>2, <1>4, <1>5, <2>1, OneUserTimed
<1>7. \A l \in Calls : CallTimed(l)'
  <2>1. Others(k) /\ call'[k].pc = "idle"
    BY ReturnAt
  <2>2. CallTimed(k)'
    BY <2>1 DEF CallTimed
  <2>3. QED
    BY <2>1, <2>2, CallsTimed
<1>8. QED
  BY <1>6, <1>7 DEF Clocks

(* An order or a code grants what it says, once.                           *)
LEMMA GrantsTimed ==
  ASSUME Inv, TimeInv, NEW k \in Calls,
         MarkPaidAndGrantSubscription(k) \/ ApplyRedemption(k)
  PROVE  TimeInv'
<1>1. CASE MarkPaidAndGrantSubscription(k)
  <2> DEFINE o == call[k].of
  <2>1. /\ call[k].pc = "granting" /\ o \in Orders
        /\ Grant(k, order[o].kind, order[o].long,
                 IF order[o].status = "paid" THEN 0 ELSE order[o].long)
        /\ Return(k) /\ UNCHANGED <<clock, code, changes>>
    BY <1>1 DEF MarkPaidAndGrantSubscription
  <2>2. CallKnows(k)
    BY DEF Inv, LockInv
  <2>3. order[o].status = "pending" /\ order[o].kind # TopUp
    BY <2>1, <2>2, FundingAssumption DEF CallKnows
  <2>4. order[o].kind \in Plans /\ order[o].long \in Nat
    BY <2>1, <2>3 DEF Inv, RowsTyped, OrderRow, Kinds
  <2>5. Grant(k, order[o].kind, order[o].long, order[o].long)
    BY <2>1, <2>3
  <2>6. CodesUsable'
    BY <2>1 DEF TimeInv, CodesUsable
  <2> HIDE DEF o
  <2>7. QED
    BY <2>1, <2>4, <2>5, <2>6, GrantTimed
<1>2. CASE ApplyRedemption(k)
  <2> DEFINE c == call[k].of
  <2>1. /\ call[k].pc = "granting" /\ c \in Codes
        /\ Grant(k, code[c].kind, code[c].long, code[c].long)
        /\ Redeemed(c, call[k].user)
        /\ Return(k) /\ UNCHANGED <<clock, changes>>
    BY <1>2 DEF ApplyRedemption
  <2>2. CallKnows(k)
    BY DEF Inv, LockInv
  <2>3. code[c].kind # TopUp
    BY <2>1, <2>2, FundingAssumption DEF CallKnows
  <2>4. code[c].kind \in Plans /\ code[c].long \in Nat
    BY <2>1, <2>3 DEF Inv, RowsTyped, CodeRow, Kinds
  <2> HIDE DEF c
  <2>5. CodesUsable'
    BY <2>1 DEF TimeInv, CodesUsable, Inv, RowsTyped, CodeRow, Redeemed
  <2>6. QED
    BY <2>1, <2>4, <2>5, GrantTimed
<1>3. QED
  BY <1>1, <1>2

(* Rows that are expired and one that is inserted. *)
LEMMA ReplaceTimed ==
  ASSUME Inv, TimeInv, NEW k \in Calls, ReplaceSubscription(k)
  PROVE  TimeInv'
<1> USE DEF Inv, TimeInv
<1> DEFINE u == call[k].user
           row == call[k].give
           old == sub[u]
           m == Len(old)
           left == [i \in DOMAIN old |-> IF i \in call[k].seen THEN Gone ELSE old[i]]
           new == IF row = Gone THEN left ELSE Append(left, row)
           due == row.to - row.from + Total(DOMAIN left, RowTime(left, clock))
<1>1. /\ call[k].pc = "expiring"
      /\ sub' = [sub EXCEPT ![u] = new] /\ owed' = [owed EXCEPT ![u] = due]
      /\ Return(k) /\ UNCHANGED <<clock, code, changes>>
  BY DEF ReplaceSubscription
<1>2. u \in Users /\ Given(row)
  <2>1. CallTimed(k)
    OBVIOUS
  <2>2. QED
    BY <1>1, <2>1 DEF CallTimed
<1> HIDE DEF u, row
<1>3. /\ old \in Seq(Rows(Plans)) /\ clock \in Nat /\ Plans \subseteq Nat
      /\ \A i \in DOMAIN old : old[i] # Gone => old[i].to > clock
  BY <1>2, FundingAssumption DEF SubsTyped, Clocks
<1> HIDE DEF old
<1>4. m \in Nat /\ DOMAIN old = 1..m /\ Gone \in Rows(Plans)
  BY <1>3, LenProperties DEF Rows
<1>5. /\ left \in Seq(Rows(Plans)) /\ DOMAIN left = 1..m /\ Len(left) = m
      /\ \A i \in 1..m : left[i] # Gone => left[i].to > clock
  <2>1. \A i \in 1..m : old[i] \in Rows(Plans)
    BY <1>3, ElementOfSeq
  <2>2. left \in [1..m -> Rows(Plans)]
    BY <1>4, <2>1
  <2>3. left \in Seq(Rows(Plans))
    BY <1>4, <2>2, SeqDef
  <2>4. \A i \in 1..m : left[i] # Gone => left[i].to > clock
    BY <1>3, <1>4
  <2>5. QED
    BY <1>4, <2>3, <2>4, LenProperties
<1> HIDE DEF left, m
<1>6. Total(DOMAIN left, RowTime(left, clock)) \in Nat
      /\ \A i \in 1..m : RowTime(left, clock)[i] \in Nat
  BY <1>3, <1>5, RowTimeNat
<1>7. Gone.from = 0 /\ Gone.to = 0
  BY DEF Gone
<1> HIDE DEF Gone
<1>8. /\ new \in Seq(Rows(Plans)) /\ due \in Nat
      /\ \A i \in DOMAIN new : new[i] # Gone => new[i].to > clock
      /\ Total(DOMAIN new, RowTime(new, clock)) <= due
  <2>1. CASE row = Gone
    <3>1. new = left /\ due = Total(DOMAIN left, RowTime(left, clock))
      BY <1>6, <1>7, <2>1
    <3> HIDE DEF new, due
    <3>2. QED
      BY <1>5, <1>6, <3>1
  <2>2. CASE row # Gone
    <3>1. /\ row \in Rows(Plans) /\ row.from = clock /\ row.from \in Nat /\ row.to \in Nat
          /\ row.from < row.to
      BY <1>2, <2>2 DEF Given, Rows, Nonempty
    <3>2. new = Append(left, row)
      BY <2>2
    <3> HIDE DEF new
    <3>3. /\ new \in Seq(Rows(Plans)) /\ Len(new) = m + 1
          /\ \A i \in 1..m : new[i] = left[i]
          /\ new[m + 1] = row
      <4>1. /\ Append(left, row) \in Seq(Rows(Plans))
            /\ Len(Append(left, row)) = Len(left) + 1
            /\ \A i \in 1..Len(left) : Append(left, row)[i] = left[i]
            /\ Append(left, row)[Len(left) + 1] = row
        BY <1>5, <3>1, AppendProperties
      <4>2. QED
        BY <1>5, <3>2, <4>1
    <3>4. DOMAIN new = 1..(m + 1)
      BY <3>3, LenProperties
    <3>5. \A i \in DOMAIN new : new[i] # Gone => new[i].to > clock
      <4> SUFFICES ASSUME NEW i \in 1..(m + 1) PROVE new[i] # Gone => new[i].to > clock
        BY <3>4
      <4>1. CASE i \in 1..m
        BY <1>5, <3>3, <4>1
      <4>2. CASE i \notin 1..m
        <5>1. i = m + 1
          BY <1>4, <4>2
        <5>2. QED
          BY <3>1, <3>3, <5>1
      <4>3. QED
        BY <4>1, <4>2
    <3>6. PICK f, g : f = RowTime(new, clock) /\ g = RowTime(left, clock)
      OBVIOUS
    <3> DEFINE h == [j \in 1..1 |-> row.to - row.from]
    <3>7. \A i \in 1..m : g[i] \in Nat /\ f[i] = g[i]
      <4> TAKE i \in 1..m
      <4>1. i \in DOMAIN new /\ i \in DOMAIN left /\ new[i] = left[i]
        BY <1>4, <1>5, <3>3, <3>4
      <4>2. f[i] = g[i]
        BY <3>6, <4>1 DEF RowTime
      <4>3. QED
        BY <1>6, <3>6, <4>2
    <3>8. \A j \in 1..1 : h[j] \in Nat /\ f[m + j] = h[j]
      <4>1. h[1] = row.to - row.from /\ row.to - row.from \in Nat
        BY <3>1
      <4>2. Max({clock, row.from}) = clock
        <5>1. clock \in Int /\ row.from \in Int
          BY <1>3, <3>1
        <5>2. Max({clock, row.from}) = IF clock >= row.from THEN clock ELSE row.from
          BY ONLY <5>1, MaxMin
        <5>3. QED
          BY <3>1, <5>2
      <4>3. m + 1 \in DOMAIN new
        BY <1>4, <3>4
      <4>4. f[m + 1] = row.to - row.from
        BY <2>2, <3>1, <3>3, <3>6, <4>2, <4>3 DEF RowTime
      <4> HIDE DEF h
      <4>5. QED
        BY <4>1, <4>4
    <3> HIDE DEF h
    <3>9. Total(1..(m + 1), f) = Total(1..m, g) + Total(1..1, h)
      <4>1. PICK l \in Nat, n \in Nat : l = m /\ n = 1
        BY <1>4
      <4>2. \A i \in 1..l : g[i] \in Nat /\ f[i] = g[i]
        BY <3>7, <4>1
      <4>3. \A j \in 1..n : h[j] \in Nat /\ f[l + j] = h[j]
        BY <3>8, <4>1
      <4>4. Total(1..(l + n), f) = Total(1..l, g) + Total(1..n, h)
        BY ONLY l \in Nat, n \in Nat, <4>2, <4>3, TotalConcat, SMTT(30)
      <4>5. 1..(l + n) = 1..(m + 1) /\ 1..l = 1..m /\ 1..n = 1..1
        BY ONLY <4>1
      <4>6. QED
        BY ONLY <4>4, <4>5
    <3>10. Total(1..1, h) = row.to - row.from
      <4>1. 1..1 = {1} /\ h[1] \in Nat /\ h[1] = row.to - row.from
        BY <3>8 DEF h
      <4>2. Total({1}, h) = h[1]
        BY <4>1, TotalOne
      <4>3. QED
        BY <4>1, <4>2
    <3>11. due \in Nat /\ due = (row.to - row.from) + Total(1..m, g)
      BY <1>5, <1>6, <3>1, <3>6
    <3>12. Total(DOMAIN new, RowTime(new, clock)) \in Nat
      BY <1>3, <3>3, <3>5, RowTimeNat
    <3> HIDE DEF due
    <3>13. Total(DOMAIN new, RowTime(new, clock)) <= due
      BY <1>5, <1>6, <3>1, <3>4, <3>6, <3>9, <3>10, <3>11, <3>12
    <3>14. QED
      BY <3>3, <3>5, <3>11, <3>13
  <2>3. QED
    BY <2>1, <2>2
<1> HIDE DEF new, due
<1>9. SubsTyped' /\ RowsOwed'
  BY <1>1, <1>2, <1>8, OneUserTimed
<1>10. \A l \in Calls : CallTimed(l)'
  <2>1. Others(k) /\ call'[k].pc = "idle"
    BY <1>1, ReturnAt
  <2>2. CallTimed(k)'
    BY <2>1 DEF CallTimed
  <2>3. QED
    BY <1>1, <2>1, <2>2, CallsTimed
<1>11. QED
  BY <1>1, <1>9, <1>10 DEF Clocks, CodesUsable

(* Time passes: a row that is in force has a unit less.                    *)
LEMMA RowsTick ==
  ASSUME NEW old \in Seq(Rows(Plans)), Plans \subseteq Nat, NEW now \in Nat,
         \A i \in DOMAIN old : old[i] # Gone => old[i].to > now,
         NEW new, new = [i \in DOMAIN old |-> IF old[i].to <= now + 1 THEN Gone ELSE old[i]]
  PROVE  /\ new \in Seq(Rows(Plans))
         /\ \A i \in DOMAIN new : new[i] # Gone => new[i].to > now + 1
         /\ Total(DOMAIN new, RowTime(new, now + 1)) \in Nat
         /\ Total(DOMAIN old, RowTime(old, now)) \in Nat
         /\ Total(DOMAIN new, RowTime(new, now + 1)) <= Total(DOMAIN old, RowTime(old, now))
         /\ (\E i \in DOMAIN old : In(old[i], now)) =>
              Total(DOMAIN new, RowTime(new, now + 1)) + 1
                <= Total(DOMAIN old, RowTime(old, now))
<1> DEFINE m == Len(old)
<1>1. /\ m \in Nat /\ DOMAIN old = 1..m /\ IsFiniteSet(1..m)
      /\ \A i \in 1..m : /\ old[i] \in Rows(Plans)
                         /\ old[i].from \in Nat /\ old[i].to \in Nat
                         /\ old[i] # Gone => old[i].from < old[i].to
                         /\ old[i] = Gone => old[i].to = 0
  BY RowFields, ElementOfSeq
<1> HIDE DEF m
<1>2. /\ DOMAIN new = 1..m
      /\ \A i \in 1..m : new[i] = IF old[i].to <= now + 1 THEN Gone ELSE old[i]
  BY <1>1
<1>3. new \in Seq(Rows(Plans))
  <2>1. \A i \in 1..m : new[i] \in Rows(Plans)
    BY <1>1, <1>2 DEF Rows
  <2>2. new \in [1..m -> Rows(Plans)]
    <3>1. new = [i \in 1..m |-> new[i]]
      BY <1>1
    <3>2. QED
      BY <2>1, <3>1
  <2>3. QED
    BY <1>1, <2>2, SeqDef
<1>4. \A i \in 1..m : new[i] # Gone => new[i].to > now + 1
  BY <1>1, <1>2
<1>5. PICK f, g : f = RowTime(old, now) /\ g = RowTime(new, now + 1)
  OBVIOUS
<1>6. ASSUME NEW i \in 1..m
      PROVE  /\ f[i] \in Nat /\ g[i] \in Nat /\ g[i] <= f[i]
             /\ In(old[i], now) => g[i] + 1 = f[i]
  <2>1. PICK s, e : s = old[i].from /\ e = old[i].to
    OBVIOUS
  <2>2. /\ s \in Nat /\ e \in Nat /\ (old[i] # Gone => s < e /\ e > now)
        /\ (old[i] = Gone => e = 0)
    BY <1>1, <2>1
  <2>3. f[i] = IF old[i] = Gone THEN 0 ELSE e - Max({now, s})
    BY <1>1, <1>5, <2>1 DEF RowTime
  <2>4. g[i] = IF new[i] = Gone THEN 0 ELSE new[i].to - Max({now + 1, new[i].from})
    BY <1>2, <1>5 DEF RowTime
  <2>5. g[i] = IF e <= now + 1 THEN 0 ELSE e - Max({now + 1, s})
    <3>1. CASE e <= now + 1
      BY <1>2, <2>1, <2>4, <3>1
    <3>2. CASE ~(e <= now + 1)
      <4>1. new[i] = old[i] /\ old[i] # Gone
        BY <1>2, <2>1, <2>2, <3>2
      <4>2. QED
        BY <2>1, <2>4, <3>2, <4>1
    <3>3. QED
      BY <3>1, <3>2
  <2>6. /\ Max({now, s}) = IF now >= s THEN now ELSE s
        /\ Max({now + 1, s}) = IF now + 1 >= s THEN now + 1 ELSE s
    <3>1. now \in Int /\ now + 1 \in Int /\ s \in Int
      BY <2>2
    <3>2. Max({now, s}) = IF now >= s THEN now ELSE s
      BY ONLY <3>1, MaxMin
    <3>3. PICK next : next = now + 1
      OBVIOUS
    <3>4. Max({next, s}) = IF next >= s THEN next ELSE s
      BY ONLY <3>1, <3>3, MaxMin
    <3>5. QED
      BY <3>2, <3>3, <3>4
  <2>7. In(old[i], now) <=> s <= now /\ now < e
    BY <2>1 DEF In
  <2>8. CASE old[i] = Gone
    <3>1. e = 0 /\ f[i] = 0 /\ g[i] = 0 /\ ~In(old[i], now)
      BY <2>2, <2>3, <2>5, <2>7, <2>8
    <3>2. QED
      BY <3>1
  <2>9. CASE old[i] # Gone
    <3>1. /\ s < e /\ e > now
          /\ f[i] = e - (IF now >= s THEN now ELSE s)
          /\ g[i] = IF e <= now + 1 THEN 0
                    ELSE e - (IF now + 1 >= s THEN now + 1 ELSE s)
      BY <2>2, <2>3, <2>5, <2>6, <2>9
    <3>2. QED
      BY <2>2, <2>7, <3>1
  <2>10. QED
    BY <2>8, <2>9
<1>7. Total(1..m, g) \in Nat /\ Total(1..m, f) \in Nat /\ Total(1..m, g) <= Total(1..m, f)
  BY <1>1, <1>6, TotalNat, TotalGrows
<1>8. ASSUME NEW i \in 1..m, In(old[i], now) PROVE Total(1..m, g) + 1 <= Total(1..m, f)
  <2> DEFINE T == (1..m) \ {i}
  <2>1. IsFiniteSet(T) /\ T \subseteq 1..m
    BY <1>1, FS_Subset
  <2>2. PICK S : S = 1..m
    OBVIOUS
  <2>3. /\ Total(1..m, f) = Total(T, f) + f[i]
        /\ Total(1..m, g) = Total(T, g) + g[i]
    <3>1. IsFiniteSet(S) /\ i \in S /\ \A j \in S : f[j] \in Nat /\ g[j] \in Nat
      BY <1>1, <1>6, <2>2
    <3>2. Total(S, f) = Total(S \ {i}, f) + f[i]
      BY ONLY <3>1, TotalRemove
    <3>3. Total(S, g) = Total(S \ {i}, g) + g[i]
      BY ONLY <3>1, TotalRemove
    <3>4. QED
      BY <2>2, <3>2, <3>3
  <2> HIDE DEF T
  <2>4. Total(T, g) \in Nat /\ Total(T, f) \in Nat /\ Total(T, g) <= Total(T, f)
    BY <1>6, <2>1, TotalNat, TotalGrows
  <2>5. f[i] \in Nat /\ g[i] \in Nat /\ g[i] + 1 = f[i]
    BY <1>6, <1>8
  <2>6. QED
    BY <2>3, <2>4, <2>5
<1>9. QED
  BY <1>1, <1>2, <1>3, <1>4, <1>5, <1>7, <1>8

(* Time passes for everybody.                                              *)
LEMMA TickTimed ==
  ASSUME Inv, TimeInv, Tick
  PROVE  TimeInv'
<1> USE DEF Inv, TimeInv
<1>1. /\ clock < MaxClock /\ clock' = clock + 1 /\ UNCHANGED <<call, code, changes>>
      /\ owed' = [u \in Users |-> IF Covered(u, clock) THEN owed[u] - 1 ELSE owed[u]]
      /\ sub' = [u \in Users |-> [i \in DOMAIN sub[u] |->
                   IF sub[u][i].to <= clock + 1 THEN Gone ELSE sub[u][i]]]
      /\ \A k \in Calls : call[k].pc = "idle"
  BY DEF Tick
<1>2. clock \in Nat /\ clock + 1 \in Nat /\ Plans \subseteq Nat
  BY FundingAssumption DEF Clocks
<1>3. Clocks' /\ CodesUsable' /\ \A k \in Calls : CallTimed(k)'
  BY <1>1, FundingAssumption DEF Clocks, CodesUsable, CallTimed
<1>4. ASSUME NEW u \in Users
      PROVE  /\ sub'[u] \in Seq(Rows(Plans)) /\ owed'[u] \in Nat
             /\ \A i \in DOMAIN sub'[u] : sub'[u][i] # Gone => sub'[u][i].to > clock + 1
             /\ Total(DOMAIN sub'[u], RowTime(sub'[u], clock + 1)) <= owed'[u]
  <2>1. PICK old, new : old = sub[u] /\ new = sub'[u]
    OBVIOUS
  <2>2. /\ old \in Seq(Rows(Plans)) /\ owed[u] \in Nat
        /\ \A i \in DOMAIN old : old[i] # Gone => old[i].to > clock
        /\ Total(DOMAIN old, RowTime(old, clock)) <= owed[u]
    BY <2>1 DEF SubsTyped, RowsOwed
  <2>3. new = [i \in DOMAIN old |-> IF old[i].to <= clock + 1 THEN Gone ELSE old[i]]
    BY <1>1, <2>1
  <2>4. /\ new \in Seq(Rows(Plans))
        /\ \A i \in DOMAIN new : new[i] # Gone => new[i].to > clock + 1
        /\ Total(DOMAIN new, RowTime(new, clock + 1)) \in Nat
        /\ Total(DOMAIN old, RowTime(old, clock)) \in Nat
        /\ Total(DOMAIN new, RowTime(new, clock + 1)) <= Total(DOMAIN old, RowTime(old, clock))
        /\ (\E i \in DOMAIN old : In(old[i], clock)) =>
             Total(DOMAIN new, RowTime(new, clock + 1)) + 1
               <= Total(DOMAIN old, RowTime(old, clock))
    BY <1>2, <2>2, <2>3, RowsTick
  <2>5. owed'[u] = IF Covered(u, clock) THEN owed[u] - 1 ELSE owed[u]
    BY <1>1
  <2>6. Covered(u, clock) <=> \E i \in DOMAIN old : In(old[i], clock)
    BY <2>1 DEF Covered
  <2>7. owed'[u] \in Nat /\ Total(DOMAIN new, RowTime(new, clock + 1)) <= owed'[u]
    <3>1. CASE Covered(u, clock)
      BY <2>2, <2>4, <2>5, <2>6, <3>1
    <3>2. CASE ~Covered(u, clock)
      BY <2>2, <2>4, <2>5, <3>2
    <3>3. QED
      BY <3>1, <3>2
  <2>8. QED
    BY <2>1, <2>4, <2>7
<1>5. sub' = [u \in Users |-> sub'[u]] /\ owed' = [u \in Users |-> owed'[u]]
  BY <1>1
<1>6. sub' \in [Users -> Seq(Rows(Plans))] /\ owed' \in [Users -> Nat]
  BY <1>4, <1>5
<1>7. SubsTyped' /\ RowsOwed'
  <2>1. /\ \A u \in Users : \A i \in DOMAIN sub'[u] : sub'[u][i] # Gone => sub'[u][i].to > clock'
        /\ \A u \in Users : Total(DOMAIN sub'[u], RowTime(sub'[u], clock')) <= owed'[u]
    BY <1>1, <1>4
  <2>2. QED
    BY <1>6, <2>1 DEF SubsTyped, RowsOwed
<1>8. QED
  BY <1>3, <1>7

(* Orders, codes and the balance are written without subscriptions. *)
LEMMA MoneyTimed ==
  ASSUME Inv, TimeInv,
         \/ \E o \in Orders : CreatePaymentOrder(o) \/ OrderExpires(o) \/ DeleteOrdersBefore(o)
         \/ \E c \in Codes : \/ CreateRedemptionCode(c) \/ PatchRedemptionCode(c)
                             \/ DeleteRedemptionCode(c) \/ CodeExpires(c)
                             \/ \E u \in Users : RedeemBalance(c, u)
         \/ \E k \in Calls : MarkPaidAndCreditBalance(k)
         \/ UNCHANGED vars
  PROVE  TimeInv'
<1> USE DEF Inv, TimeInv
<1>1. UNCHANGED <<clock, sub, owed>>
  BY DEF CreatePaymentOrder, OrderExpires, DeleteOrdersBefore, CreateRedemptionCode,
         PatchRedemptionCode,
         DeleteRedemptionCode, CodeExpires, RedeemBalance, MarkPaidAndCreditBalance, vars
<1>2. Clocks'
  <2>1. changes' = changes \/ Changes
    BY DEF CreatePaymentOrder, OrderExpires, DeleteOrdersBefore, CreateRedemptionCode,
         PatchRedemptionCode,
           DeleteRedemptionCode, CodeExpires, RedeemBalance, MarkPaidAndCreditBalance, vars
  <2>2. QED
    BY <1>1, <2>1, FundingAssumption DEF Clocks, Changes
<1>3. SubsTyped' /\ RowsOwed'
  BY <1>1, RowsUnmoved
<1>4. \A l \in Calls : CallTimed(l)'
  <2>1. CASE UNCHANGED call
    BY <1>1, <2>1 DEF CallTimed, Given
  <2>2. CASE \E k \in Calls : MarkPaidAndCreditBalance(k)
    <3>1. PICK k \in Calls : Return(k)
      BY <2>2 DEF MarkPaidAndCreditBalance
    <3>2. Others(k) /\ call'[k].pc = "idle"
      BY <3>1, ReturnAt
    <3>3. CallTimed(k)'
      BY <3>2 DEF CallTimed
    <3>4. QED
      BY <1>1, <3>2, <3>3, CallsTimed
  <2>3. QED
    BY <2>1, <2>2 DEF CreatePaymentOrder, OrderExpires, DeleteOrdersBefore,
       CreateRedemptionCode, PatchRedemptionCode, DeleteRedemptionCode, CodeExpires, RedeemBalance, vars
<1>5. CodesUsable'
  <2>1. code \in [Codes -> CodeRow] /\ \A c \in Codes : code[c].each > 0
    BY DEF RowsTyped, CodesUsable
  <2>2. CASE UNCHANGED code
    BY <2>1, <2>2 DEF CodesUsable
  <2>3. ASSUME NEW c \in Codes, NEW r, code' = [code EXCEPT ![c] = r], r.each > 0
        PROVE  CodesUsable'
    BY <2>1, <2>3 DEF CodesUsable
  <2>4. ASSUME NEW c \in Codes, CreateRedemptionCode(c) PROVE CodesUsable'
    <3>0. PICK kind \in Kinds, max \in Limits, each \in Limits : \E long \in Long(kind) :
            code' = [code EXCEPT ![c] =
              [status |-> "active", kind |-> kind, long |-> long,
               max |-> max, each |-> Max({each, 1}), count |-> 0]]
      BY <2>4, Zenon DEF CreateRedemptionCode
    <3>1. PICK long \in Long(kind) :
            code' = [code EXCEPT ![c] =
              [status |-> "active", kind |-> kind, long |-> long,
               max |-> max, each |-> Max({each, 1}), count |-> 0]]
      BY <3>0
    <3>2. Max({each, 1}) > 0
      <4>1. each \in Nat /\ 1 \in Nat
        BY FundingAssumption
      <4>2. Max({each, 1}) \in Nat /\ Max({each, 1}) >= 1
        BY ONLY <4>1, MaxOfTwo
      <4>3. QED
        BY <4>2
    <3>3. PICK most : most = Max({each, 1})
      OBVIOUS
    <3> DEFINE r == [status |-> "active", kind |-> kind, long |-> long,
                     max |-> max, each |-> most, count |-> 0]
    <3>4. code' = [code EXCEPT ![c] = r] /\ r.each > 0
      BY <3>1, <3>2, <3>3
    <3> HIDE DEF r
    <3>5. QED
      BY <2>3, <3>4
  <2>5. ASSUME NEW c \in Codes, PatchRedemptionCode(c) PROVE CodesUsable'
    <3>1. PICK max \in Limits, each \in Limits, status \in {"active", "closed"} :
            /\ MayBe(c, max, each)
            /\ code' = [code EXCEPT ![c].status = status, ![c].max = max, ![c].each = each]
      BY <2>5 DEF PatchRedemptionCode
    <3>2. each > 0
      BY <3>1 DEF MayBe
    <3>3. QED
      BY <2>1, <3>1, <3>2 DEF CodesUsable, CodeRow
  <2>6. ASSUME NEW c \in Codes,
               \/ DeleteRedemptionCode(c) \/ CodeExpires(c)
               \/ \E u \in Users : RedeemBalance(c, u)
        PROVE  CodesUsable'
    BY <2>1, <2>6 DEF DeleteRedemptionCode, CodeExpires, RedeemBalance, Redeemed,
       CodesUsable, CodeRow
  <2>7. QED
    BY <2>2, <2>4, <2>5, <2>6 DEF CreatePaymentOrder, OrderExpires, DeleteOrdersBefore,
       MarkPaidAndCreditBalance, vars
<1>6. QED
  BY <1>2, <1>3, <1>4, <1>5

(* At the beginning nobody has anything. *)
LEMMA InitTimed == Init => TimeInv
<1> SUFFICES ASSUME Init PROVE TimeInv
  OBVIOUS
<1>1. Clocks
  BY FundingAssumption DEF Init, Clocks
<1>2. CodesUsable
  BY DEF Init, NoCode, CodesUsable
<1>3. \A k \in Calls : CallTimed(k)
  <2>1. \A k \in Calls : call[k].pc = "idle"
    BY IdleFields DEF Init
  <2>2. QED
    BY <2>1 DEF CallTimed
<1>4. SubsTyped
  BY DEF Init, SubsTyped
<1>5. RowsOwed
  <2>1. ASSUME NEW u \in Users PROVE Total(DOMAIN sub[u], RowTime(sub[u], clock)) <= owed[u]
    <3>1. DOMAIN sub[u] = {} /\ owed[u] = 0
      BY DEF Init
    <3>2. PICK f : f = RowTime(sub[u], clock)
      OBVIOUS
    <3>3. Total({}, f) = 0
      BY TotalEmpty
    <3>4. QED
      BY <3>1, <3>2, <3>3
  <2>2. QED
    BY <2>1 DEF RowsOwed
<1>6. QED
  BY <1>1, <1>2, <1>3, <1>4, <1>5 DEF TimeInv

(* Every step keeps what is known of the time. *)
LEMMA StepTimed ==
  ASSUME Inv, TimeInv, [Next]_vars
  PROVE  TimeInv'
<1>1. ASSUME NEW k \in Calls, Paying(k) PROVE TimeInv'
  BY <1>1, QuietTimed, GrantsTimed, MoneyTimed DEF Paying
<1>2. ASSUME NEW k \in Calls, Redeeming(k) PROVE TimeInv'
  BY <1>2, QuietTimed, GrantsTimed DEF Redeeming
<1>3. ASSUME NEW k \in Calls,
             \/ Fail(k) \/ LockActive(k) \/ ReplaceSubscription(k)
             \/ \E u \in Users : Subscribe(k, u) \/ SetUserSubscription(k, u)
      PROVE  TimeInv'
  BY <1>3, QuietTimed, ReplaceTimed
<1>4. ASSUME NEW o \in Orders,
             CreatePaymentOrder(o) \/ OrderExpires(o) \/ DeleteOrdersBefore(o)
      PROVE  TimeInv'
  BY <1>4, MoneyTimed
<1>5. ASSUME NEW c \in Codes,
             \/ CreateRedemptionCode(c) \/ PatchRedemptionCode(c)
             \/ DeleteRedemptionCode(c) \/ CodeExpires(c)
             \/ \E u \in Users : RedeemBalance(c, u)
      PROVE  TimeInv'
  BY <1>5, MoneyTimed
<1>6. CASE Tick \/ UNCHANGED vars
  BY <1>6, TickTimed, MoneyTimed
<1>7. QED
  BY <1>1, <1>2, <1>3, <1>4, <1>5, <1>6 DEF Next

(* Where rows overlap, their time counts once for the user. *)
LEMMA TimeOfRows ==
  ASSUME NEW P, P \subseteq Nat, NEW rows \in Seq(Rows(P)), NEW now \in Nat,
         \A i \in DOMAIN rows : rows[i] # Gone => rows[i].to > now
  PROVE  /\ Cardinality(Time(rows, now)) \in Nat
         /\ Cardinality(Time(rows, now)) <= Total(DOMAIN rows, RowTime(rows, now))
<1> DEFINE f == RowTime(rows, now)
           start(i) == Max({now, rows[i].from})
           owner(t) == CHOOSE i \in DOMAIN rows :
                         rows[i] # Gone /\ t \in start(i)..(rows[i].to - 1)
           units == Time(rows, now)
           cells == Cells(DOMAIN rows, f)
           move == [t \in units |-> <<owner(t), t - start(owner(t)) + 1>>]
<1>1. ASSUME NEW i \in DOMAIN rows, rows[i] # Gone
      PROVE  /\ start(i) \in Nat /\ rows[i].to \in Nat
             /\ f[i] \in Nat /\ f[i] = rows[i].to - start(i)
  <2>1. i \in Entitled(rows, now)
    BY <1>1 DEF Entitled
  <2>2. start(i) \in Nat /\ f[i] \in Nat
    BY <2>1, RemNat, RowTimeNat
  <2>3. rows[i].to \in Nat
    BY RowFields
  <2>4. f[i] = rows[i].to - start(i)
    BY <1>1 DEF RowTime
  <2>5. QED
    BY <2>2, <2>3, <2>4
<1>2. ASSUME NEW t \in units
      PROVE  /\ owner(t) \in DOMAIN rows /\ rows[owner(t)] # Gone
             /\ t \in start(owner(t))..(rows[owner(t)].to - 1)
  <2>1. \E i \in DOMAIN rows : rows[i] # Gone /\ t \in start(i)..(rows[i].to - 1)
    BY DEF Time
  <2>2. QED
    BY <2>1
<1> HIDE DEF owner, units, f, start
<1>3. ASSUME NEW t \in units
      PROVE  /\ t - start(owner(t)) + 1 \in 1..f[owner(t)]
             /\ t = (t - start(owner(t)) + 1) + start(owner(t)) - 1
  BY <1>1, <1>2
<1>4. \A t \in units : move[t] \in cells
  <2> TAKE t \in units
  <2>1. PICK i, n : i = owner(t) /\ n = t - start(owner(t)) + 1
    OBVIOUS
  <2>2. i \in DOMAIN rows /\ n \in 1..f[i] /\ move[t] = <<i, n>>
    BY <1>2, <1>3, <2>1
  <2> HIDE DEF move
  <2>3. move[t] \in {i} \X (1..f[i])
    BY <2>2
  <2>4. QED
    BY <2>2, <2>3 DEF Cells
<1>5. \A s, t \in units : move[s] = move[t] => s = t
  <2> TAKE s, t \in units
  <2> HAVE move[s] = move[t]
  <2>1. owner(s) = owner(t) /\ s - start(owner(s)) + 1 = t - start(owner(t)) + 1
    OBVIOUS
  <2>2. QED
    BY <1>3, <2>1
<1>6. move \in Injection(units, cells)
  <2>1. move = [t \in units |-> move[t]]
    OBVIOUS
  <2> HIDE DEF move, cells
  <2>2. QED
    BY <1>4, <1>5, <2>1 DEF Injection, IsInjective
<1>7. IsFiniteSet(cells)
  <2>1. IsFiniteSet(DOMAIN rows) /\ \A i \in DOMAIN rows : f[i] \in Nat
    BY RowFields, RowTimeNat DEF f
  <2>2. QED
    BY <2>1, CellsFinite
<1> HIDE DEF move, cells
<1>8. Cardinality(units) \in Nat /\ Cardinality(units) <= Cardinality(cells)
  BY <1>6, <1>7, FS_Injection, FS_CardinalityType
<1>9. QED
  BY <1>8 DEF units, cells, f, Total

(* The rows of the system have their types, and every row that a user has  *)
(* is of a plan and not over (grantSubscriptionOnTimeline and all that     *)
(* rewrites rows).                                                         *)
THEOREM FundingTyped == Spec => []TypeOK
<1>1. Inv /\ TimeInv => TypeOK
  <2> SUFFICES ASSUME Inv, TimeInv PROVE TypeOK
    OBVIOUS
  <2> USE DEF Inv, TimeInv
  <2>1. \A u \in Users : \A i \in DOMAIN sub[u] :
          LET r == sub[u][i] IN r = Gone \/ (r.plan \in Plans /\ Nonempty(r))
    <3> TAKE u \in Users
    <3> TAKE i \in DOMAIN sub[u]
    <3>1. sub[u][i] \in Rows(Plans)
      BY ElementOfSeq, LenProperties DEF SubsTyped
    <3>2. QED
      BY <3>1 DEF Rows
  <2>2. /\ \A o \in Orders : order[o].status \in {"none", "pending", "paid"}
                             /\ order[o].kind \in Kinds
        /\ \A c \in Codes : code[c].status \in {"none", "active", "closed", "deleted"}
                            /\ code[c].each > 0
        /\ balance \in [Users -> Nat]
    BY DEF RowsTyped, OrderRow, CodeRow, CodesUsable
  <2>3. \A k \in Calls : call[k].pc \in {"idle", "completing", "starting",
                           "granting", "replacing", "expiring"}
    BY DEF CallTimed
  <2>4. QED
    BY <2>1, <2>2, <2>3 DEF TypeOK, Clocks, SubsTyped
<1>2. Inv /\ TimeInv /\ [Next]_vars => (Inv /\ TimeInv)'
  BY StepKept, StepTimed DEF Kept, Inv
<1>3. QED
  BY <1>1, <1>2, InitHolds, InitTimed, PTL DEF Spec

(* The time that a user has is no more than what is owed.                  *)
LEMMA TimeIsOwed ==
  ASSUME TimeInv, NEW u \in Users
  PROVE  TimeLeft(u) \in Nat /\ TimeLeft(u) <= owed[u]
<1>1. PICK rows : rows = sub[u]
  OBVIOUS
<1>2. /\ rows \in Seq(Rows(Plans)) /\ clock \in Nat /\ Plans \subseteq Nat /\ owed[u] \in Nat
      /\ \A i \in DOMAIN rows : rows[i] # Gone => rows[i].to > clock
      /\ Total(DOMAIN rows, RowTime(rows, clock)) <= owed[u]
  BY <1>1, FundingAssumption DEF TimeInv, SubsTyped, RowsOwed, Clocks
<1>3. /\ Cardinality(Time(rows, clock)) \in Nat
      /\ Cardinality(Time(rows, clock)) <= Total(DOMAIN rows, RowTime(rows, clock))
  BY <1>2, TimeOfRows
<1>4. Total(DOMAIN rows, RowTime(rows, clock)) \in Nat
  BY <1>2, RowTimeNat
<1>5. TimeLeft(u) = Cardinality(Time(rows, clock))
  BY <1>1 DEF TimeLeft
<1>6. QED
  BY <1>2, <1>3, <1>4, <1>5

(* A user never has more time under plans than was given: not when a       *)
(* provider calls the webhook twice, and not when grants and replacements  *)
(* of the same rows cross, whatever grantSubscriptionOnTimeline moves or   *)
(* cuts (buildSubscriptionTimeline, applySubscriptionTimeline).            *)
THEOREM NothingIsForNothing == Spec => []NothingForNothing
<1>1. TimeInv => NothingForNothing
  BY TimeIsOwed DEF NothingForNothing
<1>2. Inv /\ TimeInv /\ [Next]_vars => (Inv /\ TimeInv)'
  BY StepKept, StepTimed DEF Kept, Inv
<1>3. QED
  BY <1>1, <1>2, InitHolds, InitTimed, PTL DEF Spec
-----------------------------------------------------------------------------
(* What was granted is kept, and the highest plan comes first.             *)

(* What a call has read of the subscriptions of its user is still so:      *)
(* where a redemption may begin, and which rows there are.                 *)
Informed(k) ==
  /\ call[k].pc \in {"starting", "granting"} /\ call[k].of \in Codes =>
       Ready(sub[call[k].user], code[call[k].of].kind, call[k].at, clock)
  /\ call[k].pc = "granting" => Entitled(sub[call[k].user], call[k].at) \subseteq call[k].seen
  /\ call[k].pc = "expiring" => Entitled(sub[call[k].user], clock) \subseteq call[k].seen

(* An order grants from now on. *)
Punctual(k) ==
  call[k].pc \in {"completing", "starting", "granting"} /\ call[k].of \in Orders =>
    call[k].at = clock

(* One plan at a time, the highest first, and all that is owed. *)
Whole(rows, due) ==
  /\ RowsApart(rows, clock) /\ RowsStacked(rows, clock)
  /\ due <= Cardinality(Time(rows, clock))

WholeInv ==
  /\ crossed \in [Users -> BOOLEAN]
  /\ \A k \in Calls : Punctual(k)
  /\ \A u \in Users : ~crossed[u] =>
       /\ Whole(sub[u], owed[u])
       /\ \A k \in Calls : call[k].pc # "idle" /\ call[k].user = u => Informed(k)

(* The time that rows have is that which they cover. *)
LEMMA TimeIs ==
  ASSUME NEW P, P \subseteq Nat, NEW rows \in Seq(Rows(P)), NEW now \in Nat
  PROVE  Time(rows, now) = RowMoments(rows, now)
<1> DEFINE live == {j \in DOMAIN rows : rows[j] # Gone}
           units(i) == Max({now, rows[i].from})..(rows[i].to - 1)
<1>1. ASSUME NEW i \in DOMAIN rows
      PROVE  /\ rows[i].from \in Nat /\ rows[i].to \in Nat /\ rows[i].plan \in Nat
             /\ \A t \in Nat : In(rows[i], t) => i \in live
             /\ \A t : t \in units(i) <=> t \in Nat /\ now <= t /\ In(rows[i], t)
  <2>1. rows[i].from \in Nat /\ rows[i].to \in Nat
    BY RowFields
  <2>2. rows[i].plan \in Nat /\ \A t \in Nat : In(rows[i], t) => rows[i] # Gone
    <3>1. CASE rows[i] = Gone
      BY <3>1 DEF Gone, In
    <3>2. CASE rows[i] # Gone
      BY <3>2, RowFields
    <3>3. QED
      BY <3>1, <3>2
  <2>3. PICK f : f = rows[i].from
    OBVIOUS
  <2>4. Max({now, f}) = IF now >= f THEN now ELSE f
    <3>1. now \in Int /\ f \in Int
      BY <2>1, <2>3
    <3>2. QED
      BY ONLY <3>1, MaxMin
  <2>5. PICK b : b = Max({now, f})
    OBVIOUS
  <2>6. units(i) = b..(rows[i].to - 1)
    BY <2>3, <2>5
  <2> HIDE DEF units
  <2>7. \A t : t \in units(i) <=> t \in Nat /\ now <= t /\ In(rows[i], t)
    BY <2>1, <2>3, <2>4, <2>5, <2>6 DEF In
  <2>8. QED
    BY <2>1, <2>2, <2>7
<1>2. \A t : t \in Time(rows, now) <=> \E i \in live : t \in units(i)
  BY DEF Time
<1> HIDE DEF units
<1>3. \A t : t \in RowMoments(rows, now) <=>
        t \in Nat /\ now <= t /\ \E i \in DOMAIN rows : In(rows[i], t)
  BY <1>1 DEF RowMoments, RowsOver
<1>4. \A t : t \in Time(rows, now) <=> t \in RowMoments(rows, now)
  BY <1>1, <1>2, <1>3
<1>5. QED
  BY <1>4

(* What a code grants never changes. *)
LEMMA KindKept ==
  ASSUME Inv, [Next]_vars, NEW c \in Codes, code[c].status # "none"
  PROVE  code'[c].kind = code[c].kind
<1>1. code \in [Codes -> CodeRow]
  BY DEF Inv, RowsTyped
<1>2. ASSUME NEW d \in Codes, CreateRedemptionCode(d) PROVE code'[c].kind = code[c].kind
  <2>1. d # c
    BY <1>2 DEF CreateRedemptionCode
  <2>2. \E r : code' = [code EXCEPT ![d] = r]
    BY <1>2 DEF CreateRedemptionCode
  <2>3. QED
    BY <1>1, <2>1, <2>2
<1>3. ASSUME NEW d \in Codes,
             \/ PatchRedemptionCode(d) \/ DeleteRedemptionCode(d) \/ CodeExpires(d)
             \/ \E u \in Users : RedeemBalance(d, u)
      PROVE  code'[c].kind = code[c].kind
  <2>1. CASE PatchRedemptionCode(d)
    <3>1. PICK max \in Limits, each \in Limits, status \in {"active", "closed"} :
            code' = [code EXCEPT ![d].status = status, ![d].max = max, ![d].each = each]
      BY <2>1 DEF PatchRedemptionCode
    <3>2. QED
      BY <1>1, <3>1 DEF CodeRow
  <2>2. CASE DeleteRedemptionCode(d) \/ CodeExpires(d)
    BY <1>1, <2>2 DEF DeleteRedemptionCode, CodeExpires, CodeRow
  <2>3. ASSUME NEW u \in Users, RedeemBalance(d, u) PROVE code'[c].kind = code[c].kind
    BY <1>1, <2>3 DEF RedeemBalance, Redeemed, CodeRow
  <2>4. QED
    BY <1>3, <2>1, <2>2, <2>3
<1>4. ASSUME NEW k \in Calls, Paying(k) PROVE UNCHANGED code
  BY <1>4 DEF Paying, CompletePaymentOrder, RefusePayment, MarkPaidAndCreditBalance, LockOrder,
     MarkPaidAndGrantSubscription
<1>5. ASSUME NEW k \in Calls, Redeeming(k) PROVE code'[c].kind = code[c].kind
  <2>1. CASE ApplyRedemption(k)
    <3>1. code' = [code EXCEPT ![call[k].of].count = @ + 1]
      BY <2>1 DEF ApplyRedemption, Redeemed
    <3>2. QED
      BY <1>1, <3>1 DEF CodeRow
  <2>2. CASE LockTimeline(k) \/ \E d \in Codes, u \in Users : RedeemSubscription(k, d, u)
    BY <2>2 DEF LockTimeline, RedeemSubscription
  <2>3. QED
    BY <1>5, <2>1, <2>2 DEF Redeeming
<1>6. ASSUME NEW k \in Calls,
             \/ Fail(k) \/ LockActive(k) \/ ReplaceSubscription(k)
             \/ \E u \in Users : Subscribe(k, u) \/ SetUserSubscription(k, u)
      PROVE  UNCHANGED code
  BY <1>6 DEF Fail, LockActive, ReplaceSubscription, Subscribe, SetUserSubscription
<1>7. ASSUME NEW o \in Orders,
             CreatePaymentOrder(o) \/ OrderExpires(o) \/ DeleteOrdersBefore(o)
      PROVE  UNCHANGED code
  BY <1>7 DEF CreatePaymentOrder, OrderExpires, DeleteOrdersBefore
<1>8. CASE Tick \/ UNCHANGED vars
  BY <1>8 DEF Tick, vars
<1>9. QED
  BY <1>2, <1>3, <1>4, <1>5, <1>6, <1>7, <1>8 DEF Next

(* A call of a user whose rows nobody writes is as informed as it was. *)
LEMMA StillInformed ==
  ASSUME Inv, [Next]_vars, NEW l \in Calls, Informed(l), call'[l] = call[l], UNCHANGED clock,
         sub'[call[l].user] = sub[call[l].user]
  PROVE  Informed(l)'
<1>1. ASSUME call[l].pc \in {"starting", "granting"}, call[l].of \in Codes
      PROVE  code'[call[l].of].kind = code[call[l].of].kind
  <2>1. CallKnows(l)
    BY DEF Inv, LockInv
  <2>2. code[call[l].of].status = "active"
    BY <1>1, <2>1, FundingAssumption DEF CallKnows, InForce
  <2>3. QED
    BY <1>1, <2>2, KindKept
<1>2. QED
  BY <1>1 DEF Informed

(* Nobody writes subscriptions. *)
LEMMA CallsWhole ==
  ASSUME Inv, WholeInv, [Next]_vars, UNCHANGED <<clock, sub, owed, crossed>>,
         \A k \in Calls :
           \/ call'[k] = call[k]
           \/ /\ Punctual(k)'
              /\ call'[k].pc # "idle" =>
                   call'[k].user \in Users /\ (~crossed[call'[k].user] => Informed(k)')
  PROVE  WholeInv'
<1>1. \A k \in Calls : Punctual(k)'
  BY DEF WholeInv, Punctual
<1>2. ASSUME NEW u \in Users, ~crossed'[u] PROVE Whole(sub[u], owed[u])'
  BY <1>2 DEF WholeInv, Whole
<1>3. ASSUME NEW u \in Users, ~crossed'[u], NEW k \in Calls, call'[k].pc # "idle",
             call'[k].user = u
      PROVE  Informed(k)'
  <2>1. CASE call'[k] = call[k]
    <3>1. Informed(k)
      BY <1>3, <2>1 DEF WholeInv
    <3>2. QED
      BY <2>1, <3>1, StillInformed
  <2>2. CASE call'[k] # call[k]
    BY <1>3, <2>2
  <2>3. QED
    BY <2>1, <2>2
<1>4. QED
  BY <1>1, <1>2, <1>3 DEF WholeInv

(* A call begins, goes on or gives up. *)
LEMMA QuietWhole ==
  ASSUME Inv, TimeInv, WholeInv, [Next]_vars, NEW k \in Calls,
         \/ RefusePayment(k) \/ LockOrder(k) \/ LockTimeline(k) \/ LockActive(k)
         \/ Fail(k) \/ MarkPaidAndCreditBalance(k)
         \/ \E o \in Orders : CompletePaymentOrder(k, o)
         \/ \E c \in Codes, u \in Users : RedeemSubscription(k, c, u)
         \/ \E u \in Users : Subscribe(k, u) \/ SetUserSubscription(k, u)
  PROVE  WholeInv'
<1> USE DEF Inv
<1>1. UNCHANGED <<clock, sub, owed, crossed>>
  BY DEF RefusePayment, LockOrder, LockTimeline, LockActive, Fail, CompletePaymentOrder,
         RedeemSubscription, Subscribe, SetUserSubscription, MarkPaidAndCreditBalance
<1>2. ASSUME Others(k), Punctual(k)',
             call'[k].pc # "idle" =>
               call'[k].user \in Users /\ (~crossed[call'[k].user] => Informed(k)')
      PROVE  WholeInv'
  <2>1. \A l \in Calls : l # k => call'[l] = call[l]
    BY <1>2 DEF Others
  <2>2. QED
    BY <1>1, <1>2, <2>1, CallsWhole
<1>0. CallsTyped /\ k \in Calls
  OBVIOUS
<1>3. CallTimed(k) /\ CallKnows(k) /\ Punctual(k)
  BY DEF TimeInv, LockInv, WholeInv
<1>4. CASE RefusePayment(k) \/ Fail(k) \/ MarkPaidAndCreditBalance(k)
  <2>1. Others(k) /\ call'[k].pc = "idle"
    BY <1>4, ReturnAt DEF RefusePayment, Fail, MarkPaidAndCreditBalance
  <2>2. Punctual(k)'
    BY <2>1 DEF Punctual
  <2>3. QED
    BY <1>2, <2>1, <2>2
<1>5. CASE LockOrder(k)
  <2>1. /\ Others(k) /\ call'[k].user = call[k].user /\ call'[k].at = call[k].at
        /\ call'[k].of = call[k].of /\ call'[k].pc = "granting"
        /\ call'[k].seen = Entitled(sub[call[k].user], clock)
        /\ call[k].pc = "completing"
    <3>1. /\ Others(k) /\ call'[k].user = call[k].user /\ call'[k].at = call[k].at
          /\ call'[k].of = call[k].of /\ call'[k].pc = "granting"
      BY <1>5, SeenAt DEF LockOrder
    <3>2. call'[k].seen = Entitled(sub[call[k].user], clock)
      BY <1>5 DEF LockOrder, CallsTyped, CallShaped
    <3>3. QED
      BY <1>5, <3>1, <3>2 DEF LockOrder
  <2>2. call[k].of \in Orders /\ call[k].of \notin Codes /\ call[k].at = clock
        /\ call[k].user \in Users
    BY <1>3, <2>1, FundingAssumption DEF CallKnows, Punctual, CallTimed
  <2>3. Punctual(k)' /\ Informed(k)'
    BY <1>1, <2>1, <2>2 DEF Punctual, Informed
  <2>4. QED
    BY <1>2, <2>1, <2>2, <2>3
<1>6. CASE LockTimeline(k)
  <2>1. /\ Others(k) /\ call'[k].user = call[k].user /\ call'[k].at = call[k].at
        /\ call'[k].of = call[k].of /\ call'[k].pc = "granting"
        /\ call'[k].seen = Entitled(sub[call[k].user], call[k].at)
        /\ call[k].pc = "starting" /\ UNCHANGED code
    <3>1. /\ Others(k) /\ call'[k].user = call[k].user /\ call'[k].at = call[k].at
          /\ call'[k].of = call[k].of /\ call'[k].pc = "granting"
      BY <1>6, SeenAt DEF LockTimeline
    <3>2. call'[k].seen = Entitled(sub[call[k].user], call[k].at)
      BY <1>6 DEF LockTimeline, CallsTyped, CallShaped
    <3>3. QED
      BY <1>6, <3>1, <3>2 DEF LockTimeline
  <2>2. call[k].user \in Users
    BY <1>3, <2>1 DEF CallTimed
  <2>3. Punctual(k)'
    BY <1>1, <1>3, <2>1 DEF Punctual
  <2>4. ASSUME ~crossed[call[k].user] PROVE Informed(k)'
    <3>1. Informed(k)
      BY <2>1, <2>2, <2>4 DEF WholeInv
    <3>2. QED
      BY <1>1, <2>1, <3>1 DEF Informed
  <2>5. QED
    BY <1>2, <2>1, <2>2, <2>3, <2>4
<1>7. CASE LockActive(k)
  <2>1. /\ Others(k) /\ call'[k].user = call[k].user /\ call'[k].pc = "expiring"
        /\ call'[k].seen = Entitled(sub[call[k].user], clock)
        /\ call[k].pc = "replacing"
    <3>1. /\ Others(k) /\ call'[k].user = call[k].user /\ call'[k].at = call[k].at
          /\ call'[k].of = call[k].of /\ call'[k].pc = "expiring"
      BY <1>7, SeenAt DEF LockActive
    <3>2. call'[k].seen = Entitled(sub[call[k].user], clock)
      BY <1>7 DEF LockActive, CallsTyped, CallShaped
    <3>3. QED
      BY <1>7, <3>1, <3>2 DEF LockActive
  <2>2. call[k].user \in Users
    BY <1>3, <2>1 DEF CallTimed
  <2>3. Punctual(k)' /\ Informed(k)'
    BY <1>1, <2>1 DEF Punctual, Informed
  <2>4. QED
    BY <1>2, <2>1, <2>2, <2>3
<1>8. ASSUME NEW o \in Orders, CompletePaymentOrder(k, o) PROVE WholeInv'
  <2>1. /\ Others(k) /\ call'[k].pc = "completing"
        /\ call'[k].user = order[o].user /\ call'[k].at = clock
    BY <1>8, WebhookAt
  <2>2. order[o].user \in Users
    BY <1>8 DEF CompletePaymentOrder, RowsTyped
  <2>3. Punctual(k)' /\ Informed(k)'
    BY <1>1, <2>1 DEF Punctual, Informed
  <2>4. QED
    BY <1>2, <2>1, <2>2, <2>3
<1>9. ASSUME NEW c \in Codes, NEW u \in Users, RedeemSubscription(k, c, u) PROVE WholeInv'
  <2>1. /\ Others(k) /\ call'[k].pc = "starting" /\ call'[k].user = u /\ call'[k].of = c
        /\ call'[k].at = GrantStart(sub[u], code[c].kind, clock)
        /\ UNCHANGED code
    <3>1. UNCHANGED code
      BY <1>9 DEF RedeemSubscription
    <3>2. /\ Others(k) /\ call'[k].pc = "starting" /\ call'[k].user = u /\ call'[k].of = c
          /\ call'[k].at = GrantStart(sub[u], code[c].kind, clock)
      BY ONLY <1>0, <1>9, RedemptionAt
    <3>3. QED
      BY <3>1, <3>2
  <2>2. code[c].kind \in Nat /\ Plans \subseteq Nat
    <3>1. code[c].kind \in Kinds
      BY DEF RowsTyped, CodeRow
    <3>2. Kinds \subseteq Nat /\ Plans \subseteq Nat
      BY FundingAssumption DEF Kinds, TopUp
    <3>3. QED
      BY <3>1, <3>2
  <2>3. Ready(sub[u], code[c].kind, call'[k].at, clock)
    <3>1. PICK rows, plan : rows = sub[u] /\ plan = code[c].kind
      OBVIOUS
    <3>2. rows \in Seq(Rows(Plans)) /\ plan \in Nat /\ clock \in Nat
      BY <2>2, <3>1, FundingAssumption DEF TimeInv, SubsTyped, Clocks
    <3>3. Ready(rows, plan, GrantStart(rows, plan, clock), clock)
      BY <2>2, <3>2, GrantStartIs
    <3>4. QED
      BY <2>1, <3>1, <3>3
  <2>4. Punctual(k)' /\ Informed(k)'
    <3>1. Punctual(k)'
      BY <2>1, FundingAssumption DEF Punctual
    <3>2. Informed(k)'
      BY <1>1, <2>1, <2>3 DEF Informed
    <3>3. QED
      BY <3>1, <3>2
  <2>5. QED
    BY <1>2, <2>1, <2>4
<1>10. ASSUME NEW u \in Users, NEW row, Change(k, u, row) PROVE WholeInv'
  <2>1. Others(k) /\ call'[k].pc = "replacing" /\ call'[k].user = u
    BY <1>10, ChangeAt
  <2>2. Punctual(k)' /\ Informed(k)'
    BY <2>1 DEF Punctual, Informed
  <2>3. QED
    BY <1>2, <2>1, <2>2
<1>11. ASSUME NEW u \in Users, Subscribe(k, u) \/ SetUserSubscription(k, u) PROVE WholeInv'
  BY <1>10, <1>11 DEF Subscribe, SetUserSubscription
<1>12. QED
  BY <1>4, <1>5, <1>6, <1>7, <1>8, <1>9, <1>11

(* The rows of one user are written by a call that is then done. *)
LEMMA OneUserWhole ==
  ASSUME Inv, TimeInv, WholeInv, [Next]_vars, UNCHANGED clock, NEW k \in Calls, Return(k),
         NEW u \in Users, NEW rows, NEW due,
         sub' = [sub EXCEPT ![u] = rows], owed' = [owed EXCEPT ![u] = due],
         Crosses(u, Calls \ {k}), ~crossed[u] => Whole(rows, due)
  PROVE  WholeInv'
<1>1. Others(k) /\ call'[k].pc = "idle"
  BY ReturnAt DEF Inv
<1>2. \A l \in Calls : Punctual(l)'
  <2>1. Punctual(k)'
    BY <1>1 DEF Punctual
  <2>2. ASSUME NEW l \in Calls, l # k PROVE Punctual(l)'
    <3>1. call'[l] = call[l] /\ Punctual(l)
      BY <1>1, <2>2 DEF Others, WholeInv
    <3>2. QED
      BY <3>1 DEF Punctual
  <2>3. QED
    BY <2>1, <2>2
<1>3. /\ sub'[u] = rows /\ owed'[u] = due
      /\ \A v \in Users : v # u => sub'[v] = sub[v] /\ owed'[v] = owed[v]
  BY DEF TimeInv, SubsTyped
<1>4. PICK b : b = \E l \in Calls \ {k} :
                     call[l].pc \in {"starting", "granting", "replacing", "expiring"}
                     /\ call[l].user = u
  OBVIOUS
<1>5. /\ crossed' \in [Users -> BOOLEAN]
      /\ ~crossed'[u] => ~crossed[u] /\ ~b
      /\ \A v \in Users : v # u => crossed'[v] = crossed[v]
  <2>1. crossed' = [crossed EXCEPT ![u] = crossed[u] \/ b]
    BY <1>4 DEF Crosses, WholeInv
  <2>2. crossed \in [Users -> BOOLEAN]
    BY DEF WholeInv
  <2>3. QED
    BY <2>1, <2>2
<1>6. ASSUME NEW v \in Users, ~crossed'[v]
      PROVE  /\ Whole(sub[v], owed[v])'
             /\ \A l \in Calls : call'[l].pc # "idle" /\ call'[l].user = v => Informed(l)'
  <2>1. CASE v = u
    <3>1. Whole(sub[u], owed[u])'
      BY <1>3, <1>5, <1>6, <2>1 DEF Whole
    <3>2. ASSUME NEW l \in Calls, call'[l].pc # "idle", call'[l].user = u PROVE Informed(l)'
      <4>1. l # k /\ call'[l] = call[l]
        BY <1>1, <3>2 DEF Others
      <4>2. call[l].pc \notin {"starting", "granting", "replacing", "expiring"}
        BY <1>4, <1>5, <1>6, <2>1, <3>2, <4>1
      <4>3. QED
        BY <4>1, <4>2 DEF Informed
    <3>3. QED
      BY <2>1, <3>1, <3>2
  <2>2. CASE v # u
    <3>1. ~crossed[v] /\ sub'[v] = sub[v] /\ owed'[v] = owed[v]
      BY <1>3, <1>5, <1>6, <2>2
    <3>2. Whole(sub[v], owed[v])'
      BY <3>1 DEF WholeInv, Whole
    <3>3. ASSUME NEW l \in Calls, call'[l].pc # "idle", call'[l].user = v PROVE Informed(l)'
      <4>1. call'[l] = call[l]
        BY <1>1, <3>3 DEF Others
      <4>2. Informed(l)
        BY <3>1, <3>3, <4>1 DEF WholeInv
      <4>3. QED
        BY <3>1, <3>3, <4>1, <4>2, StillInformed
    <3>4. QED
      BY <3>2, <3>3
  <2>3. QED
    BY <2>1, <2>2
<1>7. QED
  BY <1>2, <1>5, <1>6 DEF WholeInv

(* A grant that nobody crosses is kept to the last unit. *)
LEMMA GrantWhole ==
  ASSUME Inv, TimeInv, WholeInv, [Next]_vars, NEW k \in Calls, call[k].pc = "granting",
         NEW kind \in Plans, NEW long \in Nat, Grant(k, kind, long, long),
         Return(k), UNCHANGED clock,
         \/ call[k].of \in Orders
         \/ call[k].of \in Codes /\ kind = code[call[k].of].kind
  PROVE  WholeInv'
<1> DEFINE u == call[k].user
           new == Granted(sub[u], call[k].seen, kind, call[k].at, long, clock)
<1>1. CallTimed(k) /\ Punctual(k) /\ u \in Users /\ clock \in Nat /\ Plans \subseteq Nat
  <2>1. CallTimed(k) /\ Punctual(k)
    BY DEF TimeInv, WholeInv
  <2>2. clock \in Nat /\ Plans \subseteq Nat
    BY FundingAssumption DEF TimeInv, Clocks
  <2>3. QED
    BY <2>1, <2>2 DEF CallTimed
<1>2. call[k].at \in Nat /\ clock <= call[k].at
  BY <1>1 DEF CallTimed
<1>3. /\ sub' = [sub EXCEPT ![u] = new] /\ owed' = [owed EXCEPT ![u] = owed[u] + long]
      /\ Crosses(u, Calls \ {k})
  BY <1>1 DEF Grant, TimeInv, SubsTyped
<1>4. ASSUME ~crossed[u] PROVE Whole(new, owed[u] + long)
  <2>1. Whole(sub[u], owed[u]) /\ Informed(k)
    BY <1>1, <1>4 DEF WholeInv
  <2>2. PICK rows, seen, at, due :
          rows = sub[u] /\ seen = call[k].seen /\ at = call[k].at /\ due = owed[u]
    OBVIOUS
  <2>3. /\ rows \in Seq(Rows(Plans)) /\ due \in Nat
        /\ \A i \in DOMAIN rows : rows[i] # Gone => rows[i].to > clock
    BY <1>1, <2>2 DEF TimeInv, SubsTyped
  <2>4. /\ RowsApart(rows, clock) /\ RowsStacked(rows, clock)
        /\ due <= Cardinality(Time(rows, clock))
    BY <2>1, <2>2 DEF Whole
  <2>5. Entitled(rows, at) \subseteq seen
    BY <2>1, <2>2 DEF Informed
  <2>6. at = clock \/ Ready(rows, kind, at, clock)
    <3>1. CASE call[k].of \in Orders
      BY <1>1, <2>2, <3>1 DEF Punctual
    <3>2. CASE call[k].of \in Codes /\ kind = code[call[k].of].kind
      BY <2>1, <2>2, <3>2 DEF Informed
    <3>3. QED
      BY <3>1, <3>2
  <2>7. new = Granted(rows, seen, kind, at, long, clock) /\ at \in Nat /\ clock <= at
    BY <1>2, <2>2
  <2> HIDE DEF new
  <2>8. new \in Seq(Rows(Plans))
    BY <1>1, <2>3, <2>7, GrantedKeeps
  <2>9. /\ RowsApart(new, clock) /\ RowsStacked(new, clock)
        /\ IsFiniteSet(RowMoments(new, clock)) /\ IsFiniteSet(RowMoments(rows, clock))
        /\ Cardinality(RowMoments(new, clock)) >= Cardinality(RowMoments(rows, clock)) + long
    BY <1>1, <2>3, <2>4, <2>5, <2>6, <2>7, GrantedHolds
  <2>10. Time(new, clock) = RowMoments(new, clock) /\ Time(rows, clock) = RowMoments(rows, clock)
    BY <1>1, <2>3, <2>8, TimeIs
  <2>11. due + long <= Cardinality(Time(new, clock))
    <3>1. /\ Cardinality(RowMoments(new, clock)) \in Nat
          /\ Cardinality(RowMoments(rows, clock)) \in Nat
      BY <2>9, FS_CardinalityType
    <3>2. QED
      BY <2>3, <2>4, <2>9, <2>10, <3>1
  <2>12. QED
    BY <2>2, <2>9, <2>11 DEF Whole
<1> HIDE DEF new, u
<1>5. QED
  BY <1>1, <1>3, <1>4, OneUserWhole

(* An order or a code grants what it says, once. *)
LEMMA GrantsWhole ==
  ASSUME Inv, TimeInv, WholeInv, [Next]_vars, NEW k \in Calls,
         MarkPaidAndGrantSubscription(k) \/ ApplyRedemption(k)
  PROVE  WholeInv'
<1>1. CASE MarkPaidAndGrantSubscription(k)
  <2> DEFINE o == call[k].of
  <2>1. /\ call[k].pc = "granting" /\ o \in Orders
        /\ Grant(k, order[o].kind, order[o].long,
                 IF order[o].status = "paid" THEN 0 ELSE order[o].long)
        /\ Return(k) /\ UNCHANGED clock
    BY <1>1 DEF MarkPaidAndGrantSubscription
  <2>2. CallKnows(k)
    BY DEF Inv, LockInv
  <2>3. order[o].status = "pending" /\ order[o].kind # TopUp
    BY <2>1, <2>2, FundingAssumption DEF CallKnows
  <2>4. order[o].kind \in Plans /\ order[o].long \in Nat
    BY <2>1, <2>3 DEF Inv, RowsTyped, OrderRow, Kinds
  <2>5. Grant(k, order[o].kind, order[o].long, order[o].long)
    BY <2>1, <2>3
  <2>6. QED
    BY <2>1, <2>4, <2>5, GrantWhole
<1>2. CASE ApplyRedemption(k)
  <2> DEFINE c == call[k].of
  <2>1. /\ call[k].pc = "granting" /\ c \in Codes
        /\ Grant(k, code[c].kind, code[c].long, code[c].long)
        /\ Return(k) /\ UNCHANGED clock
    BY <1>2 DEF ApplyRedemption
  <2>2. CallKnows(k)
    BY DEF Inv, LockInv
  <2>3. code[c].kind # TopUp
    BY <2>1, <2>2, FundingAssumption DEF CallKnows
  <2>4. code[c].kind \in Plans /\ code[c].long \in Nat
    BY <2>1, <2>3 DEF Inv, RowsTyped, CodeRow, Kinds
  <2>5. QED
    BY <2>1, <2>4, GrantWhole
<1>3. QED
  BY <1>1, <1>2

(* All that there is has been seen and is expired; one row is left, or none. *)
LEMMA OneRowWhole ==
  ASSUME NEW rows \in Seq(Rows(Plans)), Plans \subseteq Nat, clock \in Nat, NEW row,
         \A i \in DOMAIN rows : rows[i] # Gone => rows[i] = row,
         \A i, j \in DOMAIN rows : rows[i] # Gone /\ rows[j] # Gone => i = j,
         row = Gone \/ (row.from = clock /\ \E i \in DOMAIN rows : rows[i] = row)
  PROVE  Whole(rows, row.to - row.from)
<1>1. \A i \in DOMAIN rows, t \in Nat : In(rows[i], t) => rows[i] # Gone
  BY DEF Gone, In
<1>2. RowsApart(rows, clock)
  BY <1>1 DEF RowsApart
<1>3. ASSUME NEW s \in Nat, NEW t \in Nat, NEW p \in Nat, clock <= s, s <= t,
             RowsOver(rows, t, p)
      PROVE  RowsOver(rows, s, p)
  <2>1. PICK i \in DOMAIN rows : In(rows[i], t) /\ rows[i].plan >= p
    BY <1>3 DEF RowsOver
  <2>2. rows[i] = row /\ row # Gone
    BY <1>1, <2>1
  <2>3. row.from = clock /\ row.to \in Nat
    BY <2>2, RowFields
  <2>4. In(rows[i], s)
    BY <1>3, <2>1, <2>2, <2>3 DEF In
  <2>5. QED
    BY <2>1, <2>4 DEF RowsOver
<1>4. row.to - row.from <= Cardinality(Time(rows, clock))
  <2>1. CASE row = Gone
    <3>1. Time(rows, clock) = {}
      BY <2>1 DEF Time
    <3>2. row.to - row.from = 0
      BY <2>1 DEF Gone
    <3>3. QED
      BY <3>1, <3>2, FS_EmptySet
  <2>2. CASE row # Gone
    <3>1. PICK i \in DOMAIN rows : rows[i] = row
      BY <2>2
    <3>2. row.from = clock /\ row.to \in Nat /\ row.from < row.to /\ row.plan \in Nat
      BY <2>2, <3>1, RowFields
    <3>3. RowMoments(rows, clock) = clock..(row.to - 1)
      <4>1. \A t \in Nat : In(row, t) <=> clock <= t /\ t < row.to
        BY <3>2 DEF In
      <4>2. \A t \in Nat : RowsOver(rows, t, 0) <=> In(row, t)
        BY <1>1, <3>1, <3>2 DEF RowsOver
      <4>3. \A t : t \in RowMoments(rows, clock) <=> t \in clock..(row.to - 1)
        BY <3>2, <4>1, <4>2 DEF RowMoments
      <4>4. QED
        BY <4>3
    <3>4. Cardinality(clock..(row.to - 1)) = row.to - clock
      <4>1. PICK b \in Int : b = row.to - 1
        BY <3>2
      <4>2. Cardinality(clock..b) = IF clock <= b THEN b - clock + 1 ELSE 0
        <5>1. clock \in Int /\ b \in Int
          OBVIOUS
        <5>2. QED
          BY ONLY <5>1, FS_Interval
      <4>3. QED
        BY <3>2, <4>1, <4>2
    <3>5. Time(rows, clock) = RowMoments(rows, clock)
      BY TimeIs
    <3>6. QED
      BY <3>2, <3>3, <3>4, <3>5
  <2>3. QED
    BY <2>1, <2>2
<1>5. QED
  BY <1>2, <1>3, <1>4 DEF Whole, RowsStacked

(* What a replacement leaves of a user's rows.                             *)
Unseen(rows, seen) == [i \in DOMAIN rows |-> IF i \in seen THEN Gone ELSE rows[i]]

(* Who has seen all of them leaves none.                                   *)
LEMMA NothingLeft ==
  ASSUME NEW rows \in Seq(Rows(Plans)), NEW now \in Nat, NEW seen,
         \A i \in DOMAIN rows : rows[i] # Gone => rows[i].to > now,
         Entitled(rows, now) \subseteq seen
  PROVE  /\ Unseen(rows, seen) = [i \in 1..Len(rows) |-> Gone]
         /\ Total(DOMAIN Unseen(rows, seen), RowTime(Unseen(rows, seen), now)) = 0
<1>0. PICK left : left = Unseen(rows, seen)
  OBVIOUS
<1>1. PICK m : m = Len(rows)
  OBVIOUS
<1>2. DOMAIN rows = 1..m /\ m \in Nat
  BY <1>1, LenProperties
<1>3. left = [i \in 1..m |-> Gone]
  <2>1. \A i \in 1..m : left[i] = Gone
    BY <1>0, <1>2 DEF Unseen, Entitled
  <2>2. left = [i \in 1..m |-> left[i]]
    BY <1>0, <1>2 DEF Unseen
  <2>3. QED
    BY <2>1, <2>2
<1>4. PICK f, S : f = RowTime(left, now) /\ S = DOMAIN left
  OBVIOUS
<1>5. \A i \in S : f[i] = 0
  BY <1>3, <1>4 DEF RowTime
<1>6. IsFiniteSet(S) /\ IsFiniteSet({})
  BY <1>2, <1>3, <1>4, FS_Interval, FS_EmptySet
<1>7. Total(S, f) = Total({}, f)
  BY <1>5, <1>6, TotalOutside
<1>8. QED
  BY <1>0, <1>1, <1>3, <1>4, <1>7, TotalEmpty

(* All that there is has been seen: what is owed is the row that is given. *)
LEMMA ReplaceWhole ==
  ASSUME Inv, TimeInv, WholeInv, [Next]_vars, NEW k \in Calls, ReplaceSubscription(k)
  PROVE  WholeInv'
<1> DEFINE u == call[k].user
           row == call[k].give
           old == sub[u]
           m == Len(old)
           left == [i \in DOMAIN old |-> IF i \in call[k].seen THEN Gone ELSE old[i]]
           new == IF row = Gone THEN left ELSE Append(left, row)
           due == row.to - row.from + Total(DOMAIN left, RowTime(left, clock))
<1>1. /\ call[k].pc = "expiring"
      /\ sub' = [sub EXCEPT ![u] = new] /\ owed' = [owed EXCEPT ![u] = due]
      /\ Crosses(u, Calls \ {k}) /\ Return(k) /\ UNCHANGED clock
  BY DEF ReplaceSubscription
<1>2. u \in Users /\ Given(row)
  <2>1. CallTimed(k)
    BY DEF TimeInv
  <2>2. QED
    BY <1>1, <2>1 DEF CallTimed
<1>3. /\ old \in Seq(Rows(Plans)) /\ clock \in Nat /\ Plans \subseteq Nat
      /\ \A i \in DOMAIN old : old[i] # Gone => old[i].to > clock
  BY <1>2, FundingAssumption DEF TimeInv, SubsTyped, Clocks
<1>4. ASSUME ~crossed[u] PROVE Whole(new, due)
  <2>1. Entitled(old, clock) \subseteq call[k].seen
    BY <1>1, <1>2, <1>4 DEF WholeInv, Informed
  <2> HIDE DEF u, row, old
  <2>2. DOMAIN old = 1..m /\ m \in Nat
    BY <1>3, LenProperties
  <2>3. left = [i \in 1..m |-> Gone] /\ Total(DOMAIN left, RowTime(left, clock)) = 0
    <3>1. left = Unseen(old, call[k].seen)
      BY DEF Unseen
    <3> HIDE DEF left
    <3>2. QED
      BY <1>3, <2>1, <3>1, NothingLeft
  <2> HIDE DEF left, m
  <2>4. Total(DOMAIN left, RowTime(left, clock)) = 0
    BY <2>3
  <2>5. left \in Seq(Rows(Plans)) /\ Len(left) = m /\ DOMAIN left = 1..m
    <3>1. left \in [1..m -> Rows(Plans)]
      BY <2>3 DEF Rows
    <3>2. QED
      BY <2>2, <3>1, SeqDef, LenProperties
  <2>6. CASE row = Gone
    <3>1. new = left /\ due = 0
      BY <2>4, <2>6 DEF Gone
    <3>2. Whole(left, Gone.to - Gone.from)
      BY <1>3, <2>3, <2>5, OneRowWhole
    <3>3. Gone.to - Gone.from = 0
      BY DEF Gone
    <3>4. QED
      BY <3>1, <3>2, <3>3
  <2>7. CASE row # Gone
    <3>1. row \in Rows(Plans) /\ row.from = clock /\ row.from \in Nat /\ row.to \in Nat
      BY <1>2, <2>7 DEF Given, Rows
    <3>2. new = Append(left, row) /\ due = row.to - row.from
      BY <2>4, <2>7, <3>1
    <3> HIDE DEF new, due
    <3>3. /\ new \in Seq(Rows(Plans)) /\ Len(new) = m + 1
          /\ \A i \in 1..m : new[i] = Gone
          /\ new[m + 1] = row
      <4>1. /\ Append(left, row) \in Seq(Rows(Plans))
            /\ Len(Append(left, row)) = Len(left) + 1
            /\ \A i \in 1..Len(left) : Append(left, row)[i] = left[i]
            /\ Append(left, row)[Len(left) + 1] = row
        BY <2>5, <3>1, AppendProperties
      <4>2. QED
        BY <2>3, <2>5, <3>2, <4>1
    <3>4. DOMAIN new = 1..(m + 1)
      BY <3>3, LenProperties
    <3>5. \A i \in DOMAIN new : new[i] # Gone => i = m + 1
      BY <2>2, <3>3, <3>4
    <3>6. m + 1 \in DOMAIN new
      BY <2>2, <3>4
    <3>7. /\ \A i \in DOMAIN new : new[i] # Gone => new[i] = row
          /\ \A i, j \in DOMAIN new : new[i] # Gone /\ new[j] # Gone => i = j
          /\ \E i \in DOMAIN new : new[i] = row
      BY <3>3, <3>5, <3>6
    <3>8. Whole(new, row.to - row.from)
      BY <1>3, <3>1, <3>3, <3>7, OneRowWhole
    <3>9. QED
      BY <3>2, <3>8
  <2>8. QED
    BY <2>6, <2>7
<1> HIDE DEF new, due, u, row, old
<1>5. QED
  BY <1>1, <1>2, <1>4, OneUserWhole

(* Rows cover a finite time. *)
LEMMA RowMomentsFinite ==
  ASSUME NEW P, P \subseteq Nat, NEW rows \in Seq(Rows(P)), NEW now \in Nat
  PROVE  IsFiniteSet(RowMoments(rows, now))
<1> DEFINE ids == Entitled(rows, now)
           segs == Existing(rows, ids, now)
<1>1. IsFiniteSet(segs) /\ segs \subseteq Segments
  BY ExistingKeeps DEF Places
<1>2. \A t, p \in Nat : now <= t => (Over(segs, t, p) <=> RowsOver(rows, t, p))
  BY ExistingHolds
<1> HIDE DEF segs
<1>3. IsFiniteSet(Moments(segs))
  BY <1>1, MomentsTotal
<1>4. RowMoments(rows, now) \subseteq Moments(segs)
  BY <1>2 DEF RowMoments, Moments
<1>5. QED
  BY <1>3, <1>4, FS_Subset

(* Time passes for rows: what there is from now on stays. *)
LEMMA RowsTickWhole ==
  ASSUME NEW old \in Seq(Rows(Plans)), Plans \subseteq Nat, NEW now \in Nat, NEW due \in Nat,
         RowsApart(old, now), RowsStacked(old, now), due <= Cardinality(Time(old, now)),
         NEW new, new = [i \in DOMAIN old |-> IF old[i].to <= now + 1 THEN Gone ELSE old[i]],
         new \in Seq(Rows(Plans))
  PROVE  /\ RowsApart(new, now + 1) /\ RowsStacked(new, now + 1)
         /\ (IF \E i \in DOMAIN old : In(old[i], now) THEN due - 1 ELSE due)
              <= Cardinality(Time(new, now + 1))
<1>1. \A i \in DOMAIN old : /\ old[i].from \in Nat /\ old[i].to \in Nat /\ old[i].plan \in Nat
  <2> TAKE i \in DOMAIN old
  <2>1. CASE old[i] = Gone
    BY <2>1 DEF Gone
  <2>2. CASE old[i] # Gone
    BY <2>2, RowFields
  <2>3. QED
    BY <2>1, <2>2
<1>2. ASSUME NEW i \in DOMAIN old, NEW t \in Nat, now + 1 <= t
      PROVE  /\ In(new[i], t) <=> In(old[i], t)
             /\ In(new[i], t) => new[i].plan = old[i].plan
  <2>1. CASE old[i].to <= now + 1
    <3>1. new[i] = Gone
      BY <2>1
    <3>2. ~In(new[i], t) /\ ~In(old[i], t)
      BY <1>1, <1>2, <2>1, <3>1 DEF In, Gone
    <3>3. QED
      BY <3>2
  <2>2. CASE ~(old[i].to <= now + 1)
    BY <2>2
  <2>3. QED
    BY <2>1, <2>2
<1>3. DOMAIN new = DOMAIN old
  OBVIOUS
<1>4. \A t, p \in Nat : now + 1 <= t => (RowsOver(new, t, p) <=> RowsOver(old, t, p))
  BY <1>2, <1>3 DEF RowsOver
<1>5. RowsApart(new, now + 1)
  BY <1>2, <1>3 DEF RowsApart
<1>6. RowsStacked(new, now + 1)
  <2> SUFFICES ASSUME NEW s \in Nat, NEW t \in Nat, NEW p \in Nat, now + 1 <= s, s <= t,
                      RowsOver(new, t, p)
               PROVE  RowsOver(new, s, p)
    BY DEF RowsStacked
  <2>1. RowsOver(old, t, p) /\ now <= s
    BY <1>4
  <2>2. RowsOver(old, s, p)
    BY <2>1 DEF RowsStacked
  <2>3. QED
    BY <1>4, <2>2
<1>7. /\ Time(old, now) = RowMoments(old, now) /\ Time(new, now + 1) = RowMoments(new, now + 1)
      /\ IsFiniteSet(Time(old, now))
  <2>1. Time(old, now) = RowMoments(old, now)
    BY TimeIs
  <2>2. PICK next \in Nat : next = now + 1
    OBVIOUS
  <2>3. Time(new, next) = RowMoments(new, next)
    BY TimeIs
  <2>4. IsFiniteSet(Time(old, now))
    <3>1. Entitled(old, now) \in SUBSET Entitled(old, now)
      OBVIOUS
    <3>2. QED
      BY <2>1, RowMomentsFinite
  <2>5. QED
    BY <2>1, <2>2, <2>3, <2>4
<1>8. Time(new, now + 1) = Time(old, now) \ {now}
  <2>1. \A t : t \in RowMoments(new, now + 1) <=> t \in RowMoments(old, now) /\ t # now
    BY <1>4 DEF RowMoments
  <2>2. QED
    BY <1>7, <2>1
<1>9. (\E i \in DOMAIN old : In(old[i], now)) <=> now \in Time(old, now)
  BY <1>1, <1>7 DEF RowMoments, RowsOver
<1>10. Cardinality(Time(old, now)) \in Nat
  BY <1>7, FS_CardinalityType
<1>11. CASE now \in Time(old, now)
  <2>1. Cardinality(Time(new, now + 1)) = Cardinality(Time(old, now)) - 1
    BY <1>7, <1>8, <1>11, FS_RemoveElement
  <2>2. QED
    BY <1>5, <1>6, <1>9, <1>10, <1>11, <2>1
<1>12. CASE now \notin Time(old, now)
  <2>1. Time(new, now + 1) = Time(old, now)
    BY <1>8, <1>12
  <2>2. QED
    BY <1>5, <1>6, <1>9, <1>12, <2>1
<1>13. QED
  BY <1>11, <1>12

(* Time passes for everybody, and nobody has begun anything.               *)
LEMMA TickWhole ==
  ASSUME Inv, TimeInv, WholeInv, Tick
  PROVE  WholeInv'
<1>1. /\ clock' = clock + 1 /\ UNCHANGED <<call, crossed>>
      /\ owed' = [u \in Users |-> IF Covered(u, clock) THEN owed[u] - 1 ELSE owed[u]]
      /\ sub' = [u \in Users |-> [i \in DOMAIN sub[u] |->
                   IF sub[u][i].to <= clock + 1 THEN Gone ELSE sub[u][i]]]
      /\ \A k \in Calls : call[k].pc = "idle"
  BY DEF Tick
<1>2. clock \in Nat /\ Plans \subseteq Nat
  BY FundingAssumption DEF TimeInv, Clocks
<1>3. ASSUME NEW u \in Users, ~crossed[u] PROVE Whole(sub[u], owed[u])'
  <2>1. PICK old, new, due : old = sub[u] /\ new = sub'[u] /\ due = owed[u]
    OBVIOUS
  <2>2. /\ old \in Seq(Rows(Plans)) /\ due \in Nat
        /\ \A i \in DOMAIN old : old[i] # Gone => old[i].to > clock
    BY <2>1 DEF TimeInv, SubsTyped
  <2>3. /\ RowsApart(old, clock) /\ RowsStacked(old, clock)
        /\ due <= Cardinality(Time(old, clock))
    BY <1>3, <2>1 DEF WholeInv, Whole
  <2>4. new = [i \in DOMAIN old |-> IF old[i].to <= clock + 1 THEN Gone ELSE old[i]]
    BY <1>1, <2>1
  <2>5. new \in Seq(Rows(Plans))
    BY <1>2, <2>2, <2>4, RowsTick
  <2>6. /\ RowsApart(new, clock + 1) /\ RowsStacked(new, clock + 1)
        /\ (IF \E i \in DOMAIN old : In(old[i], clock) THEN due - 1 ELSE due)
             <= Cardinality(Time(new, clock + 1))
    BY <1>2, <2>2, <2>3, <2>4, <2>5, RowsTickWhole
  <2>7. owed'[u] = IF \E i \in DOMAIN old : In(old[i], clock) THEN due - 1 ELSE due
    BY <1>1, <2>1 DEF Covered
  <2>8. QED
    BY <1>1, <2>1, <2>6, <2>7 DEF Whole
<1>4. \A k \in Calls : Punctual(k)'
  BY <1>1 DEF Punctual
<1>5. QED
  BY <1>1, <1>3, <1>4 DEF WholeInv

(* Orders, codes and the balance are written without subscriptions.        *)
LEMMA MoneyWhole ==
  ASSUME Inv, WholeInv, [Next]_vars,
         \/ \E o \in Orders : CreatePaymentOrder(o) \/ OrderExpires(o) \/ DeleteOrdersBefore(o)
         \/ \E c \in Codes : \/ CreateRedemptionCode(c) \/ PatchRedemptionCode(c)
                             \/ DeleteRedemptionCode(c) \/ CodeExpires(c)
                             \/ \E u \in Users : RedeemBalance(c, u)
         \/ UNCHANGED vars
  PROVE  WholeInv'
<1>1. UNCHANGED <<clock, sub, owed, crossed, call>>
  BY DEF CreatePaymentOrder, OrderExpires, DeleteOrdersBefore, CreateRedemptionCode,
         PatchRedemptionCode,
         DeleteRedemptionCode, CodeExpires, RedeemBalance, vars
<1>2. QED
  BY <1>1, CallsWhole

(* At the beginning nobody has anything and nobody is at work.             *)
LEMMA InitWhole == Init => WholeInv
<1> SUFFICES ASSUME Init PROVE WholeInv
  OBVIOUS
<1>1. \A k \in Calls : call[k].pc = "idle"
  BY IdleFields DEF Init
<1>2. \A k \in Calls : Punctual(k)
  BY <1>1 DEF Punctual
<1>3. ASSUME NEW u \in Users PROVE Whole(sub[u], owed[u])
  <2>1. PICK rows : rows = sub[u]
    OBVIOUS
  <2>2. DOMAIN rows = {} /\ owed[u] = 0
    BY <2>1 DEF Init
  <2>3. RowsApart(rows, clock) /\ RowsStacked(rows, clock)
    BY <2>2 DEF RowsApart, RowsStacked, RowsOver
  <2>4. Time(rows, clock) = {}
    BY <2>2 DEF Time
  <2>5. Cardinality({}) = 0
    BY FS_EmptySet
  <2>6. QED
    BY <2>1, <2>2, <2>3, <2>4, <2>5 DEF Whole
<1>4. crossed \in [Users -> BOOLEAN]
  BY DEF Init
<1>5. QED
  BY <1>1, <1>2, <1>3, <1>4 DEF WholeInv

(* Every step keeps whole what nobody crosses.                             *)
LEMMA StepWhole ==
  ASSUME Inv, TimeInv, WholeInv, [Next]_vars
  PROVE  WholeInv'
<1>1. ASSUME NEW k \in Calls, Paying(k) PROVE WholeInv'
  BY <1>1, QuietWhole, GrantsWhole DEF Paying
<1>2. ASSUME NEW k \in Calls, Redeeming(k) PROVE WholeInv'
  BY <1>2, QuietWhole, GrantsWhole DEF Redeeming
<1>3. ASSUME NEW k \in Calls,
             \/ Fail(k) \/ LockActive(k) \/ ReplaceSubscription(k)
             \/ \E u \in Users : Subscribe(k, u) \/ SetUserSubscription(k, u)
      PROVE  WholeInv'
  BY <1>3, QuietWhole, ReplaceWhole
<1>4. ASSUME NEW o \in Orders,
             CreatePaymentOrder(o) \/ OrderExpires(o) \/ DeleteOrdersBefore(o)
      PROVE  WholeInv'
  BY <1>4, MoneyWhole
<1>5. ASSUME NEW c \in Codes,
             \/ CreateRedemptionCode(c) \/ PatchRedemptionCode(c)
             \/ DeleteRedemptionCode(c) \/ CodeExpires(c)
             \/ \E u \in Users : RedeemBalance(c, u)
      PROVE  WholeInv'
  BY <1>5, MoneyWhole
<1>6. CASE Tick \/ UNCHANGED vars
  BY <1>6, TickWhole, MoneyWhole
<1>7. QED
  BY <1>1, <1>2, <1>3, <1>4, <1>5, <1>6 DEF Next

(* Rows one at a time, the highest first: the order of any two of them.    *)
LEMMA RowsInOrder ==
  ASSUME NEW P, P \subseteq Nat, NEW rows \in Seq(Rows(P)), NEW now \in Nat,
         RowsApart(rows, now), RowsStacked(rows, now),
         NEW i \in DOMAIN rows, rows[i] # Gone, rows[i].to > now
  PROVE  /\ \A j \in DOMAIN rows :
              rows[j] # Gone /\ rows[j].to > now /\ rows[i].from < rows[j].from =>
                rows[i].plan >= rows[j].plan
         /\ \A t \in now..rows[i].from : \E l \in DOMAIN rows : In(rows[l], t)
<1>1. \A j \in DOMAIN rows : rows[j] # Gone =>
        /\ rows[j].from \in Nat /\ rows[j].to \in Nat /\ rows[j].plan \in Nat
        /\ rows[j].from < rows[j].to
  BY RowFields
<1>2. ASSUME NEW j \in DOMAIN rows, rows[j] # Gone, rows[j].to > now,
             rows[i].from < rows[j].from
      PROVE  rows[i].plan >= rows[j].plan
  <2>1. PICK s \in Nat, t \in Nat :
          /\ s = IF now <= rows[i].from THEN rows[i].from ELSE now
          /\ t = IF now <= rows[j].from THEN rows[j].from ELSE now
    BY <1>1, <1>2
  <2>2. now <= s /\ s <= t /\ In(rows[i], s) /\ In(rows[j], t)
    BY <1>1, <1>2, <2>1 DEF In
  <2>3. rows[j].plan \in Nat
    BY <1>1, <1>2
  <2>4. RowsOver(rows, t, rows[j].plan)
    BY <2>2, <2>3 DEF RowsOver
  <2>5. RowsOver(rows, s, rows[j].plan)
    BY <2>2, <2>3, <2>4 DEF RowsStacked
  <2>6. PICK l \in DOMAIN rows : In(rows[l], s) /\ rows[l].plan >= rows[j].plan
    BY <2>5 DEF RowsOver
  <2>7. l = i
    BY <2>2, <2>6 DEF RowsApart
  <2>8. QED
    BY <2>6, <2>7
<1>3. ASSUME NEW t \in now..rows[i].from PROVE \E l \in DOMAIN rows : In(rows[l], t)
  <2>1. PICK last \in Nat : last = rows[i].from
    BY <1>1
  <2>2. t \in Nat /\ now <= t /\ t <= last
    BY <1>3, <2>1
  <2>3. RowsOver(rows, last, 0)
    BY <1>1, <2>1 DEF RowsOver, In
  <2>4. RowsOver(rows, t, 0)
    BY <2>2, <2>3 DEF RowsStacked
  <2>5. QED
    BY <2>4 DEF RowsOver
<1>4. QED
  BY <1>2, <1>3

(* What was granted is kept to the last unit, as long as no two changes of *)
(* the user's subscriptions cross: what grantSubscriptionOnTimeline cuts   *)
(* out of lower plans it puts behind the higher one, and a redemption of a *)
(* code goes where redemptionSubscriptionGrantStart found room.            *)
THEOREM EntitlementsAreKept == Spec => []EntitlementsKept
<1>1. TimeInv /\ WholeInv => EntitlementsKept
  <2> SUFFICES ASSUME TimeInv, WholeInv, NEW u \in Users, ~crossed[u]
               PROVE  TimeLeft(u) = owed[u]
    BY DEF EntitlementsKept
  <2>1. TimeLeft(u) \in Nat /\ TimeLeft(u) <= owed[u]
    BY TimeIsOwed
  <2>2. owed[u] <= TimeLeft(u) /\ owed[u] \in Nat
    BY DEF WholeInv, Whole, TimeLeft, TimeInv, SubsTyped
  <2>3. QED
    BY <2>1, <2>2
<1>2. Inv /\ TimeInv /\ WholeInv /\ [Next]_vars => (Inv /\ TimeInv /\ WholeInv)'
  BY StepKept, StepTimed, StepWhole DEF Kept, Inv
<1>3. QED
  BY <1>1, <1>2, InitHolds, InitTimed, InitWhole, PTL DEF Spec

(* The best plan that a user has is in force now, lower ones follow it,    *)
(* and no user is without a plan while one is still to come, as long as no *)
(* two changes of the user's subscriptions cross                           *)
(* (placeSubscriptionTimelineGrant, redemptionSubscriptionGrantStart).     *)
THEOREM HighestIsFirst == Spec => []HighestFirst
<1>1. TimeInv /\ WholeInv => HighestFirst
  <2> SUFFICES ASSUME TimeInv, WholeInv, NEW u \in Users, ~crossed[u], NEW i \in Live(u)
               PROVE  /\ \A j \in Live(u) : sub[u][i].from < sub[u][j].from =>
                           sub[u][i].plan >= sub[u][j].plan
                      /\ \A t \in clock..sub[u][i].from : Covered(u, t)
    BY DEF HighestFirst
  <2>1. PICK rows : rows = sub[u]
    OBVIOUS
  <2>2. /\ rows \in Seq(Rows(Plans)) /\ clock \in Nat /\ Plans \subseteq Nat
        /\ \A j \in DOMAIN rows : rows[j] # Gone => rows[j].to > clock
        /\ RowsApart(rows, clock) /\ RowsStacked(rows, clock)
    BY <2>1, FundingAssumption DEF TimeInv, SubsTyped, Clocks, WholeInv, Whole
  <2>3. i \in DOMAIN rows /\ rows[i] # Gone
    BY <2>1 DEF Live
  <2>4. /\ \A j \in DOMAIN rows :
             rows[j] # Gone /\ rows[j].to > clock /\ rows[i].from < rows[j].from =>
               rows[i].plan >= rows[j].plan
        /\ \A t \in clock..rows[i].from : \E l \in DOMAIN rows : In(rows[l], t)
    BY <2>2, <2>3, RowsInOrder
  <2>5. QED
    BY <2>1, <2>2, <2>4 DEF Live, Covered
<1>2. Inv /\ TimeInv /\ WholeInv /\ [Next]_vars => (Inv /\ TimeInv /\ WholeInv)'
  BY StepKept, StepTimed, StepWhole DEF Kept, Inv
<1>3. QED
  BY <1>1, <1>2, InitHolds, InitTimed, InitWhole, PTL DEF Spec
-----------------------------------------------------------------------------
(* What orders and codes promise.                                          *)

(* A call works for the user who has placed the order. *)
Addressed(k) ==
  call[k].pc \in {"completing", "starting", "granting"} /\ call[k].of \in Orders =>
    /\ order[call[k].of].status # "none"
    /\ order[call[k].of].user = call[k].user

(* What an order or a code was sold for never changes. *)
LEMMA RowsStand ==
  ASSUME Inv, [Next]_vars
  PROVE  /\ \A o \in Orders : order[o].status # "none" =>
              /\ order'[o].status # "none" /\ order'[o].user = order[o].user
         /\ \A c \in Codes : code[c].status # "none" => Worth(code'[c]) = Worth(code[c])
<1>1. order \in [Orders -> OrderRow] /\ code \in [Codes -> CodeRow]
  BY DEF Inv, RowsTyped
<1>2. ASSUME NEW p \in Orders, CreatePaymentOrder(p)
      PROVE  order[p].status = "none" /\ \E r : order' = [order EXCEPT ![p] = r]
  BY <1>2 DEF CreatePaymentOrder
<1>3. ASSUME NEW p \in Orders, OrderExpires(p)
      PROVE  order' = [order EXCEPT ![p].late = TRUE]
  BY <1>3 DEF OrderExpires
<1>4. ASSUME NEW k \in Calls, MarkPaidAndGrantSubscription(k) \/ MarkPaidAndCreditBalance(k)
      PROVE  order' = [order EXCEPT ![call[k].of].status = "paid"]
  BY <1>4 DEF MarkPaidAndGrantSubscription, MarkPaidAndCreditBalance, Paid
<1>5. ASSUME NEW d \in Codes, CreateRedemptionCode(d)
      PROVE  code[d].status = "none" /\ \E r : code' = [code EXCEPT ![d] = r]
  BY <1>5 DEF CreateRedemptionCode
<1>6. ASSUME NEW d \in Codes, PatchRedemptionCode(d)
      PROVE  \E max, each \in Limits, status \in {"active", "closed"} :
               code' = [code EXCEPT ![d].status = status, ![d].max = max, ![d].each = each]
  BY <1>6 DEF PatchRedemptionCode
<1>7. ASSUME NEW d \in Codes, DeleteRedemptionCode(d) \/ CodeExpires(d)
      PROVE  \E status \in {"closed", "deleted"} : code' = [code EXCEPT ![d].status = status]
  BY <1>7 DEF DeleteRedemptionCode, CodeExpires
<1>8. ASSUME NEW d, NEW u, Redeemed(d, u)
      PROVE  code' = [code EXCEPT ![d].count = @ + 1]
  BY <1>8 DEF Redeemed
<1>9. \/ UNCHANGED order
      \/ \E p \in Orders : \/ CreatePaymentOrder(p) \/ OrderExpires(p)
                           \/ DeleteOrdersBefore(p)
      \/ \E k \in Calls : MarkPaidAndGrantSubscription(k) \/ MarkPaidAndCreditBalance(k)
  BY DEF Next, vars, Tick, Paying, Redeeming, CreateRedemptionCode, PatchRedemptionCode,
         DeleteRedemptionCode, CodeExpires, RedeemBalance, ApplyRedemption,
         CompletePaymentOrder, RefusePayment, LockOrder, RedeemSubscription, LockTimeline,
         Fail, LockActive, ReplaceSubscription, Subscribe, SetUserSubscription
<1>10. \/ UNCHANGED code
       \/ \E d \in Codes : \/ CreateRedemptionCode(d) \/ PatchRedemptionCode(d)
                           \/ DeleteRedemptionCode(d) \/ CodeExpires(d)
       \/ \E d, u : Redeemed(d, u)
  BY DEF Next, vars, Tick, Paying, Redeeming, CreatePaymentOrder, OrderExpires,
         DeleteOrdersBefore, RedeemBalance, ApplyRedemption, MarkPaidAndCreditBalance,
         MarkPaidAndGrantSubscription, CompletePaymentOrder, RefusePayment, LockOrder,
         RedeemSubscription, LockTimeline, Fail, LockActive, ReplaceSubscription, Subscribe,
         SetUserSubscription
<1>11. ASSUME NEW o \in Orders, order[o].status # "none"
       PROVE  order'[o].status # "none" /\ order'[o].user = order[o].user
  <2>1. order[o] \in OrderRow
    BY <1>1
  <2>2. CASE \E p \in Orders : CreatePaymentOrder(p)
    BY <1>1, <1>2, <1>11, <2>2
  <2>3. ASSUME NEW p \in Orders, OrderExpires(p)
        PROVE  order'[o].status # "none" /\ order'[o].user = order[o].user
    BY <1>1, <1>3, <1>11, <2>1, <2>3 DEF OrderRow
  <2>4. ASSUME NEW k \in Calls, MarkPaidAndGrantSubscription(k) \/ MarkPaidAndCreditBalance(k)
        PROVE  order'[o].status # "none" /\ order'[o].user = order[o].user
    <3>1. PICK p : p = call[k].of /\ order' = [order EXCEPT ![p].status = "paid"]
      BY <1>4, <2>4
    <3>2. CASE p = o
      BY <1>1, <2>1, <3>1, <3>2 DEF OrderRow
    <3>3. CASE p # o
      BY <1>1, <1>11, <3>1, <3>3
    <3>4. QED
      BY <3>2, <3>3
  <2>5. CASE \E p \in Orders : DeleteOrdersBefore(p)
    BY <1>11, <2>5, OrdersDeleted DEF Inv
  <2>6. CASE UNCHANGED order
    BY <1>11, <2>6
  <2>7. QED
    BY <1>9, <2>2, <2>3, <2>4, <2>5, <2>6
<1>12. ASSUME NEW c \in Codes, code[c].status # "none"
       PROVE  /\ code'[c].status # "none" /\ code'[c].kind = code[c].kind
              /\ code'[c].long = code[c].long
  <2>1. code[c] \in CodeRow
    BY <1>1
  <2>2. CASE \E d \in Codes : CreateRedemptionCode(d)
    BY <1>1, <1>5, <1>12, <2>2
  <2>3. ASSUME NEW d \in Codes, PatchRedemptionCode(d)
        PROVE  /\ code'[c].status # "none" /\ code'[c].kind = code[c].kind
               /\ code'[c].long = code[c].long
    <3>1. PICK max \in Limits, each \in Limits, status \in {"active", "closed"} :
            code' = [code EXCEPT ![d].status = status, ![d].max = max, ![d].each = each]
      BY <1>6, <2>3
    <3>2. QED
      BY <1>1, <1>12, <2>1, <3>1 DEF CodeRow
  <2>4. CASE \E d \in Codes : DeleteRedemptionCode(d) \/ CodeExpires(d)
    BY <1>1, <1>7, <1>12, <2>1, <2>4 DEF CodeRow
  <2>5. CASE \E d, u : Redeemed(d, u)
    BY <1>1, <1>8, <1>12, <2>1, <2>5 DEF CodeRow
  <2>6. CASE UNCHANGED code
    BY <1>12, <2>6
  <2>7. QED
    BY <1>10, <2>2, <2>3, <2>4, <2>5, <2>6
<1>13. QED
  BY <1>11, <1>12 DEF Worth

LEMMA StillAddressed ==
  ASSUME Inv, [Next]_vars, NEW k \in Calls, Addressed(k)
  PROVE  Addressed(k)'
<1>0. CallsTyped
  BY DEF Inv
<1>1. ASSUME call'[k].of = call[k].of, call'[k].user = call[k].user,
             call[k].pc \in {"completing", "starting", "granting"} \/ call'[k].pc = call[k].pc
      PROVE  Addressed(k)'
  BY <1>1, RowsStand DEF Addressed
<1>2. ASSUME NEW l \in Calls, Others(l), l # k PROVE Addressed(k)'
  BY <1>1, <1>2 DEF Others
<1>3. ASSUME NEW l \in Calls, Return(l) PROVE Addressed(k)'
  <2>1. Others(l) /\ call'[l].pc = "idle"
    BY <1>0, <1>3, ReturnAt
  <2>2. QED
    BY <1>2, <2>1 DEF Addressed
<1>4. ASSUME NEW l \in Calls, LockOrder(l) \/ LockTimeline(l) \/ LockActive(l)
      PROVE  Addressed(k)'
  <2>1. PICK pc, seen : /\ call' = [call EXCEPT ![l].pc = pc, ![l].seen = seen]
                        /\ pc = "expiring" \/ call[l].pc \in {"completing", "starting"}
    BY <1>4 DEF LockOrder, LockTimeline, LockActive
  <2>2. /\ Others(l) /\ call'[l].pc = pc
        /\ call'[l].of = call[l].of /\ call'[l].user = call[l].user
    BY <1>0, <2>1, SeenAt
  <2>3. CASE l = k /\ pc = "expiring"
    BY <2>2, <2>3 DEF Addressed
  <2>4. QED
    BY <1>1, <1>2, <2>1, <2>2, <2>3
<1>5. ASSUME NEW l \in Calls, NEW o \in Orders, CompletePaymentOrder(l, o)
      PROVE  Addressed(k)'
  <2>1. /\ Others(l) /\ call'[l].of = o /\ call'[l].user = order[o].user
        /\ order[o].status # "none"
    BY <1>0, <1>5, WebhookAt DEF CompletePaymentOrder
  <2>2. QED
    BY <1>2, <2>1, RowsStand DEF Addressed
<1>6. ASSUME NEW l \in Calls, NEW c \in Codes, NEW u \in Users, RedeemSubscription(l, c, u)
      PROVE  Addressed(k)'
  <2>1. Others(l) /\ call'[l].of = c
    BY <1>0, <1>6, RedemptionAt
  <2>2. QED
    BY <1>2, <2>1, FundingAssumption DEF Addressed
<1>7. ASSUME NEW l \in Calls, NEW u \in Users, Subscribe(l, u) \/ SetUserSubscription(l, u)
      PROVE  Addressed(k)'
  <2>1. PICK row : Change(l, u, row)
    BY <1>7 DEF Subscribe, SetUserSubscription
  <2>2. Others(l) /\ call'[l].pc = "replacing"
    BY ONLY <1>0, <1>7, <2>1, ChangeAt
  <2>3. QED
    BY <1>2, <2>2 DEF Addressed
<1>8. CASE UNCHANGED call
  BY <1>1, <1>8
<1>9. \/ UNCHANGED call
      \/ \E l \in Calls :
           \/ Return(l) \/ LockOrder(l) \/ LockTimeline(l) \/ LockActive(l)
           \/ \E o \in Orders : CompletePaymentOrder(l, o)
           \/ \E c \in Codes, u \in Users : RedeemSubscription(l, c, u)
           \/ \E u \in Users : Subscribe(l, u) \/ SetUserSubscription(l, u)
  BY DEF Next, vars, Tick, Paying, Redeeming, CreatePaymentOrder, OrderExpires,
         DeleteOrdersBefore, CreateRedemptionCode, PatchRedemptionCode, DeleteRedemptionCode, CodeExpires,
         RedeemBalance, RefusePayment, MarkPaidAndCreditBalance,
         MarkPaidAndGrantSubscription, ApplyRedemption, Fail, ReplaceSubscription
<1>10. QED
  BY <1>3, <1>4, <1>5, <1>6, <1>7, <1>8, <1>9

PromiseInv ==
  Inv /\ TimeInv /\ WholeInv /\ \A k \in Calls : Addressed(k)

LEMMA InitPromised == Init => PromiseInv
<1> SUFFICES ASSUME Init PROVE PromiseInv
  OBVIOUS
<1>1. \A k \in Calls : call[k].pc = "idle"
  BY IdleFields DEF Init
<1>2. QED
  BY <1>1, InitHolds, InitTimed, InitWhole DEF PromiseInv, Addressed

LEMMA StepPromised == PromiseInv /\ [Next]_vars => PromiseInv'
  BY StepKept, StepTimed, StepWhole, StillAddressed DEF Kept, Inv, PromiseInv

LEMMA KeptWhole == PromiseInv => EntitlementsKept
<1> SUFFICES ASSUME PromiseInv, NEW u \in Users, ~crossed[u] PROVE TimeLeft(u) = owed[u]
  BY DEF EntitlementsKept
<1>1. TimeLeft(u) \in Nat /\ TimeLeft(u) <= owed[u]
  BY TimeIsOwed DEF PromiseInv
<1>2. owed[u] <= TimeLeft(u) /\ owed[u] \in Nat
  BY DEF PromiseInv, WholeInv, Whole, TimeLeft, TimeInv, SubsTyped
<1>3. QED
  BY <1>1, <1>2

LEMMA KeptWholeNext == PromiseInv' => EntitlementsKept'
  BY KeptWhole, PTL

(* The time that is left to users, as far as it is accounted for.          *)
Accounted == [u \in Users |-> IF crossed[u] THEN 0 ELSE owed[u]]

LEMMA RemainingIsDue ==
  ASSUME PromiseInv, PromiseInv'
  PROVE  Remaining = Accounted /\ Remaining' = Accounted'
<1>1. EntitlementsKept /\ EntitlementsKept'
  BY KeptWhole, KeptWholeNext
<1>2. QED
  BY <1>1 DEF EntitlementsKept, Remaining, Accounted, TimeLeft

Stutter == UNCHANGED <<Purchases, Offers, redeemed, balance, Remaining, Unsettled>>

LEMMA TimeUnseen ==
  ASSUME UNCHANGED <<clock, sub, crossed>>
  PROVE  UNCHANGED <<Remaining, Unsettled>>
BY DEF Remaining, Unsettled, TimeLeft

LEMMA CodesUnseen ==
  ASSUME Inv, [Next]_vars, \A c \in Codes : code[c].status = "none" => code'[c] = code[c]
  PROVE  UNCHANGED Offers
<1>1. \A c \in Codes : Worth(code'[c]) = Worth(code[c])
  BY RowsStand
<1>2. QED
  BY <1>1 DEF Offers

(* What calls read and lock, and what becomes of an order or of a code     *)
(* that is not fulfilled.                                                  *)
LEMMA QuietUnseen ==
  ASSUME Inv, [Next]_vars,
         \/ \E k \in Calls :
              \/ RefusePayment(k) \/ LockOrder(k) \/ LockTimeline(k) \/ LockActive(k)
              \/ Fail(k)
              \/ \E o \in Orders : CompletePaymentOrder(k, o)
              \/ \E c \in Codes, u \in Users : RedeemSubscription(k, c, u)
              \/ \E u \in Users : Subscribe(k, u) \/ SetUserSubscription(k, u)
         \/ \E o \in Orders : OrderExpires(o) \/ DeleteOrdersBefore(o)
         \/ \E c \in Codes : \/ PatchRedemptionCode(c) \/ DeleteRedemptionCode(c)
                             \/ CodeExpires(c)
         \/ UNCHANGED vars
  PROVE  Stutter
<1>1. UNCHANGED <<clock, sub, crossed, balance, redeemed>>
  BY DEF RefusePayment, LockOrder, LockTimeline, LockActive, Fail, CompletePaymentOrder,
         RedeemSubscription, Subscribe, SetUserSubscription, OrderExpires,
         DeleteOrdersBefore, PatchRedemptionCode, DeleteRedemptionCode, CodeExpires, vars
<1>2. order \in [Orders -> OrderRow] /\ code \in [Codes -> CodeRow]
  BY DEF Inv, RowsTyped
<1>3. Purchases' = Purchases
  <2>1. CASE UNCHANGED order
    BY <2>1 DEF Purchases
  <2>2. ASSUME NEW p \in Orders, OrderExpires(p) PROVE Purchases' = Purchases
    <3>1. order' = [order EXCEPT ![p].late = TRUE]
      BY <2>2 DEF OrderExpires
    <3>2. ASSUME NEW o \in Orders
          PROVE  /\ order'[o].status = order[o].status /\ order'[o].user = order[o].user
                 /\ order'[o].kind = order[o].kind /\ order'[o].long = order[o].long
      <4>1. order[o] \in OrderRow
        BY <1>2
      <4>2. QED
        BY <1>2, <3>1, <4>1 DEF OrderRow
    <3>3. QED
      BY <3>2 DEF Purchases, Worth
  <2>3. ASSUME NEW p \in Orders, DeleteOrdersBefore(p) PROVE Purchases' = Purchases
    BY <2>3, OrdersDeleted DEF Inv, Purchases, Worth
  <2>4. QED
    BY <2>1, <2>2, <2>3 DEF RefusePayment, LockOrder, LockTimeline, LockActive, Fail,
       CompletePaymentOrder, RedeemSubscription, Subscribe, SetUserSubscription,
       PatchRedemptionCode, DeleteRedemptionCode, CodeExpires, vars
<1>4. Offers' = Offers
  <2>1. ASSUME NEW d \in Codes, code[d].status # "none", \E r : code' = [code EXCEPT ![d] = r]
        PROVE  Offers' = Offers
    BY <1>2, <2>1, CodesUnseen
  <2>2. ASSUME NEW d \in Codes,
               PatchRedemptionCode(d) \/ DeleteRedemptionCode(d) \/ CodeExpires(d)
        PROVE  Offers' = Offers
    <3>1. \E r : code' = [code EXCEPT ![d] = r]
      BY <2>2 DEF PatchRedemptionCode, DeleteRedemptionCode, CodeExpires
    <3>2. code[d].status # "none"
      BY <2>2 DEF PatchRedemptionCode, DeleteRedemptionCode, CodeExpires
    <3>3. QED
      BY <2>1, <3>1, <3>2
  <2>3. CASE UNCHANGED code
    BY <2>3 DEF Offers
  <2>4. QED
    BY <2>2, <2>3 DEF RefusePayment, LockOrder, LockTimeline, LockActive, Fail,
       CompletePaymentOrder, RedeemSubscription, Subscribe, SetUserSubscription, OrderExpires,
       DeleteOrdersBefore, vars
<1>5. QED
  BY <1>1, <1>3, <1>4, TimeUnseen DEF Stutter

LEMMA PlaceSeen ==
  ASSUME Inv, NEW o \in Orders, CreatePaymentOrder(o)
  PROVE  Promised!Place(o)
<1>1. PICK u \in Users, kind \in Kinds : \E long \in Long(kind) :
        order' = [order EXCEPT ![o] = [status |-> "pending", user |-> u, kind |-> kind,
                                       long |-> long, late |-> FALSE,
                                       nr |-> Cardinality(Placed), gone |-> FALSE]]
  BY DEF CreatePaymentOrder
<1>2. order'[o].status = "pending" /\ \A p \in Orders : p # o => order'[p] = order[p]
  BY <1>1 DEF Inv, RowsTyped
<1>3. /\ Purchases[o].status = "none" /\ Purchases'[o].status = "pending"
      /\ \A p \in Orders \ {o} : Purchases'[p] = Purchases[p]
  BY <1>2 DEF CreatePaymentOrder, Purchases
<1>4. UNCHANGED <<Offers, redeemed, balance, Remaining, Unsettled>>
  BY TimeUnseen DEF CreatePaymentOrder, Offers
<1>5. QED
  BY <1>3, <1>4 DEF Promised!Place

LEMMA IssueSeen ==
  ASSUME Inv, NEW c \in Codes, CreateRedemptionCode(c)
  PROVE  Promised!Issue(c)
<1>1. PICK kind \in Kinds, max \in Limits, each \in Limits : \E long \in Long(kind) :
        code' = [code EXCEPT ![c] =
          [status |-> "active", kind |-> kind, long |-> long, max |-> max,
           each |-> Max({each, 1}), count |-> 0]]
  BY Zenon DEF CreateRedemptionCode
<1>2. code'[c].status = "active" /\ \A d \in Codes : d # c => code'[d] = code[d]
  BY <1>1 DEF Inv, RowsTyped
<1>3. /\ ~Offers[c].issued /\ Offers'[c].issued
      /\ \A d \in Codes \ {c} : Offers'[d] = Offers[d]
  BY <1>2 DEF CreateRedemptionCode, Offers, Worth
<1>4. UNCHANGED <<Purchases, redeemed, balance, Remaining, Unsettled>>
  BY TimeUnseen DEF CreateRedemptionCode, Purchases
<1>5. QED
  BY <1>3, <1>4 DEF Promised!Issue

(* The time of one user is written. *)
LEMMA SetTimeSeen ==
  ASSUME PromiseInv, NEW u \in Users, NEW others, Crosses(u, others), NEW left,
         \A v \in Users : v # u => Remaining'[v] = IF crossed'[v] THEN 0 ELSE Remaining[v],
         ~crossed'[u] => Remaining'[u] = left
  PROVE  Promised!SetTime(u, left)
<1>1. PICK b \in BOOLEAN : crossed' = [crossed EXCEPT ![u] = crossed[u] \/ b]
  <2>1. PICK b : b = \E k \in others :
                       call[k].pc \in {"starting", "granting", "replacing", "expiring"}
                       /\ call[k].user = u
    OBVIOUS
  <2>2. b \in BOOLEAN /\ crossed' = [crossed EXCEPT ![u] = crossed[u] \/ b]
    BY <2>1 DEF Crosses, PromiseInv, WholeInv
  <2>3. QED
    BY <2>2
<1>2. crossed \in [Users -> BOOLEAN]
  BY DEF PromiseInv, WholeInv
<1>3. /\ crossed'[u] = (crossed[u] \/ b)
      /\ \A v \in Users : v # u => crossed'[v] = crossed[v]
  BY <1>1, <1>2
<1>4. Unsettled' \in {Unsettled, Unsettled \cup {u}}
  <2>1. Unsettled' = IF crossed[u] \/ b THEN Unsettled \cup {u} ELSE Unsettled
    BY <1>2, <1>3 DEF Unsettled
  <2>2. QED
    BY <2>1
<1>5. u \in Unsettled' <=> crossed'[u]
  BY DEF Unsettled
<1>6. /\ \A v \in Users : v # u => Remaining'[v] = Remaining[v]
      /\ Remaining'[u] = IF crossed'[u] THEN 0 ELSE left
  <2>1. \A v \in Users : (crossed'[v] => Remaining'[v] = 0) /\ (crossed[v] => Remaining[v] = 0)
    BY DEF Remaining, TimeLeft
  <2>2. QED
    BY <1>3, <2>1
<1>7. Remaining' = [Remaining EXCEPT ![u] = IF u \in Unsettled' THEN 0 ELSE left]
  <2>1. Remaining = [v \in Users |-> Remaining[v]] /\ Remaining' = [v \in Users |-> Remaining'[v]]
    BY DEF Remaining, TimeLeft
  <2> HIDE DEF Remaining
  <2>2. QED
    BY <1>5, <1>6, <2>1
<1>8. QED
  BY <1>4, <1>7 DEF Promised!SetTime

(* A grant is an addition to what the user has left. *)
LEMMA GrantSeen ==
  ASSUME PromiseInv, PromiseInv', NEW k \in Calls, NEW kind, NEW long,
         Grant(k, kind, long, long), call[k].user \in Users
  PROVE  Promised!SetTime(call[k].user, Remaining[call[k].user] + long)
<1>1. PICK u \in Users : u = call[k].user
  OBVIOUS
<1>2. owed' = [owed EXCEPT ![u] = owed[u] + long] /\ Crosses(u, Calls \ {k})
  BY <1>1 DEF Grant, PromiseInv, TimeInv, SubsTyped
<1>3. owed'[u] = owed[u] + long /\ \A v \in Users : v # u => owed'[v] = owed[v]
  BY <1>2 DEF PromiseInv, TimeInv, SubsTyped
<1>4. \A v \in Users : /\ crossed'[v] = crossed[v] \/ v = u
                       /\ crossed[v] => crossed'[v]
  BY <1>2 DEF Crosses, PromiseInv, WholeInv
<1>5. /\ \A v \in Users : v # u => Remaining'[v] = IF crossed'[v] THEN 0 ELSE Remaining[v]
      /\ ~crossed'[u] => Remaining'[u] = Remaining[u] + long
  BY <1>3, <1>4, RemainingIsDue DEF Accounted
<1>6. QED
  BY <1>1, <1>2, <1>5, SetTimeSeen

LEMMA PaidSeen ==
  ASSUME Inv, NEW o \in Orders, order[o].status = "pending", Paid(o)
  PROVE  /\ Purchases[o].status = "pending" /\ Purchases[o].user = order[o].user
         /\ Purchases[o].worth = Worth(order[o])
         /\ Purchases' = [Purchases EXCEPT ![o].status = "paid"]
<1>1. order \in [Orders -> OrderRow] /\ order[o] \in OrderRow
  BY DEF Inv, RowsTyped
<1>2. /\ order'[o].status = "paid" /\ order'[o].user = order[o].user
      /\ order'[o].kind = order[o].kind /\ order'[o].long = order[o].long
      /\ \A p \in Orders : p # o => order'[p] = order[p]
  BY <1>1 DEF Paid, OrderRow
<1>3. Worth(order'[o]) = Worth(order[o])
  BY <1>1, <1>2 DEF Worth
<1>4. /\ \A p \in Orders : p # o => Purchases'[p] = Purchases[p]
      /\ Purchases'[o] = [status |-> "paid", user |-> order[o].user, worth |-> Worth(order[o])]
      /\ Purchases[o] = [status |-> order[o].status, user |-> order[o].user,
                         worth |-> Worth(order[o])]
  BY <1>2, <1>3 DEF Purchases
<1>5. /\ Purchases = [p \in Orders |-> Purchases[p]]
      /\ Purchases' = [p \in Orders |-> Purchases'[p]]
  BY DEF Purchases
<1> HIDE DEF Purchases, Worth
<1>6. Purchases' = [Purchases EXCEPT ![o].status = "paid"]
  BY <1>4, <1>5
<1>7. QED
  BY <1>4, <1>6

LEMMA TopUpSeen ==
  ASSUME Inv, NEW k \in Calls, MarkPaidAndCreditBalance(k)
  PROVE  \E o \in Orders : Promised!Fulfil(o)
<1>1. PICK o \in Orders : o = call[k].of
  BY DEF MarkPaidAndCreditBalance, Inv, LockInv, CallKnows
<1>2. /\ UNCHANGED <<clock, sub, code, redeemed, crossed>> /\ Paid(o)
      /\ order[o].status = "pending" /\ order[o].kind = TopUp
      /\ balance' = [balance EXCEPT ![order[o].user] = @ + 1]
  BY <1>1 DEF MarkPaidAndCreditBalance, Payable
<1>3. Worth(order[o]).credit = 1
  BY <1>2 DEF Worth
<1>4. Promised!Give(Purchases[o].user, Purchases[o].worth)
  <2>1. UNCHANGED <<Remaining, Unsettled>>
    BY <1>2, TimeUnseen
  <2>2. PICK u, worth : u = Purchases[o].user /\ worth = Purchases[o].worth
    OBVIOUS
  <2>3. u = order[o].user /\ worth.credit = 1
    BY <1>2, <1>3, <2>2, PaidSeen
  <2>4. balance' = [balance EXCEPT ![u] = @ + worth.credit] /\ worth.credit > 0
    BY <1>2, <2>3
  <2>5. Promised!Give(u, worth)
    BY <2>1, <2>4 DEF Promised!Give
  <2>6. QED
    BY <2>2, <2>5
<1>5. UNCHANGED <<Offers, redeemed>>
  BY <1>2 DEF Offers
<1>6. QED
  BY <1>2, <1>4, <1>5, PaidSeen DEF Promised!Fulfil

LEMMA PaymentSeen ==
  ASSUME PromiseInv, PromiseInv', NEW k \in Calls, MarkPaidAndGrantSubscription(k)
  PROVE  \E o \in Orders : Promised!Fulfil(o)
<1>1. PICK o \in Orders : o = call[k].of
  BY DEF MarkPaidAndGrantSubscription
<1>2. /\ UNCHANGED <<balance, code, redeemed>> /\ Paid(o) /\ call[k].pc = "granting"
      /\ Grant(k, order[o].kind, order[o].long,
               IF order[o].status = "paid" THEN 0 ELSE order[o].long)
  BY <1>1 DEF MarkPaidAndGrantSubscription
<1>3. order[o].status = "pending" /\ order[o].kind # TopUp
  BY <1>1, <1>2, FundingAssumption DEF PromiseInv, Inv, LockInv, CallKnows
<1>4. order[o].user = call[k].user /\ order[o].user \in Users
  <2>1. Addressed(k) /\ RowsTyped
    BY DEF PromiseInv, Inv
  <2>2. QED
    BY <1>1, <1>2, <1>3, <2>1 DEF Addressed, RowsTyped
<1>5. Worth(order[o]).credit = 0 /\ Worth(order[o]).time = order[o].long
  BY <1>3 DEF Worth
<1>6. Promised!SetTime(order[o].user, Remaining[order[o].user] + order[o].long)
  BY <1>2, <1>3, <1>4, GrantSeen
<1>7. /\ Purchases[o].status = "pending" /\ Purchases[o].user = order[o].user
      /\ Purchases[o].worth = Worth(order[o])
      /\ Purchases' = [Purchases EXCEPT ![o].status = "paid"]
  BY <1>2, <1>3, PaidSeen DEF PromiseInv
<1>8. Promised!Give(Purchases[o].user, Purchases[o].worth)
  BY <1>2, <1>5, <1>6, <1>7 DEF Promised!Give
<1>9. UNCHANGED <<Offers, redeemed>>
  BY <1>2 DEF Offers
<1>10. QED
  BY <1>7, <1>8, <1>9 DEF Promised!Fulfil

LEMMA RedemptionSeen ==
  ASSUME PromiseInv, PromiseInv', [Next]_vars,
         \/ \E c \in Codes, u \in Users : RedeemBalance(c, u)
         \/ \E k \in Calls : ApplyRedemption(k)
  PROVE  \E c \in Codes, u \in Users : Promised!Redeem(c, u)
<1>1. ASSUME NEW c \in Codes, NEW u \in Users, Redeemed(c, u), code[c].status = "active",
             UNCHANGED order, Promised!Give(u, Worth(code[c]))
      PROVE  Promised!Redeem(c, u)
  <2>1. \A d \in Codes : d # c => code'[d] = code[d]
    BY <1>1 DEF PromiseInv, Inv, RowsTyped, Redeemed
  <2>2. UNCHANGED Offers
    BY <1>1, <2>1, CodesUnseen DEF PromiseInv
  <2>3. Offers[c] = Worth(code[c]) /\ Worth(code[c]).issued
    BY <1>1 DEF Offers, Worth
  <2>4. redeemed' = [redeemed EXCEPT ![c][u] = @ + 1] /\ UNCHANGED Purchases
    BY <1>1 DEF Redeemed, Purchases
  <2>5. QED
    BY <1>1, <2>2, <2>3, <2>4 DEF Promised!Redeem
<1>2. ASSUME NEW c \in Codes, NEW u \in Users, RedeemBalance(c, u)
      PROVE  Promised!Redeem(c, u)
  <2>1. /\ Redeemed(c, u) /\ code[c].status = "active" /\ code[c].kind = TopUp
        /\ balance' = [balance EXCEPT ![u] = @ + 1] /\ UNCHANGED <<clock, sub, crossed, order>>
    BY <1>2 DEF RedeemBalance, Redeemable
  <2>2. Worth(code[c]).credit = 1
    BY <2>1 DEF Worth
  <2>3. Promised!Give(u, Worth(code[c]))
    BY <2>1, <2>2, TimeUnseen DEF Promised!Give
  <2>4. QED
    BY <1>1, <2>1, <2>3
<1>3. ASSUME NEW k \in Calls, ApplyRedemption(k)
      PROVE  \E c \in Codes, u \in Users : Promised!Redeem(c, u)
  <2>1. PICK c \in Codes : c = call[k].of
    BY <1>3 DEF ApplyRedemption
  <2>2. PICK u : u = call[k].user
    OBVIOUS
  <2>3. /\ UNCHANGED <<balance, order>> /\ Redeemed(c, u) /\ call[k].pc = "granting"
        /\ Grant(k, code[c].kind, code[c].long, code[c].long)
    BY <1>3, <2>1, <2>2 DEF ApplyRedemption
  <2>4. u \in Users /\ code[c].status = "active" /\ code[c].kind # TopUp
    BY <2>1, <2>2, <2>3, FundingAssumption DEF PromiseInv, Inv, LockInv, CallKnows, InForce
  <2>5. Worth(code[c]).credit = 0 /\ Worth(code[c]).time = code[c].long
    BY <2>4 DEF Worth
  <2>6. Promised!SetTime(u, Remaining[u] + code[c].long)
    BY <2>2, <2>3, <2>4, GrantSeen
  <2>7. Promised!Give(u, Worth(code[c]))
    BY <2>3, <2>5, <2>6 DEF Promised!Give
  <2>8. Promised!Redeem(c, u)
    BY <1>1, <2>3, <2>4, <2>7
  <2>9. QED
    BY <2>4, <2>8
<1>4. QED
  BY <1>2, <1>3

(* What is owed after a replacement that no other change crossed.          *)
LEMMA ReplacedOwed ==
  ASSUME TimeInv, WholeInv, NEW k \in Calls, ReplaceSubscription(k),
         NEW u \in Users, u = call[k].user, ~crossed[u]
  PROVE  owed'[u] \in Durations \cup {0}
<1>1. PICK row, old, seen : row = call[k].give /\ old = sub[u] /\ seen = call[k].seen
  OBVIOUS
<1>2. PICK left : left = Unseen(old, seen)
  OBVIOUS
<1>3. /\ call[k].pc = "expiring"
      /\ owed'[u] = row.to - row.from + Total(DOMAIN left, RowTime(left, clock))
  BY <1>1, <1>2 DEF ReplaceSubscription, TimeInv, SubsTyped, Unseen
<1>4. /\ old \in Seq(Rows(Plans)) /\ clock \in Nat
      /\ \A i \in DOMAIN old : old[i] # Gone => old[i].to > clock
  BY <1>1, FundingAssumption DEF TimeInv, SubsTyped, Clocks
<1>5. Entitled(old, clock) \subseteq seen
  BY <1>1, <1>3 DEF WholeInv, Informed
<1>6. Total(DOMAIN left, RowTime(left, clock)) = 0
  BY <1>2, <1>4, <1>5, NothingLeft
<1>7. Given(row)
  BY <1>1, <1>3 DEF TimeInv, CallTimed
<1>8. row.to - row.from \in Durations \cup {0} /\ row.to - row.from \in Int
  BY <1>7, FundingAssumption DEF Given, Gone
<1>9. QED
  BY <1>3, <1>6, <1>8

LEMMA ReplaceSeen ==
  ASSUME PromiseInv, PromiseInv', NEW k \in Calls, ReplaceSubscription(k)
  PROVE  \E u \in Users : Promised!Replace(u)
<1>1. PICK u \in Users : u = call[k].user
  BY DEF PromiseInv, TimeInv, CallTimed, ReplaceSubscription
<1>2. /\ Crosses(u, Calls \ {k}) /\ UNCHANGED <<clock, balance, order, code, redeemed>>
      /\ \E rows : sub' = [sub EXCEPT ![u] = rows]
  BY <1>1 DEF ReplaceSubscription
<1>3. /\ \A v \in Users : v # u => sub'[v] = sub[v]
      /\ \A v \in Users : v # u => crossed'[v] = crossed[v]
  BY <1>2 DEF Crosses, PromiseInv, TimeInv, SubsTyped, WholeInv
<1>4. \A v \in Users : v # u => Remaining'[v] = IF crossed'[v] THEN 0 ELSE Remaining[v]
  BY <1>2, <1>3 DEF Remaining, TimeLeft
<1>5. \E left \in Durations \cup {0} : ~crossed'[u] => Remaining'[u] = left
  <2>1. CASE crossed'[u]
    BY <2>1
  <2>2. CASE ~crossed'[u]
    <3>1. ~crossed[u]
      BY <1>2, <2>2 DEF Crosses, PromiseInv, WholeInv
    <3>2. Remaining'[u] = owed'[u]
      BY <2>2, RemainingIsDue DEF Accounted
    <3>3. owed'[u] \in Durations \cup {0}
      BY <1>1, <3>1, ReplacedOwed DEF PromiseInv
    <3>4. QED
      BY <3>2, <3>3
  <2>3. QED
    BY <2>1, <2>2
<1>6. \E left \in Durations \cup {0} : Promised!SetTime(u, left)
  BY <1>2, <1>4, <1>5, SetTimeSeen
<1>7. UNCHANGED <<Purchases, Offers>>
  BY <1>2 DEF Purchases, Offers
<1>8. Promised!Replace(u)
  BY <1>2, <1>6, <1>7 DEF Promised!Replace, Promised!records
<1>9. QED
  BY <1>8

(* While time is left to a user, the user has a plan now. *)
LEMMA CoveredWhileLeft ==
  ASSUME PromiseInv, NEW u \in Users, ~crossed[u]
  PROVE  owed[u] \in Nat /\ (Covered(u, clock) <=> owed[u] > 0)
<1>1. PICK rows : rows = sub[u]
  OBVIOUS
<1>2. /\ rows \in Seq(Rows(Plans)) /\ clock \in Nat /\ Plans \subseteq Nat
      /\ RowsStacked(rows, clock)
  BY <1>1, FundingAssumption DEF PromiseInv, TimeInv, SubsTyped, Clocks, WholeInv, Whole
<1>3. owed[u] = Cardinality(RowMoments(rows, clock)) /\ IsFiniteSet(RowMoments(rows, clock))
  BY <1>1, <1>2, KeptWhole, TimeIs, RowMomentsFinite DEF EntitlementsKept, TimeLeft
<1>4. \A i \in DOMAIN rows : rows[i].plan \in Nat
  <2> TAKE i \in DOMAIN rows
  <2>1. CASE rows[i] = Gone
    BY <2>1 DEF Gone
  <2>2. CASE rows[i] # Gone
    BY <1>2, <2>2, RowFields
  <2>3. QED
    BY <2>1, <2>2
<1>5. Covered(u, clock) <=> RowsOver(rows, clock, 0)
  BY <1>1, <1>4 DEF Covered, RowsOver
<1>6. RowsOver(rows, clock, 0) <=> clock \in RowMoments(rows, clock)
  BY <1>2 DEF RowMoments
<1>7. RowMoments(rows, clock) # {} => RowsOver(rows, clock, 0)
  BY <1>2 DEF RowMoments, RowsStacked
<1>8. /\ owed[u] \in Nat
      /\ owed[u] = 0 <=> RowMoments(rows, clock) = {}
  BY <1>3, FS_CardinalityType, FS_EmptySet
<1>9. QED
  BY <1>5, <1>6, <1>7, <1>8

LEMMA TickSeen ==
  ASSUME PromiseInv, PromiseInv', Tick
  PROVE  Promised!Elapse
<1>1. /\ UNCHANGED <<balance, order, code, redeemed, crossed>>
      /\ \A u \in Users : owed'[u] = IF Covered(u, clock) THEN owed[u] - 1 ELSE owed[u]
  BY DEF Tick
<1>2. UNCHANGED <<Purchases, Offers, Unsettled>>
  BY <1>1 DEF Purchases, Offers, Unsettled
<1>3. ASSUME NEW u \in Users
      PROVE  Remaining'[u] = IF Remaining[u] > 0 THEN Remaining[u] - 1 ELSE 0
  <2>1. Remaining[u] = Accounted[u] /\ Remaining'[u] = Accounted'[u]
    BY RemainingIsDue
  <2>2. CASE crossed[u]
    BY <1>1, <2>1, <2>2 DEF Accounted
  <2>3. CASE ~crossed[u]
    <3>1. Remaining[u] = owed[u] /\ Remaining'[u] = owed'[u]
      BY <1>1, <2>1, <2>3 DEF Accounted
    <3>2. QED
      BY <1>1, <2>3, <3>1, CoveredWhileLeft
  <2>4. QED
    BY <2>2, <2>3
<1>4. Remaining' = [u \in Users |-> IF Remaining[u] > 0 THEN Remaining[u] - 1 ELSE 0]
  <2>1. Remaining' = [u \in Users |-> Remaining'[u]]
    BY DEF Remaining, TimeLeft
  <2> HIDE DEF Remaining
  <2>2. QED
    BY <1>3, <2>1
<1>5. QED
  BY <1>1, <1>2, <1>4 DEF Promised!Elapse, Promised!records

LEMMA StepHonoured ==
  ASSUME PromiseInv, PromiseInv', [Next]_vars
  PROVE  Promised!Next \/ Stutter
<1>0. Inv
  BY DEF PromiseInv
<1>1. ASSUME NEW k \in Calls, Paying(k) PROVE Promised!Next \/ Stutter
  BY <1>0, <1>1, QuietUnseen, TopUpSeen, PaymentSeen DEF Paying, Promised!Next
<1>2. ASSUME NEW k \in Calls, Redeeming(k) PROVE Promised!Next \/ Stutter
  BY <1>0, <1>2, QuietUnseen, RedemptionSeen DEF Redeeming, Promised!Next
<1>3. ASSUME NEW k \in Calls,
             \/ Fail(k) \/ LockActive(k) \/ ReplaceSubscription(k)
             \/ \E u \in Users : Subscribe(k, u) \/ SetUserSubscription(k, u)
      PROVE  Promised!Next \/ Stutter
  BY <1>0, <1>3, QuietUnseen, ReplaceSeen DEF Promised!Next
<1>4. ASSUME NEW o \in Orders,
             CreatePaymentOrder(o) \/ OrderExpires(o) \/ DeleteOrdersBefore(o)
      PROVE  Promised!Next \/ Stutter
  BY <1>0, <1>4, QuietUnseen, PlaceSeen DEF Promised!Next
<1>5. ASSUME NEW c \in Codes,
             \/ CreateRedemptionCode(c) \/ PatchRedemptionCode(c)
             \/ DeleteRedemptionCode(c) \/ CodeExpires(c)
             \/ \E u \in Users : RedeemBalance(c, u)
      PROVE  Promised!Next \/ Stutter
  BY <1>0, <1>5, QuietUnseen, IssueSeen, RedemptionSeen DEF Promised!Next
<1>6. CASE Tick \/ UNCHANGED vars
  BY <1>0, <1>6, QuietUnseen, TickSeen DEF Promised!Next
<1>7. QED
  BY <1>1, <1>2, <1>3, <1>4, <1>5, <1>6 DEF Next

LEMMA InitHonoured == Init => Promised!Init
<1> SUFFICES ASSUME Init PROVE Promised!Init
  OBVIOUS
<1>1. \A o \in Orders : Purchases[o].status = "none"
  BY DEF Init, NoOrder, Purchases
<1>2. \A c \in Codes : ~Offers[c].issued
  BY DEF Init, NoCode, Offers, Worth
<1>3. Remaining = [u \in Users |-> 0]
  <2>1. \A u \in Users : Remaining[u] = 0
    <3>1. PromiseInv
      BY InitPromised
    <3>2. \A u \in Users : ~crossed[u] => TimeLeft(u) = owed[u]
      BY <3>1, KeptWhole DEF EntitlementsKept
    <3>3. QED
      BY <3>2 DEF Init, Remaining, TimeLeft
  <2>2. QED
    BY <2>1 DEF Remaining, TimeLeft
<1>4. Unsettled = {}
  BY DEF Init, Unsettled
<1>5. QED
  BY <1>1, <1>2, <1>3, <1>4 DEF Init, Promised!Init

(* All that webhooks, redemptions and administrators read, lock and        *)
(* rewrite, however their steps interleave and wherever one fails, is to   *)
(* the user a step of Entitlements or none: CompletePaymentOrder and       *)
(* RedeemCode give what was bought once, in full, together with the mark   *)
(* on the order or the count of the code, and only time takes it away, as  *)
(* long as no two changes of the user's subscriptions cross.               *)
THEOREM GrantsAreHonoured == Spec => GrantsHonoured
<1>1. PromiseInv /\ PromiseInv' /\ [Next]_vars => [Promised!Next]_(Promised!vars)
  BY StepHonoured DEF Stutter, Promised!vars, Promised!records
<1>2. QED
  BY <1>1, InitPromised, StepPromised, InitHonoured, PTL
  DEF Spec, GrantsHonoured, Promised!Spec
=============================================================================
