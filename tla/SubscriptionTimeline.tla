------------------------ MODULE SubscriptionTimeline ------------------------
(***************************************************************************)
(* How a grant is fitted into the subscriptions of a user.  It takes the   *)
(* first time that no plan of the same or a higher rank holds; what it     *)
(* takes from lower plans is granted to them again, behind.                *)
(*                                                                         *)
(* Nothing but its rank is asked of a plan, so a plan is its rank.  A row  *)
(* is [plan, from, to] in whole units of time; an expired row is Gone.     *)
(* A segment is the row it came from (0: none yet), its plan and its time; *)
(* a grant is a segment without a place: it begins at "at", or later, and  *)
(* takes "long".  The segments of one row never overlap, so that a slice   *)
(* of segments is a set and the order in which it is sorted.               *)
(***************************************************************************)
EXTENDS Integers, SequencesExt

Gone == [plan |-> 0, from |-> 0, to |-> 0]

Nonempty(x) == x.from < x.to

In(x, t) == x.from <= t /\ t < x.to

Segments == {x \in [sub : Nat, plan : Nat, from : Nat, to : Nat] : Nonempty(x)}

Grants == [sub : Nat, plan : Nat, at : Nat, long : Nat]

(* The order of the code's sort.  It asks for nothing more when two        *)
(* segments have the same plan and time; the row decides here.             *)
Before(x, y) ==
  \/ x.from < y.from
  \/ x.from = y.from /\ x.plan > y.plan
  \/ x.from = y.from /\ x.plan = y.plan /\ x.to < y.to
  \/ x.from = y.from /\ x.plan = y.plan /\ x.to = y.to /\ x.sub < y.sub

InOrder(segs) ==
  [i \in 1..Cardinality(segs) |->
     CHOOSE x \in segs : Cardinality({y \in segs : Before(y, x)}) = i - 1]

(* The next segment is more of the same row.                               *)
Continues(segs, x, y) ==
  /\ Before(x, y) /\ x.sub = y.sub /\ x.plan = y.plan /\ x.to >= y.from
  /\ \A z \in segs : ~(Before(x, z) /\ Before(z, y))

Starts(segs) == {y \in segs : \A x \in segs : ~Continues(segs, x, y)}

(* What continues a start, up to the next one.                             *)
Run(segs, x) ==
  {y \in segs : \/ y = x
                \/ Before(x, y) /\ \A z \in Starts(segs) : Before(x, z) => Before(y, z)}

Normal(segs) ==
  {[x EXCEPT !.to = Max({y.to : y \in Run(segs, x)})] : x \in Starts(segs)}
-----------------------------------------------------------------------------
(* Mutant: a grant waits for every plan.                                   *)
Blockers_AnyPlan(segs, plan, at) == {x \in segs : x.to > at}

(* What a grant of the plan cannot displace from "at" on.                  *)
Blockers(segs, plan, at) == {x \in segs : x.plan >= plan /\ x.to > at}

Earliest(segs) ==
  CHOOSE x \in segs : \A y \in segs :
    x.from < y.from \/ (x.from = y.from /\ x.to <= y.to)

Blocked(segs, plan, at) ==
  LET blockers == Blockers(segs, plan, at)
  IN blockers # {} /\ Earliest(blockers).from <= at

Yields(x, new) ==
  x.plan < new.plan /\ x.from < new.to /\ new.from < x.to

Rest(x, new) ==
  IF Yields(x, new)
  THEN {r \in {[x EXCEPT !.to = new.from], [x EXCEPT !.from = new.to]} : Nonempty(r)}
  ELSE {x}

Insert(segs, new) == Normal({new} \cup UNION {Rest(x, new) : x \in segs})

(* Mutant: what is displaced is dropped.                                   *)
Displaced_Lost(segs, new) == <<>>

Displaced(segs, new) ==
  LET lost == InOrder({x \in segs : Yields(x, new)})
  IN [i \in DOMAIN lost |->
       [sub |-> lost[i].sub, plan |-> lost[i].plan,
        at |-> Max({new.to, lost[i].to}),
        long |-> Min({lost[i].to, new.to}) - Max({lost[i].from, new.from})]]

(* The first grant of the queue is being placed, what it has moved so far  *)
(* will be placed next.                                                    *)
Works == [segs : {S \in SUBSET Segments : IsFiniteSet(S)},
          queue : Seq(Grants), moved : Seq(Grants)]

(* What keeps the grant from its place.                                    *)
InTheWay(work) ==
  Blockers(work.segs, Head(work.queue).plan, Head(work.queue).at)

Then(work, at, long) ==
  <<[Head(work.queue) EXCEPT !.at = at, !.long = long]>> \o Tail(work.queue)

NextGrant(work) == [work EXCEPT !.queue = work.moved \o Tail(@), !.moved = <<>>]

Waits(work) ==
  [work EXCEPT !.queue =
     Then(work, Earliest(InTheWay(work)).to, Head(work.queue).long)]

Until(work) ==
  LET end == Head(work.queue).at + Head(work.queue).long
  IN IF InTheWay(work) = {} THEN end
                            ELSE Min({end, Earliest(InTheWay(work)).from})

Takes(work) ==
  LET grant == Head(work.queue)
      to == Until(work)
      new == [sub |-> grant.sub, plan |-> grant.plan, from |-> grant.at, to |-> to]
  IN [segs |-> Insert(work.segs, new),
      queue |-> Then(work, to, grant.long - (to - grant.at)),
      moved |-> work.moved \o Displaced(work.segs, new)]

(* One round of the loops over the queue and over the time still to place. *)
Place(work) ==
  LET grant == Head(work.queue)
  IN CASE grant.long = 0 -> NextGrant(work)
       [] grant.long > 0 /\ Blocked(work.segs, grant.plan, grant.at) -> Waits(work)
       [] OTHER -> Takes(work)

Build[work \in Works] ==
  IF work.queue = <<>> THEN work.segs ELSE Build[Place(work)]
-----------------------------------------------------------------------------
(* The rows.                                                               *)

Entitled(rows, now) == {i \in DOMAIN rows : rows[i].to > now}

(* The time of each row for itself, also where rows overlap.               *)
RowTime(rows, now) ==
  [i \in DOMAIN rows |-> IF rows[i] = Gone THEN 0
                         ELSE rows[i].to - Max({now, rows[i].from})]

Existing(rows, ids, now) ==
  {[sub |-> i, plan |-> rows[i].plan,
    from |-> Max({now, rows[i].from}), to |-> rows[i].to] : i \in ids}

(* Where a redemption begins: behind the plans it cannot displace.         *)
GrantStart(rows, plan, now) ==
  LET segs == Existing(rows, Entitled(rows, now), now)
      Frontier[at \in Nat] ==
        IF Blocked(segs, plan, at)
        THEN Frontier[Earliest(Blockers(segs, plan, at)).to] ELSE at
  IN Frontier[now]

(* A row keeps the first of its segments, unless it has begun and would    *)
(* have to move; it is expired then, and every other segment is a new row. *)
(* What is there today began before this instant.                          *)
Apply(rows, ids, segs, now, today) ==
  LET Begun(i) == rows[i].from < now \/ rows[i].from <= today
      Fits(i) == {x \in segs : x.sub = i /\ ~(Begun(i) /\ x.from > now)}
      Reused(i) == CHOOSE x \in Fits(i) : \A y \in Fits(i) : y = x \/ Before(x, y)
      Rewritten(i) ==
        LET x == Reused(i)
        IN IF Fits(i) = {} THEN Gone
           ELSE [plan |-> x.plan, to |-> x.to,
                 from |-> IF Begun(i) /\ x.from <= now
                          THEN rows[i].from ELSE x.from]
      created == InOrder(segs \ {Reused(i) : i \in {j \in ids : Fits(j) # {}}})
  IN [i \in DOMAIN rows |-> IF i \in ids THEN Rewritten(i) ELSE rows[i]]
     \o [j \in DOMAIN created |->
          [plan |-> created[j].plan, from |-> created[j].from, to |-> created[j].to]]

(* grantSubscriptionOnTimeline on the rows it has locked, those of "seen"  *)
(* that are still entitled to something.                                   *)
Granted(rows, seen, plan, now, long, today) ==
  LET ids == seen \cap Entitled(rows, now)
      grant == [sub |-> 0, plan |-> plan, at |-> now, long |-> long]
      work == [segs |-> Existing(rows, ids, now), queue |-> <<grant>>, moved |-> <<>>]
  IN Apply(rows, ids, Build[work], now, today)
=============================================================================
