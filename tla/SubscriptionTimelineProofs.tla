--------------------- MODULE SubscriptionTimelineProofs ---------------------
(***************************************************************************)
(* That a grant which is fitted into a timeline gives nobody more time and *)
(* takes none: the highest plan first, and no gap before a lower one.      *)
(***************************************************************************)
EXTENDS SubscriptionTimeline, TotalsTheorems, SequenceTheorems

(* Segments and grants of some plans that do not begin before now.         *)
Places(P, now) == {x \in Segments : x.plan \in P /\ x.from >= now}

Dues(P, now) == {g \in Grants : g.plan \in P /\ g.at >= now}

Within(P, now) == [segs : {S \in SUBSET Places(P, now) : IsFiniteSet(S)},
                   queue : Seq(Dues(P, now)), moved : Seq(Dues(P, now))]

Span == [x \in Segments |-> x.to - x.from]

(* The time that grants of plans in Q still ask for.                       *)
Longs(q, Q) == [i \in DOMAIN q |-> IF q[i].plan \in Q THEN q[i].long ELSE 0]

Due(q, Q) == Total(DOMAIN q, Longs(q, Q))

(* The larger and the smaller of two numbers (max, min). *)
LEMMA MaxMin ==
  ASSUME NEW a \in Int, NEW b \in Int
  PROVE  /\ Max({a, b}) = IF a >= b THEN a ELSE b
         /\ Min({a, b}) = IF a <= b THEN a ELSE b
BY DEF Max, Min
-----------------------------------------------------------------------------
(* The order of segments.                                                  *)

(* A segment is its four fields (subscriptionTimelineSegment). *)
LEMMA SegmentFields ==
  ASSUME NEW x \in Segments, NEW y \in Segments
  PROVE  /\ x.sub \in Nat /\ x.plan \in Nat /\ x.from \in Nat /\ x.to \in Nat
         /\ x.from < x.to
         /\ Span[x] \in Nat /\ Span[x] = x.to - x.from
         /\ (x.sub = y.sub /\ x.plan = y.plan /\ x.from = y.from /\ x.to = y.to) => x = y
BY DEF Segments, Nonempty, Span

(* Sorting the segments leaves nothing to chance (normalizeSubscriptionTimeline). *)
LEMMA BeforeOrders ==
  ASSUME NEW x \in Segments, NEW y \in Segments, NEW z \in Segments
  PROVE  /\ ~Before(x, x)
         /\ Before(x, y) => ~Before(y, x)
         /\ x = y \/ Before(x, y) \/ Before(y, x)
         /\ Before(x, y) /\ Before(y, z) => Before(x, z)
<1>1. \A s \in {x, y, z} : s.sub \in Nat /\ s.plan \in Nat /\ s.from \in Nat /\ s.to \in Nat
  BY SegmentFields
<1>2. x = y \/ Before(x, y) \/ Before(y, x)
  BY <1>1, SegmentFields DEF Before
<1>3. Before(x, y) /\ Before(y, z) => Before(x, z)
  BY <1>1 DEF Before
<1>4. QED
  BY <1>1, <1>2, <1>3 DEF Before

(* Finitely many segments have a last and a first one. *)
LEMMA LastSegment ==
  ASSUME NEW S, IsFiniteSet(S), S \subseteq Segments, S # {}
  PROVE  \E x \in S : \A y \in S : y = x \/ Before(y, x)
<1> DEFINE Ends(T) == \E x \in T : \A y \in T : y = x \/ Before(y, x)
           Good == {T \in SUBSET S : T = {} \/ Ends(T)}
<1>1. {} \in Good
  OBVIOUS
<1>2. ASSUME NEW T \in SUBSET S, NEW s \in S \ T, T \in Good PROVE T \cup {s} \in Good
  <2>1. CASE T = {}
    <3>1. s \in T \cup {s} /\ \A y \in T \cup {s} : y = s \/ Before(y, s)
      BY <2>1
    <3>2. Ends(T \cup {s})
      BY <3>1
    <3>3. QED
      BY <3>2
  <2>2. CASE T # {}
    <3>1. PICK x \in T : \A y \in T : y = x \/ Before(y, x)
      BY <1>2, <2>2
    <3>2. x \in Segments /\ s \in Segments /\ T \subseteq Segments
      OBVIOUS
    <3>3. CASE Before(x, s)
      <4>1. \A y \in T \cup {s} : y = s \/ Before(y, s)
        BY <3>1, <3>2, <3>3, BeforeOrders
      <4>2. Ends(T \cup {s})
        BY <4>1
      <4>3. QED
        BY <4>2
    <3>4. CASE ~Before(x, s)
      <4>1. Before(s, x)
        BY <3>2, <3>4, BeforeOrders
      <4>2. \A y \in T \cup {s} : y = x \/ Before(y, x)
        BY <3>1, <4>1
      <4>3. Ends(T \cup {s})
        BY <4>2
      <4>4. QED
        BY <4>3
    <3>5. QED
      BY <3>3, <3>4
  <2>3. QED
    BY <2>1, <2>2
<1> HIDE DEF Good
<1>3. S \in Good
  BY <1>1, <1>2, SubsetsByOne
<1>4. QED
  BY <1>3 DEF Good

(* How many segments come before one. *)
Rank(S, x) == Cardinality({y \in S : Before(y, x)})

(* Who comes earlier has fewer before it. *)
LEMMA PlaceGrows ==
  ASSUME NEW S, IsFiniteSet(S), S \subseteq Segments, NEW x \in S, NEW y \in S, Before(x, y)
  PROVE  /\ Rank(S, x) \in Nat /\ Rank(S, y) \in Nat
         /\ Rank(S, x) < Rank(S, y)
<1> DEFINE X == {z \in S : Before(z, x)}
           Y == {z \in S : Before(z, y)}
<1>1. X \subseteq Y /\ x \in Y /\ x \notin X
  BY BeforeOrders
<1>2. IsFiniteSet(Y) /\ Y \subseteq S /\ X \subseteq S
  BY FS_Subset
<1> HIDE DEF X, Y
<1>3. /\ Cardinality(X) <= Cardinality(Y) /\ Cardinality(X) # Cardinality(Y)
      /\ Cardinality(X) \in Nat /\ Cardinality(Y) \in Nat
  BY <1>1, <1>2, FS_Subset, FS_CardinalityType
<1>4. QED
  BY <1>3 DEF X, Y, Rank

(* The first of some segments. *)
LEMMA FirstSegment ==
  ASSUME NEW S, IsFiniteSet(S), S \subseteq Segments, S # {}
  PROVE  \E x \in S : \A y \in S : y = x \/ Before(x, y)
<1> DEFINE f == [x \in S |-> Rank(S, x)]
           T == {f[x] : x \in S}
<1>1. \A x \in S : f[x] \in Nat
  <2>1. ASSUME NEW x \in S PROVE Cardinality({y \in S : Before(y, x)}) \in Nat
    BY FS_Subset, FS_CardinalityType
  <2>2. QED
    BY <2>1 DEF Rank
<1>2. T \subseteq Nat /\ T # {}
  BY <1>1
<1>3. PICK n \in T : \A m \in T : n <= m
  <2> HIDE DEF T
  <2> QED BY <1>2, LeastNat
<1>4. PICK x \in S : n = f[x]
  BY <1>3
<1>5. ASSUME NEW y \in S, y # x PROVE Before(x, y)
  <2>1. ~Before(y, x)
    <3> SUFFICES ASSUME Before(y, x) PROVE FALSE
      OBVIOUS
    <3>1. f[y] < f[x] /\ f[x] \in Nat /\ f[y] \in Nat
      BY PlaceGrows
    <3>2. f[x] <= f[y]
      BY <1>3, <1>4
    <3> HIDE DEF f
    <3>3. QED
      BY <3>1, <3>2
  <2>2. x \in Segments /\ y \in Segments
    OBVIOUS
  <2>3. QED
    BY <1>5, <2>1, <2>2, BeforeOrders
<1>6. QED
  BY <1>5

(* Sorting lists every segment once. *)
LEMMA InOrderLists ==
  ASSUME NEW S, IsFiniteSet(S), S \subseteq Segments
  PROVE  /\ InOrder(S) \in Seq(S)
         /\ DOMAIN InOrder(S) = 1..Cardinality(S)
         /\ InOrder(S) \in Injection(1..Cardinality(S), S)
<1> DEFINE n == Cardinality(S)
           f == [x \in S |-> Rank(S, x)]
<1>1. n \in Nat
  BY FS_CardinalityType
<1>2. ASSUME NEW x \in S PROVE Rank(S, x) \in 0..(n - 1)
  <2> DEFINE X == {y \in S : Before(y, x)}
  <2>1. X \subseteq S /\ x \notin X
    BY BeforeOrders
  <2> HIDE DEF X
  <2>2. Cardinality(X) \in Nat /\ Cardinality(X) <= n /\ Cardinality(X) # n
    BY <2>1, FS_Subset, FS_CardinalityType
  <2>3. Rank(S, x) = Cardinality(X)
    BY DEF X, Rank
  <2> HIDE DEF n
  <2>4. QED
    BY <1>1, <2>2, <2>3
<1>3. ASSUME NEW x \in S, NEW y \in S, f[x] = f[y] PROVE x = y
  <2>1. Before(x, y) => f[x] < f[y] /\ f[x] \in Nat /\ f[y] \in Nat
    BY PlaceGrows
  <2>2. Before(y, x) => f[y] < f[x] /\ f[x] \in Nat /\ f[y] \in Nat
    BY PlaceGrows
  <2> HIDE DEF f
  <2>3. ~Before(x, y) /\ ~Before(y, x)
    BY <1>3, <2>1, <2>2
  <2>4. QED
    BY <2>3, BeforeOrders
<1>4. f \in Injection(S, 0..(n - 1))
  BY <1>2, <1>3 DEF Injection, IsInjective
<1>5. IsFiniteSet(0..(n - 1)) /\ Cardinality(0..(n - 1)) = n
  <2> HIDE DEF n
  <2>1. n - 1 \in Int
    BY <1>1
  <2>2. QED
    BY <1>1, <2>1, FS_Interval
<1>6. f \in Surjection(S, 0..(n - 1))
  <2> HIDE DEF f
  <2>1. QED
    BY <1>4, <1>5, FS_Injection
<1>7. ASSUME NEW i \in 1..n PROVE InOrder(S)[i] \in S /\ Rank(S, InOrder(S)[i]) = i - 1
  <2>1. i - 1 \in 0..(n - 1)
    <3> HIDE DEF n
    <3>1. QED
      BY <1>1
  <2>2. PICK x \in S : f[x] = i - 1
    <3> HIDE DEF f, n
    <3>1. QED
      BY <1>6, <2>1 DEF Surjection
  <2>3. Cardinality({y \in S : Before(y, x)}) = i - 1
    BY <2>2 DEF Rank
  <2>4. InOrder(S)[i] = CHOOSE z \in S : Cardinality({y \in S : Before(y, z)}) = i - 1
    BY DEF InOrder
  <2>5. QED
    BY <2>3, <2>4 DEF Rank
<1> DEFINE choice(i) == CHOOSE x \in S : Cardinality({y \in S : Before(y, x)}) = i - 1
<1>8. DOMAIN InOrder(S) = 1..n /\ InOrder(S) = [i \in 1..n |-> InOrder(S)[i]]
  <2>1. InOrder(S) = [i \in 1..n |-> choice(i)]
    BY DEF InOrder
  <2> HIDE DEF choice, n
  <2>2. QED
    BY <2>1
<1> HIDE DEF n, f
<1>9. InOrder(S) \in [1..n -> S]
  BY <1>7, <1>8
<1>10. InOrder(S) \in Injection(1..n, S)
  <2>1. \A i, j \in 1..n : InOrder(S)[i] = InOrder(S)[j] => i = j
    <3> TAKE i, j \in 1..n
    <3>1. Rank(S, InOrder(S)[i]) = i - 1 /\ Rank(S, InOrder(S)[j]) = j - 1
      BY <1>7
    <3>2. QED
      BY <1>1, <3>1
  <2>2. QED
    BY <1>9, <2>1 DEF Injection, IsInjective
<1>11. InOrder(S) \in Seq(S)
  BY <1>1, <1>9, SeqDef
<1>12. QED
  BY <1>8, <1>10, <1>11 DEF n
-----------------------------------------------------------------------------
(* Joining the segments of a row.                                          *)

(* Every instant of a run is an instant of one of its segments. *)
LEMMA RunCovers ==
  ASSUME NEW S, IsFiniteSet(S), S \subseteq Segments, NEW x \in S,
         NEW z \in Run(S, x), NEW t \in Nat, x.from <= t, t < z.to
  PROVE  \E y \in Run(S, x) : y.from <= t /\ t < y.to
<1> SUFFICES ASSUME \A y \in Run(S, x) : y.from <= t => y.to <= t PROVE FALSE
  <2>1. \A y \in Run(S, x) : y \in Segments
    BY DEF Run
  <2>2. \A y \in Run(S, x) : y.to \in Nat
    BY <2>1, SegmentFields
  <2>3. QED
    BY <2>2
<1> DEFINE Begun == {y \in Run(S, x) : y.from <= t}
<1>1. Run(S, x) \subseteq S /\ x \in Run(S, x) /\ \A y \in S : y \in Segments
  BY DEF Run
<1>2. Begun \subseteq S /\ x \in Begun
  BY <1>1
<1>3. PICK y \in Begun : \A s \in Begun : s = y \/ Before(s, y)
  <2>1. IsFiniteSet(Begun) /\ Begun \subseteq Segments /\ Begun # {}
    BY <1>2, FS_Subset
  <2> HIDE DEF Begun
  <2>2. QED
    BY <2>1, LastSegment
<1>4. y \in S /\ z \in S /\ y.from <= t /\ y.to <= t /\ z.from > t /\ z \in Segments /\ y \in Segments
  BY <1>1, <1>3, SegmentFields
<1> DEFINE Later == {s \in S : Before(y, s)}
<1>5. Before(y, z)
  BY <1>4, SegmentFields DEF Before
<1>6. PICK w \in Later : \A s \in Later : s = w \/ Before(w, s)
  <2>1. IsFiniteSet(Later) /\ Later \subseteq Segments /\ Later # {}
    BY <1>4, <1>5, FS_Subset
  <2> HIDE DEF Later
  <2>2. QED
    BY <2>1, FirstSegment
<1>7. w \in S /\ w \in Segments /\ Before(y, w) /\ (w = z \/ Before(w, z))
  BY <1>4, <1>5, <1>6
<1>8. Before(x, w) /\ x # w
  <2>1. x = y \/ Before(x, y)
    BY <1>2, <1>3
  <2>2. QED
    BY <1>1, <1>4, <1>7, <2>1, BeforeOrders
<1>9. w \in Run(S, x)
  <2>1. CASE w = z
    BY <2>1
  <2>2. CASE Before(w, z)
    <3>1. z # x
      BY <1>1, <1>7, <1>8, <2>2, BeforeOrders
    <3>2. \A s \in Starts(S) : Before(x, s) => Before(z, s)
      BY <3>1 DEF Run
    <3>3. \A s \in Starts(S) : s \in Segments
      BY <1>1 DEF Starts
    <3>4. \A s \in Starts(S) : Before(x, s) => Before(w, s)
      BY <1>4, <1>7, <2>2, <3>2, <3>3, BeforeOrders
    <3>5. QED
      BY <1>7, <1>8, <3>4 DEF Run
  <2>3. QED
    BY <1>7, <2>1, <2>2
<1>10. w \notin Starts(S)
  <2>1. w \in Starts(S) => Before(w, w)
    BY <1>8, <1>9 DEF Run
  <2>2. QED
    BY <1>7, <2>1, BeforeOrders
<1>11. PICK v \in S : Continues(S, v, w)
  BY <1>7, <1>10 DEF Starts
<1>12. v = y
  <2>1. v \in Segments /\ Before(v, w) /\ ~Before(v, y)
    BY <1>1, <1>4, <1>7, <1>11 DEF Continues
  <2>2. ~Before(y, v)
    <3>1. Before(y, v) => v \in Later
      BY <1>11
    <3>2. Before(y, v) => v = w \/ Before(w, v)
      BY <1>6, <3>1
    <3>3. QED
      BY <1>7, <2>1, <3>2, BeforeOrders
  <2>3. QED
    BY <1>4, <2>1, <2>2, BeforeOrders
<1>13. w.from <= t
  BY <1>4, <1>7, <1>11, <1>12, SegmentFields DEF Continues
<1>14. w = y \/ Before(w, y)
  BY <1>3, <1>9, <1>13
<1>15. QED
  BY <1>4, <1>7, <1>14, BeforeOrders

(* Runs share nothing. *)
LEMMA RunsApart ==
  ASSUME NEW S, S \subseteq Segments, NEW x \in Starts(S), NEW y \in Starts(S),
         NEW z \in Run(S, x), z \in Run(S, y)
  PROVE  x = y
<1>1. Starts(S) \subseteq S /\ z \in S
  BY DEF Starts, Run
<1>2. x \in Segments /\ y \in Segments /\ z \in Segments
  BY <1>1
<1>3. z = x \/ (Before(x, z) /\ (Before(x, y) => Before(z, y)))
  BY DEF Run
<1>4. z = y \/ (Before(y, z) /\ (Before(y, x) => Before(z, x)))
  BY DEF Run
<1>5. QED
  BY <1>2, <1>3, <1>4, BeforeOrders

(* The end of a run is that of one of its segments, and none ends later. *)
LEMMA RunEnds ==
  ASSUME NEW S, IsFiniteSet(S), S \subseteq Segments, NEW x \in S
  PROVE  /\ \E z \in Run(S, x) : Max({y.to : y \in Run(S, x)}) = z.to
         /\ Max({y.to : y \in Run(S, x)}) \in Nat
         /\ \A y \in Run(S, x) : y.to <= Max({z.to : z \in Run(S, x)})
         /\ x.to <= Max({y.to : y \in Run(S, x)})
<1> DEFINE R == Run(S, x)
           T == {y.to : y \in R}
           f == [y \in R |-> y.to]
<1>1. R \subseteq S /\ x \in R
  BY DEF Run
<1>2. IsFiniteSet(T)
  <2>1. IsFiniteSet(R)
    <3> HIDE DEF R
    <3>1. QED
      BY <1>1, FS_Subset
  <2>2. IsFiniteSet({f[y] : y \in R})
    <3> HIDE DEF R, f
    <3>1. QED
      BY <2>1, ImageFinite
  <2>3. T = {f[y] : y \in R}
    <3> HIDE DEF R
    <3>1. QED
      OBVIOUS
  <2>4. QED
    BY <2>2, <2>3
<1>3. \A y \in R : y.to \in Nat
  <2>1. ASSUME NEW y \in R PROVE y \in Segments
    <3> HIDE DEF R
    <3>1. QED
      BY <1>1
  <2>2. QED
    BY <2>1, SegmentFields
<1> HIDE DEF R
<1>4. T \subseteq Nat /\ x.to \in T
  BY <1>1, <1>3
<1> HIDE DEF T
<1>5. PICK m \in T : \A n \in T : m >= n
  BY <1>2, <1>4, GreatestNat
<1>6. Max(T) \in T /\ \A n \in T : Max(T) >= n
  BY <1>5 DEF Max
<1>7. \E z \in R : Max(T) = z.to
  BY <1>6 DEF T
<1>8. Max(T) \in Nat /\ x.to <= Max(T)
  BY <1>4, <1>6
<1>9. \A y \in R : y.to <= Max(T)
  BY <1>3, <1>4, <1>6 DEF T
<1>10. QED
  BY <1>7, <1>8, <1>9 DEF T, R

(* Joining segments makes no time (normalizeSubscriptionTimeline). *)
LEMMA NormalKeeps ==
  ASSUME NEW P, NEW now, NEW S, IsFiniteSet(S), S \subseteq Places(P, now)
  PROVE  /\ IsFiniteSet(Normal(S))
         /\ Normal(S) \subseteq Places(P, now)
         /\ Total(Normal(S), Span) <= Total(S, Span)
<1>1. S \subseteq Segments /\ Starts(S) \subseteq S
  BY DEF Places, Starts
<1> DEFINE end(x) == Max({y.to : y \in Run(S, x)})
           joined == [x \in Starts(S) |-> [x EXCEPT !.to = end(x)]]
           N == {joined[x] : x \in Starts(S)}
<1>2. Normal(S) = N
  BY DEF Normal
<1>3. ASSUME NEW x \in Starts(S)
      PROVE  /\ \E z \in Run(S, x) : end(x) = z.to
             /\ end(x) \in Nat /\ x.to <= end(x)
  <2>1. x \in S
    BY <1>1
  <2>2. QED
    BY <1>1, <2>1, RunEnds
<1>4. ASSUME NEW x \in Starts(S)
      PROVE  joined[x] \in Places(P, now) /\ joined[x].from = x.from /\ joined[x].to = end(x)
  <2>1. x \in Places(P, now)
    BY <1>1
  <2>2. joined[x] = [x EXCEPT !.to = end(x)]
    OBVIOUS
  <2>3. end(x) \in Nat /\ x.to <= end(x)
    BY <1>3
  <2> HIDE DEF joined, end
  <2>4. QED
    BY <2>1, <2>2, <2>3 DEF Places, Segments, Nonempty
<1>5. IsFiniteSet(N)
  <2>1. IsFiniteSet(Starts(S))
    BY <1>1, FS_Subset
  <2> HIDE DEF joined
  <2>2. QED
    BY <2>1, ImageFinite
<1> HIDE DEF joined, end
<1>6. N \subseteq Places(P, now)
  BY <1>4
<1> DEFINE start == [n \in N |-> CHOOSE x \in Starts(S) : n = joined[x]]
<1>7. ASSUME NEW n \in N PROVE start[n] \in Starts(S) /\ n = joined[start[n]]
  BY <1>7
<1> HIDE DEF start, N
<1> DEFINE Holds(y, n, t) == y \in Run(S, start[n]) /\ y.from <= t /\ t < y.to
           at == [c \in Cells(N, Span) |-> c[1].from + c[2] - 1]
           held == [c \in Cells(N, Span) |-> CHOOSE y : Holds(y, c[1], at[c])]
           move == [c \in Cells(N, Span) |-> <<held[c], at[c] - held[c].from + 1>>]
<1>8. ASSUME NEW c \in Cells(N, Span)
      PROVE  /\ c[1] \in N /\ c = <<c[1], c[2]>> /\ c[2] \in Nat
             /\ at[c] = c[1].from + c[2] - 1
             /\ Holds(held[c], c[1], at[c])
             /\ held[c] \in S
             /\ move[c] = <<held[c], at[c] - held[c].from + 1>>
  <2>1. c[1] \in N /\ c = <<c[1], c[2]>> /\ c[2] \in 1..Span[c[1]]
    BY DEF Cells
  <2>2. c[1] \in Segments /\ start[c[1]] \in Starts(S) /\ c[1] = joined[start[c[1]]]
    BY <1>6, <1>7, <2>1 DEF Places
  <2>3. c[1].from \in Nat /\ c[1].to \in Nat /\ Span[c[1]] = c[1].to - c[1].from
    BY <2>2, SegmentFields
  <2>4. at[c] = c[1].from + c[2] - 1 /\ at[c] \in Nat /\ at[c] < c[1].to /\ c[1].from <= at[c]
    BY <2>1, <2>3
  <2>5. c[1].from = start[c[1]].from /\ c[1].to = end(start[c[1]])
    BY <1>4, <2>2
  <2>6. \E y : Holds(y, c[1], at[c])
    <3>1. PICK z \in Run(S, start[c[1]]) : end(start[c[1]]) = z.to
      BY <1>3, <2>2
    <3>2. start[c[1]] \in S
      BY <1>1, <2>2
    <3> HIDE DEF at
    <3>3. \E y \in Run(S, start[c[1]]) : y.from <= at[c] /\ at[c] < y.to
      BY <1>1, <2>4, <2>5, <3>1, <3>2, RunCovers
    <3>4. QED
      BY <3>3
  <2>7. held[c] = CHOOSE y : Holds(y, c[1], at[c])
    OBVIOUS
  <2>8. move[c] = <<held[c], at[c] - held[c].from + 1>>
    OBVIOUS
  <2> HIDE DEF held, at, move
  <2>9. Holds(held[c], c[1], at[c])
    <3> HIDE DEF Holds
    <3> QED BY <2>6, <2>7
  <2>10. held[c] \in S
    BY <2>9 DEF Run
  <2>11. c[2] \in Nat
    BY <2>1, <2>3
  <2>12. QED
    BY <2>1, <2>4, <2>8, <2>9, <2>10, <2>11
<1> HIDE DEF at, held, move
<1>9. ASSUME NEW c \in Cells(N, Span) PROVE move[c] \in Cells(S, Span)
  <2>1. held[c] \in Segments /\ c[1] \in Segments
    BY <1>1, <1>6, <1>8 DEF Places
  <2>2. at[c] \in Int /\ held[c].from <= at[c] /\ at[c] < held[c].to
    BY <1>8, <2>1, SegmentFields
  <2>3. at[c] - held[c].from + 1 \in 1..Span[held[c]]
    BY <2>1, <2>2, SegmentFields
  <2>4. <<held[c], at[c] - held[c].from + 1>> \in {held[c]} \X (1..Span[held[c]])
    BY <2>3
  <2>5. QED
    BY <1>8, <2>4 DEF Cells
<1>10. ASSUME NEW c \in Cells(N, Span), NEW d \in Cells(N, Span), move[c] = move[d] PROVE c = d
  <2>1. /\ held[c] = held[d]
        /\ at[c] - held[c].from + 1 = at[d] - held[d].from + 1
    BY <1>8, <1>10
  <2>2. c[1] \in N /\ d[1] \in N /\ held[c] \in Segments /\ c[1] \in Segments /\ d[1] \in Segments
    BY <1>1, <1>6, <1>8 DEF Places
  <2>3. start[c[1]] = start[d[1]]
    BY <1>1, <1>7, <1>8, <2>1, <2>2, RunsApart
  <2>4. c[1] = d[1]
    BY <1>7, <2>2, <2>3
  <2>5. at[c] = at[d]
    BY <1>8, <2>1, <2>2, SegmentFields
  <2>6. c[2] = d[2]
    BY <1>8, <2>2, <2>4, <2>5, SegmentFields
  <2>7. QED
    BY <1>8, <2>4, <2>6
<1>11. move \in Injection(Cells(N, Span), Cells(S, Span))
  <2>1. move = [c \in Cells(N, Span) |-> move[c]]
    BY DEF move
  <2>2. move \in [Cells(N, Span) -> Cells(S, Span)]
    BY <1>9, <2>1
  <2>3. QED
    BY <1>10, <2>2 DEF Injection, IsInjective
<1>12. IsFiniteSet(Cells(S, Span))
  <2>1. \A x \in S : Span[x] \in Nat
    BY <1>1, SegmentFields
  <2>2. QED
    BY <2>1, CellsFinite
<1>13. Total(N, Span) <= Total(S, Span)
  BY <1>11, <1>12, FS_Injection DEF Total
<1>14. QED
  BY <1>2, <1>5, <1>6, <1>13 DEF N
-----------------------------------------------------------------------------
(* What a segment that is inserted displaces.                              *)

(* A segment of a lower plan keeps what does not overlap with the new one. *)
LEMMA RestKeeps ==
  ASSUME NEW P, NEW now \in Nat, NEW x \in Places(P, now), NEW new \in Places(P, now), Yields(x, new)
  PROVE  LET over == Min({x.to, new.to}) - Max({x.from, new.from})
         IN /\ over \in Nat /\ over <= Span[x]
            /\ IsFiniteSet(Rest(x, new)) /\ Rest(x, new) \subseteq Places(P, now)
            /\ Total(Rest(x, new), Span) <= Span[x] - over
<1> DEFINE a == [x EXCEPT !.to = new.from]
           b == [x EXCEPT !.from = new.to]
           over == Min({x.to, new.to}) - Max({x.from, new.from})
           A == {r \in {a} : Nonempty(r)}
           B == {r \in {b} : Nonempty(r)}
<1>1. x \in Segments /\ new \in Segments
  BY DEF Places
<1>2. /\ x.sub \in Nat /\ x.plan \in Nat /\ x.from \in Nat /\ x.to \in Nat /\ x.from < x.to
      /\ new.from \in Nat /\ new.to \in Nat /\ new.from < new.to
      /\ x.plan \in P /\ x.from >= now /\ new.from >= now
      /\ Span[x] = x.to - x.from
  BY <1>1, SegmentFields DEF Places
<1>3. x.from < new.to /\ new.from < x.to
  BY DEF Yields
<1>4. /\ Min({x.to, new.to}) = IF x.to <= new.to THEN x.to ELSE new.to
      /\ Max({x.from, new.from}) = IF x.from >= new.from THEN x.from ELSE new.from
  <2>1. x.to \in Int /\ new.to \in Int /\ x.from \in Int /\ new.from \in Int
    BY <1>2
  <2>2. Min({x.to, new.to}) = IF x.to <= new.to THEN x.to ELSE new.to
    BY ONLY <2>1, MaxMin
  <2>3. Max({x.from, new.from}) = IF x.from >= new.from THEN x.from ELSE new.from
    BY ONLY <2>1, MaxMin
  <2>4. QED
    BY <2>2, <2>3
<1>5. over \in Nat /\ over <= Span[x]
  BY <1>2, <1>3, <1>4
<1>6. Rest(x, new) = A \cup B
  BY DEF Rest
<1>7. /\ a.from = x.from /\ a.to = new.from /\ b.from = new.to /\ b.to = x.to
      /\ Nonempty(a) => a \in Places(P, now)
      /\ Nonempty(b) => b \in Places(P, now)
  BY <1>1, <1>2 DEF Places, Segments, Nonempty
<1> HIDE DEF a, b
<1>8. IsFiniteSet(A) /\ Total(A, Span) = IF x.from < new.from THEN new.from - x.from ELSE 0
  <2>1. CASE Nonempty(a)
    <3>1. A = {a}
      BY <2>1
    <3>2. Span[a] = new.from - x.from /\ Span[a] \in Nat /\ x.from < new.from
      BY <1>7, <2>1, SegmentFields DEF Places, Nonempty
    <3>3. QED
      BY <3>1, <3>2, TotalOne, FS_Singleton
  <2>2. CASE ~Nonempty(a)
    <3>1. A = {} /\ ~(x.from < new.from)
      BY <1>7, <2>2 DEF Nonempty
    <3>2. QED
      BY <3>1, TotalEmpty, FS_EmptySet
  <2>3. QED
    BY <2>1, <2>2
<1>9. IsFiniteSet(B) /\ Total(B, Span) = IF new.to < x.to THEN x.to - new.to ELSE 0
  <2>1. CASE Nonempty(b)
    <3>1. B = {b}
      BY <2>1
    <3>2. Span[b] = x.to - new.to /\ Span[b] \in Nat /\ new.to < x.to
      BY <1>7, <2>1, SegmentFields DEF Places, Nonempty
    <3>3. QED
      BY <3>1, <3>2, TotalOne, FS_Singleton
  <2>2. CASE ~Nonempty(b)
    <3>1. B = {} /\ ~(new.to < x.to)
      BY <1>7, <2>2 DEF Nonempty
    <3>2. QED
      BY <3>1, TotalEmpty, FS_EmptySet
  <2>3. QED
    BY <2>1, <2>2
<1>10. A \cup B \subseteq Places(P, now)
  BY <1>7
<1>11. \A y \in A \cup B : Span[y] \in Nat
  BY <1>10, SegmentFields DEF Places
<1> HIDE DEF A, B
<1>12. IsFiniteSet(A \cup B) /\ Total(A \cup B, Span) <= Total(A, Span) + Total(B, Span)
  <2>1. IsFiniteSet(A) /\ IsFiniteSet(B)
    BY <1>8, <1>9
  <2>2. IsFiniteSet(A \cup B)
    BY <2>1, FS_Union
  <2>3. Total(A \cup B, Span) <= Total(A, Span) + Total(B, Span)
    BY ONLY <1>11, <2>1, TotalCup
  <2>4. QED
    BY <2>2, <2>3
<1>13. Total(A \cup B, Span) \in Nat
  BY <1>11, <1>12, TotalNat
<1>14. Total(A \cup B, Span) <= Span[x] - over
  <2>1. Total(A, Span) + Total(B, Span) = Span[x] - over
    BY <1>2, <1>3, <1>4, <1>8, <1>9
  <2> HIDE DEF over
  <2>2. QED
    BY <1>12, <2>1
<1>15. QED
  BY <1>5, <1>6, <1>10, <1>12, <1>14

(* What is displaced and what stays come from what was there *)
(* (insertSubscriptionTimelineSegment). *)
LEMMA InsertKeeps ==
  ASSUME NEW P, P \subseteq Nat, NEW now \in Nat,
         NEW S, IsFiniteSet(S), S \subseteq Places(P, now), NEW new \in Places(P, now)
  PROVE  /\ IsFiniteSet(Insert(S, new)) /\ Insert(S, new) \subseteq Places(P, now)
         /\ Displaced(S, new) \in Seq(Dues(P, now))
         /\ \A i \in DOMAIN Displaced(S, new) : Displaced(S, new)[i].plan < new.plan
         /\ \A Q : Due(Displaced(S, new), Q) \in Nat
         /\ Total(Insert(S, new), Span) + Due(Displaced(S, new), P)
              <= Total(S, Span) + Span[new]
<1> DEFINE overlap(x) == Min({x.to, new.to}) - Max({x.from, new.from})
           over == [x \in S |-> IF Yields(x, new) THEN overlap(x) ELSE 0]
           kept == [x \in S |-> Span[x] - over[x]]
           rest == [x \in S |-> Rest(x, new)]
           All == UNION {rest[x] : x \in S}
           L == {x \in S : Yields(x, new)}
           lost == InOrder(L)
           n == Cardinality(L)
           D == Displaced(S, new)
<1>1. S \subseteq Segments /\ L \subseteq S /\ new \in Segments /\ \A x \in S : Span[x] \in Nat
  BY SegmentFields DEF Places
<1>2. ASSUME NEW x \in S
      PROVE  /\ over[x] \in Nat /\ kept[x] \in Nat /\ Span[x] = kept[x] + over[x]
             /\ IsFiniteSet(rest[x]) /\ rest[x] \subseteq Places(P, now)
             /\ Total(rest[x], Span) <= kept[x]
  <2>0. Span[x] \in Nat /\ x \in Places(P, now)
    BY <1>1
  <2>1. CASE Yields(x, new)
    <3>1. /\ overlap(x) \in Nat /\ overlap(x) <= Span[x]
          /\ IsFiniteSet(Rest(x, new)) /\ Rest(x, new) \subseteq Places(P, now)
          /\ Total(Rest(x, new), Span) <= Span[x] - overlap(x)
      BY <2>0, <2>1, RestKeeps
    <3>2. over[x] = overlap(x) /\ kept[x] = Span[x] - overlap(x) /\ rest[x] = Rest(x, new)
      BY <2>1
    <3> HIDE DEF overlap, over, kept, rest
    <3>3. QED
      BY <2>0, <3>1, <3>2
  <2>2. CASE ~Yields(x, new)
    <3>1. over[x] = 0 /\ kept[x] = Span[x] - 0 /\ rest[x] = Rest(x, new)
      BY <2>2
    <3>2. Rest(x, new) = {x}
      BY <2>2 DEF Rest
    <3>3. IsFiniteSet({x}) /\ Total({x}, Span) = Span[x]
      BY <2>0, TotalOne, FS_Singleton
    <3> HIDE DEF overlap, over, kept, rest
    <3>4. QED
      BY <2>0, <3>1, <3>2, <3>3
  <2>3. QED
    BY <2>1, <2>2
<1>3. IsFiniteSet(All) /\ Total(All, Span) <= Total(S, kept)
  <2> HIDE DEF over, kept, rest
  <2>1. \A x \in S : \A y \in rest[x] : Span[y] \in Nat
    BY <1>2, SegmentFields DEF Places
  <2>2. QED
    BY <1>2, <2>1, TotalParts
<1>4. All \subseteq Places(P, now)
  <2> HIDE DEF rest
  <2>1. QED
    BY <1>2
<1>5. Total(S, Span) = Total(S, kept) + Total(S, over)
  <2> HIDE DEF over, kept, rest
  <2>1. QED
    BY <1>2, TotalPlus
<1>6. Insert(S, new) = Normal(All \cup {new})
  <2>1. All \cup {new} = {new} \cup UNION {Rest(x, new) : x \in S}
    OBVIOUS
  <2> HIDE DEF All
  <2>2. QED
    BY <2>1 DEF Insert
<1>7. /\ IsFiniteSet(All \cup {new}) /\ All \cup {new} \subseteq Places(P, now)
      /\ Total(All \cup {new}, Span) <= Total(All, Span) + Span[new]
  <2> HIDE DEF All
  <2>1. IsFiniteSet({new}) /\ Span[new] \in Nat
    BY <1>1, FS_Singleton, SegmentFields
  <2>2. \A x \in All \cup {new} : Span[x] \in Nat
    BY <1>4, <2>1, SegmentFields DEF Places
  <2>3. Total(All \cup {new}, Span) <= Total(All, Span) + Total({new}, Span)
    BY ONLY <1>3, <2>1, <2>2, TotalCup
  <2>4. Total({new}, Span) = Span[new]
    BY <2>1, TotalOne
  <2>5. IsFiniteSet(All \cup {new})
    BY <1>3, FS_AddElement
  <2>6. QED
    BY <1>4, <2>3, <2>4, <2>5
<1>8. /\ IsFiniteSet(Insert(S, new)) /\ Insert(S, new) \subseteq Places(P, now)
      /\ Total(Insert(S, new), Span) <= Total(All \cup {new}, Span)
  <2> HIDE DEF All
  <2>1. QED
    BY <1>6, <1>7, NormalKeeps
<1>9. IsFiniteSet(L) /\ n \in Nat /\ lost \in Seq(L) /\ DOMAIN lost = 1..n /\ lost \in Injection(1..n, L)
  <2>1. IsFiniteSet(L) /\ L \subseteq Segments
    BY <1>1, FS_Subset
  <2> HIDE DEF L
  <2>2. QED
    BY <2>1, InOrderLists, FS_CardinalityType
<1>10. ASSUME NEW i \in 1..n
       PROVE  /\ lost[i] \in S /\ Yields(lost[i], new) /\ overlap(lost[i]) \in Nat
              /\ overlap(lost[i]) = over[lost[i]]
  <2>1. lost[i] \in L
    <3> HIDE DEF lost, L, n
    <3>1. QED
      BY <1>9 DEF Injection
  <2>2. lost[i] \in S /\ Yields(lost[i], new)
    BY <2>1
  <2>3. over[lost[i]] \in Nat
    BY <1>2, <2>2
  <2>4. over[lost[i]] = overlap(lost[i])
    <3> HIDE DEF lost, overlap
    <3>1. QED
      BY <2>2
  <2> HIDE DEF over, overlap
  <2>5. QED
    BY <2>2, <2>3, <2>4
<1>11. D = [i \in 1..n |-> [sub |-> lost[i].sub, plan |-> lost[i].plan,
                           at |-> Max({new.to, lost[i].to}), long |-> overlap(lost[i])]]
  <2>1. D = [i \in DOMAIN lost |-> [sub |-> lost[i].sub, plan |-> lost[i].plan,
                           at |-> Max({new.to, lost[i].to}), long |-> overlap(lost[i])]]
    BY DEF Displaced
  <2> HIDE DEF D, overlap, lost, n
  <2>2. QED
    BY <1>9, <2>1
<1> HIDE DEF D, lost, n, overlap
<1>12. ASSUME NEW i \in 1..n
       PROVE  D[i] \in Dues(P, now) /\ D[i].plan < new.plan /\ D[i].long = over[lost[i]]
  <2>1. lost[i] \in Segments /\ lost[i] \in Places(P, now) /\ overlap(lost[i]) = over[lost[i]]
    BY <1>1, <1>10
  <2>2. /\ lost[i].sub \in Nat /\ lost[i].plan \in Nat /\ lost[i].to \in Int /\ new.to \in Int
        /\ lost[i].plan \in P /\ lost[i].from >= now /\ lost[i].from < lost[i].to
        /\ lost[i].from \in Nat
    BY <1>1, <2>1, SegmentFields DEF Places
  <2>3. Max({new.to, lost[i].to}) = IF new.to >= lost[i].to THEN new.to ELSE lost[i].to
    BY ONLY <2>2, MaxMin
  <2>4. Max({new.to, lost[i].to}) \in Nat /\ Max({new.to, lost[i].to}) >= now
    BY <2>2, <2>3
  <2>5. lost[i].plan < new.plan
    BY <1>10 DEF Yields
  <2>6. D[i] = [sub |-> lost[i].sub, plan |-> lost[i].plan,
                at |-> Max({new.to, lost[i].to}), long |-> overlap(lost[i])]
    BY <1>11
  <2>7. D[i] \in Dues(P, now)
    <3> DEFINE at == Max({new.to, lost[i].to})
               long == overlap(lost[i])
    <3>1. at \in Nat /\ at >= now /\ long \in Nat
      BY <1>10, <2>4
    <3>2. D[i] = [sub |-> lost[i].sub, plan |-> lost[i].plan, at |-> at, long |-> long]
      BY <2>6
    <3> HIDE DEF at, long
    <3>3. QED
      BY <2>2, <3>1, <3>2 DEF Dues, Grants
  <2> HIDE DEF over
  <2>8. D[i].plan < new.plan /\ D[i].long = over[lost[i]]
    BY <2>1, <2>5, <2>6
  <2>9. QED
    BY <2>7, <2>8
<1>13. DOMAIN D = 1..n /\ D \in Seq(Dues(P, now))
  <2>1. DOMAIN D = 1..n
    BY <1>11
  <2>2. D = [i \in 1..n |-> D[i]]
    BY <1>11
  <2>3. D \in [1..n -> Dues(P, now)]
    BY <1>12, <2>2
  <2>4. QED
    BY <1>9, <2>1, <2>3, SeqDef
<1>14. \A Q : Due(D, Q) \in Nat
  <2> TAKE Q
  <2>1. IsFiniteSet(1..n)
    BY <1>9, FS_Interval
  <2>2. \A i \in 1..n : Longs(D, Q)[i] \in Nat
    BY <1>2, <1>10, <1>12, <1>13 DEF Longs, Dues, Grants
  <2>3. QED
    BY <1>13, <2>1, <2>2, TotalNat DEF Due
<1>15. Due(D, P) <= Total(S, over)
  <2> HIDE DEF over, L
  <2>1. \A i \in 1..n : Longs(D, P)[i] = over[lost[i]]
    BY <1>12, <1>13 DEF Longs, Dues
  <2>2. \A x \in L : over[x] \in Nat
    BY <1>1, <1>2
  <2>3. \A i \in 1..n : lost[i] \in L
    BY <1>9 DEF Injection
  <2>4. Due(D, P) = Total(1..n, Longs(D, P))
    BY <1>13 DEF Due
  <2>5. \A i \in 1..n : Longs(D, P)[i] \in Nat /\ Longs(D, P)[i] <= over[lost[i]]
    BY <2>1, <2>2, <2>3
  <2>6. Total(1..n, Longs(D, P)) <= Total(L, over)
    BY <1>9, <2>2, <2>5, TotalInto
  <2>7. Total(L, over) <= Total(S, over)
    BY <1>1, <1>2, TotalSubset
  <2>8. Total(L, over) \in Nat /\ Total(S, over) \in Nat /\ Due(D, P) \in Nat
    BY <1>2, <1>9, <1>14, <2>2, TotalNat
  <2>9. QED
    BY <2>4, <2>6, <2>7, <2>8
<1>16. /\ Total(Insert(S, new), Span) \in Nat /\ Total(All \cup {new}, Span) \in Nat
       /\ Total(All, Span) \in Nat /\ Total(S, kept) \in Nat /\ Total(S, over) \in Nat
       /\ Span[new] \in Nat
  <2> HIDE DEF All, kept, over, rest
  <2>1. /\ \A x \in Insert(S, new) : Span[x] \in Nat
        /\ \A x \in All \cup {new} : Span[x] \in Nat
        /\ \A x \in All : Span[x] \in Nat
        /\ Span[new] \in Nat
    BY <1>4, <1>7, <1>8, SegmentFields DEF Places
  <2>2. Total(Insert(S, new), Span) \in Nat
    BY ONLY <1>8, <2>1, TotalNat
  <2>3. Total(All \cup {new}, Span) \in Nat
    BY ONLY <1>7, <2>1, TotalNat
  <2>4. Total(All, Span) \in Nat
    BY ONLY <1>3, <2>1, TotalNat
  <2>5. Total(S, kept) \in Nat /\ Total(S, over) \in Nat
    BY <1>2, TotalNat
  <2>6. QED
    BY <2>1, <2>2, <2>3, <2>4, <2>5
<1> HIDE DEF All, kept, over
<1>17. Total(Insert(S, new), Span) + Due(D, P) <= Total(S, Span) + Span[new]
  BY <1>3, <1>5, <1>7, <1>8, <1>14, <1>15, <1>16
<1>18. QED
  BY <1>8, <1>12, <1>13, <1>14, <1>17 DEF D
-----------------------------------------------------------------------------
(* The grants that wait (buildSubscriptionTimeline).                       *)

(* What a queue asks for is a number. *)
LEMMA DueNat ==
  ASSUME NEW q \in Seq(Grants), NEW Q
  PROVE  /\ IsFiniteSet(DOMAIN q) /\ \A i \in DOMAIN q : Longs(q, Q)[i] \in Nat
         /\ Due(q, Q) \in Nat
<1>1. DOMAIN q = 1..Len(q) /\ Len(q) \in Nat
  BY LenProperties
<1>2. IsFiniteSet(DOMAIN q)
  BY <1>1, FS_Interval
<1>3. ASSUME NEW i \in DOMAIN q PROVE Longs(q, Q)[i] \in Nat
  <2>1. q[i] \in Grants
    BY <1>1, ElementOfSeq
  <2>2. q[i].long \in Nat
    BY <2>1 DEF Grants
  <2>3. QED
    BY <2>2 DEF Longs
<1>4. QED
  BY <1>2, <1>3, TotalNat DEF Due

(* Two queues in one. *)
LEMMA DueConcat ==
  ASSUME NEW p \in Seq(Grants), NEW q \in Seq(Grants), NEW Q
  PROVE  Due(p \o q, Q) = Due(p, Q) + Due(q, Q)
<1> DEFINE r == p \o q
           m == Len(p)
           n == Len(q)
<1>1. /\ DOMAIN p = 1..m /\ m \in Nat /\ DOMAIN q = 1..n /\ n \in Nat
      /\ r \in Seq(Grants) /\ DOMAIN r = 1..(m + n)
      /\ \A i \in 1..(m + n) : r[i] = IF i <= m THEN p[i] ELSE q[i - m]
  BY LenProperties, ConcatProperties
<1> HIDE DEF r, m, n
<1>2. \A i \in 1..m : Longs(p, Q)[i] \in Nat /\ Longs(r, Q)[i] = Longs(p, Q)[i]
  <2>1. ASSUME NEW i \in 1..m PROVE r[i] = p[i] /\ i \in DOMAIN r
    BY <1>1
  <2>2. \A i \in 1..m : Longs(p, Q)[i] \in Nat
    BY <1>1, DueNat
  <2>3. \A i \in 1..m : Longs(r, Q)[i] = Longs(p, Q)[i]
    BY <1>1, <2>1 DEF Longs
  <2>4. QED
    BY <2>2, <2>3
<1>3. \A i \in 1..n : Longs(q, Q)[i] \in Nat /\ Longs(r, Q)[m + i] = Longs(q, Q)[i]
  <2>1. ASSUME NEW i \in 1..n PROVE r[m + i] = q[i] /\ m + i \in DOMAIN r
    BY <1>1
  <2>2. QED
    BY <1>1, <2>1, DueNat DEF Longs
<1>4. Total(1..(m + n), Longs(r, Q)) = Total(1..m, Longs(p, Q)) + Total(1..n, Longs(q, Q))
  <2>1. PICK f, g, h : f = Longs(r, Q) /\ g = Longs(p, Q) /\ h = Longs(q, Q)
    OBVIOUS
  <2>2. m \in Nat /\ n \in Nat
    BY <1>1
  <2>3. /\ \A i \in 1..m : g[i] \in Nat /\ f[i] = g[i]
        /\ \A i \in 1..n : h[i] \in Nat /\ f[m + i] = h[i]
    BY <1>2, <1>3, <2>1
  <2>4. Total(1..(m + n), f) = Total(1..m, g) + Total(1..n, h)
    BY ONLY <2>2, <2>3, TotalConcat
  <2>5. QED
    BY <2>1, <2>4
<1>5. QED
  BY <1>1, <1>4 DEF Due, r

(* A queue without a grant of these plans. *)
LEMMA DueNone ==
  ASSUME NEW q, NEW Q, \A i \in DOMAIN q : q[i].plan \notin Q
  PROVE  Due(q, Q) = 0
<1>1. \A i \in DOMAIN q : Longs(q, Q)[i] = 0
  BY DEF Longs
<1>2. ASSUME NEW i \in DOMAIN q PROVE {i} \X (1..Longs(q, Q)[i]) = {}
  <2>1. 1..Longs(q, Q)[i] = {}
    BY <1>1
  <2>2. QED
    BY <2>1
<1>3. Cells(DOMAIN q, Longs(q, Q)) = {}
  BY <1>2 DEF Cells
<1>4. QED
  BY <1>3, FS_EmptySet DEF Due, Total

(* A queue of one grant. *)
LEMMA DueOne ==
  ASSUME NEW g \in Grants, NEW Q
  PROVE  Due(<<g>>, Q) = IF g.plan \in Q THEN g.long ELSE 0
<1>1. DOMAIN <<g>> = {1} /\ <<g>>[1] = g
  OBVIOUS
<1>2. PICK f : f = Longs(<<g>>, Q)
  OBVIOUS
<1>3. f[1] = IF g.plan \in Q THEN g.long ELSE 0
  BY <1>1, <1>2 DEF Longs
<1>4. f[1] \in Nat
  BY <1>3 DEF Grants
<1>5. Total({1}, f) = f[1]
  BY <1>4, TotalOne
<1>6. QED
  BY <1>1, <1>2, <1>3, <1>5 DEF Due

(* A queue is its first grant and the others. *)
LEMMA DueFirst ==
  ASSUME NEW q \in Seq(Grants), q # <<>>, NEW Q
  PROVE  Due(q, Q) = (IF Head(q).plan \in Q THEN Head(q).long ELSE 0) + Due(Tail(q), Q)
<1>1. PICK g, t : g = Head(q) /\ t = Tail(q)
  OBVIOUS
<1>2. /\ g \in Grants /\ t \in Seq(Grants) /\ Len(t) = Len(q) - 1
      /\ \A i \in 1..Len(t) : t[i] = q[i + 1]
      /\ q[1] = g /\ Len(q) \in Nat \ {0}
  BY <1>1, HeadTailProperties, LenProperties, EmptySeq
<1>3. <<g>> \in Seq(Grants) /\ Len(<<g>>) = 1 /\ <<g>>[1] = g
  BY <1>2
<1>4. /\ <<g>> \o t \in Seq(Grants) /\ Len(<<g>> \o t) = 1 + Len(t)
      /\ \A i \in 1..(1 + Len(t)) : (<<g>> \o t)[i] = IF i <= 1 THEN <<g>>[i] ELSE t[i - 1]
  BY <1>2, <1>3, ConcatProperties
<1>5. q = <<g>> \o t
  <2>1. \A i \in 1..Len(q) : q[i] = (<<g>> \o t)[i]
    <3> TAKE i \in 1..Len(q)
    <3>1. CASE i = 1
      BY <1>2, <1>3, <1>4, <3>1
    <3>2. CASE i # 1
      <4>1. i - 1 \in 1..Len(t) /\ i \in 1..(1 + Len(t)) /\ ~(i <= 1) /\ (i - 1) + 1 = i
        BY <1>2, <3>2
      <4>2. q[i] = t[i - 1]
        BY <1>2, <4>1
      <4>3. QED
        BY <1>4, <4>1, <4>2
    <3>3. QED
      BY <3>1, <3>2
  <2>2. Len(q) = Len(<<g>> \o t)
    BY <1>2, <1>4
  <2>3. QED
    BY <1>4, <2>1, <2>2, SeqEqual
<1>6. Due(<<g>> \o t, Q) = Due(<<g>>, Q) + Due(t, Q)
  BY <1>2, <1>3, DueConcat
<1>7. QED
  <2>1. Due(<<g>>, Q) = IF g.plan \in Q THEN g.long ELSE 0
    BY <1>2, DueOne
  <2>2. Due(q, Q) = Due(<<g>> \o t, Q)
    BY <1>5
  <2>3. QED
    BY <1>1, <1>6, <2>1, <2>2

(* A queue of which the first grant asks for less. *)
LEMMA DueHead ==
  ASSUME NEW q \in Seq(Grants), q # <<>>, NEW g \in Grants, NEW Q,
         g.plan = Head(q).plan, g.long <= Head(q).long
  PROVE  Due(<<g>> \o Tail(q), Q) =
           Due(q, Q) - (IF g.plan \in Q THEN Head(q).long - g.long ELSE 0)
<1> DEFINE r == <<g>> \o Tail(q)
           n == Len(q)
           f == Longs(q, Q)
           h == Longs(r, Q)
<1>1. /\ Tail(q) \in Seq(Grants) /\ Len(Tail(q)) = n - 1 /\ n \in Nat \ {0}
      /\ \A i \in 1..(n - 1) : Tail(q)[i] = q[i + 1]
      /\ Head(q) = q[1] /\ DOMAIN q = 1..n
  BY HeadTailProperties, LenProperties, EmptySeq
<1>2. <<g>> \in Seq(Grants) /\ Len(<<g>>) = 1 /\ <<g>>[1] = g
  OBVIOUS
<1>3. /\ r \in Seq(Grants) /\ Len(r) = n
      /\ \A i \in 1..n : r[i] = IF i <= 1 THEN <<g>>[i] ELSE Tail(q)[i - 1]
  BY <1>1, <1>2, ConcatProperties
<1>4. DOMAIN r = 1..n
  BY <1>3, LenProperties
<1> HIDE DEF r, n
<1>5. r[1] = g /\ \A i \in (1..n) \ {1} : r[i] = q[i]
  BY <1>1, <1>2, <1>3
<1>6. /\ IsFiniteSet(1..n) /\ \A i \in 1..n : f[i] \in Nat
      /\ \A i \in 1..n : h[i] \in Nat
  BY <1>1, <1>3, <1>4, DueNat
<1>7. /\ \A i \in (1..n) \ {1} : f[i] = h[i]
      /\ f[1] = IF Head(q).plan \in Q THEN Head(q).long ELSE 0
      /\ h[1] = IF g.plan \in Q THEN g.long ELSE 0
      /\ 1 \in 1..n
  BY <1>1, <1>4, <1>5 DEF Longs
<1> HIDE DEF f, h
<1>8. /\ Total(1..n, f) = Total((1..n) \ {1}, f) + f[1]
      /\ Total(1..n, h) = Total((1..n) \ {1}, h) + h[1]
  <2>1. PICK I, x : I = 1..n /\ x = 1
    OBVIOUS
  <2>2. x \in I /\ IsFiniteSet(I) /\ (\A i \in I : f[i] \in Nat) /\ (\A i \in I : h[i] \in Nat)
    BY <1>6, <1>7, <2>1
  <2>3. Total(I, f) = Total(I \ {x}, f) + f[x] /\ Total(I, h) = Total(I \ {x}, h) + h[x]
    BY ONLY <2>2, TotalRemove
  <2>4. QED
    BY <2>1, <2>3
<1>9. Total((1..n) \ {1}, f) = Total((1..n) \ {1}, h)
  BY <1>7, TotalSame
<1>10. Total((1..n) \ {1}, f) \in Nat
  BY <1>6, FS_RemoveElement, TotalNat
<1>11. Head(q).long \in Nat /\ g.long \in Nat
  <2>1. Head(q) \in Grants
    BY HeadTailProperties
  <2>2. QED
    BY <2>1 DEF Grants
<1>12. Total(1..n, h) = Total(1..n, f) - (IF g.plan \in Q THEN Head(q).long - g.long ELSE 0)
  BY <1>7, <1>8, <1>9, <1>10, <1>11
<1>13. QED
  BY <1>1, <1>4, <1>12 DEF Due, f, h, r
-----------------------------------------------------------------------------
(* One round of the loops (placeSubscriptionTimelineGrant).                *)

(* There is an earliest segment. *)
LEMMA EarliestIs ==
  ASSUME NEW S, S \subseteq Segments, S # {}
  PROVE  /\ Earliest(S) \in S
         /\ \A y \in S : Earliest(S).from <= y.from
<1>1. \A x \in S : x.from \in Nat /\ x.to \in Nat
  BY SegmentFields
<1> DEFINE From == {x.from : x \in S}
<1>2. From \subseteq Nat /\ From # {}
  BY <1>1
<1>3. PICK f \in From : \A g \in From : f <= g
  <2> HIDE DEF From
  <2> QED BY <1>2, LeastNat
<1>4. \A y \in S : f <= y.from
  BY <1>3
<1> DEFINE To == {x.to : x \in {s \in S : s.from = f}}
<1>5. To \subseteq Nat /\ To # {}
  BY <1>1, <1>3
<1>6. PICK l \in To : \A m \in To : l <= m
  <2> HIDE DEF To
  <2> QED BY <1>5, LeastNat
<1>7. PICK x \in S : x.from = f /\ x.to = l
  BY <1>6
<1>8. \A y \in S : y.from = f => l <= y.to
  BY <1>6
<1>9. \A y \in S : x.from < y.from \/ (x.from = y.from /\ x.to <= y.to)
  <2> TAKE y \in S
  <2>1. f <= y.from /\ (y.from = f => l <= y.to) /\ f \in Nat /\ y.from \in Nat
    BY <1>1, <1>4, <1>7, <1>8
  <2>2. QED
    BY <1>7, <2>1
<1>10. /\ Earliest(S) \in S
       /\ \A y \in S : \/ Earliest(S).from < y.from
                      \/ (Earliest(S).from = y.from /\ Earliest(S).to <= y.to)
  BY <1>9 DEF Earliest
<1>11. QED
  BY <1>1, <1>10

(* What a work consists of. *)
LEMMA WithinFields ==
  ASSUME NEW P, P \subseteq Nat, NEW now \in Nat, NEW w \in Within(P, now)
  PROVE  /\ IsFiniteSet(w.segs) /\ w.segs \subseteq Places(P, now) /\ w.segs \subseteq Segments
         /\ w.queue \in Seq(Dues(P, now)) /\ w.moved \in Seq(Dues(P, now))
         /\ w.queue \in Seq(Grants) /\ w.moved \in Seq(Grants)
         /\ w.queue # <<>> =>
              LET grant == Head(w.queue)
              IN /\ grant \in Dues(P, now) /\ grant \in Grants /\ grant.sub \in Nat
                 /\ grant.plan \in P /\ grant.plan \in Nat /\ grant.long \in Nat
                 /\ grant.at \in Nat /\ grant.at >= now
<1>1. /\ IsFiniteSet(w.segs) /\ w.segs \subseteq Places(P, now)
      /\ w.queue \in Seq(Dues(P, now)) /\ w.moved \in Seq(Dues(P, now))
  BY DEF Within
<1>2. Places(P, now) \subseteq Segments /\ Dues(P, now) \subseteq Grants
  BY DEF Places, Dues
<1>3. w.queue \in Seq(Grants) /\ w.moved \in Seq(Grants)
  BY <1>1, <1>2, SeqMonotonic
<1>4. w.queue # <<>> => Head(w.queue) \in Dues(P, now)
  BY <1>1, HeadTailProperties
<1>5. \A g \in Dues(P, now) : /\ g \in Grants /\ g.sub \in Nat /\ g.plan \in P /\ g.plan \in Nat
                               /\ g.long \in Nat /\ g.at \in Nat /\ g.at >= now
  BY DEF Dues, Grants
<1>6. QED
  BY <1>1, <1>2, <1>3, <1>4, <1>5

(* A grant that has its time makes way for what it has moved. *)
LEMMA PlaceNext ==
  ASSUME NEW P, P \subseteq Nat, NEW now \in Nat, NEW w \in Within(P, now),
         w.queue # <<>>, Head(w.queue).long = 0
  PROVE  /\ Place(w) \in Within(P, now)
         /\ Place(w).segs = w.segs
         /\ Place(w).queue = w.moved \o Tail(w.queue)
         /\ Place(w).moved = <<>>
<1>1. Place(w) = [w EXCEPT !.queue = w.moved \o Tail(w.queue), !.moved = <<>>]
  BY DEF Place, NextGrant
<1>2. w.moved \o Tail(w.queue) \in Seq(Dues(P, now)) /\ <<>> \in Seq(Dues(P, now))
  <2>1. w.moved \in Seq(Dues(P, now)) /\ Tail(w.queue) \in Seq(Dues(P, now))
    BY WithinFields, HeadTailProperties
  <2>2. QED
    BY <2>1, ConcatProperties, EmptySeq
<1>3. QED
  BY <1>1, <1>2 DEF Within

(* What a grant that waits becomes. *)
Waited(w, first, g) ==
  /\ g.plan = Head(w.queue).plan /\ g.long = Head(w.queue).long /\ g.at = first.to
  /\ first.from <= Head(w.queue).at
  /\ Place(w).queue = <<g>> \o Tail(w.queue)

(* A grant that is blocked waits for the earliest that blocks it. *)
LEMMA PlaceWaits ==
  ASSUME NEW P, P \subseteq Nat, NEW now \in Nat, NEW w \in Within(P, now),
         w.queue # <<>>, Head(w.queue).long > 0,
         Blocked(w.segs, Head(w.queue).plan, Head(w.queue).at)
  PROVE  /\ Place(w) \in Within(P, now)
         /\ Place(w).segs = w.segs
         /\ Place(w).moved = w.moved
         /\ \E first \in InTheWay(w), g \in Dues(P, now) : Waited(w, first, g)
<1> DEFINE grant == Head(w.queue)
           blockers == Blockers(w.segs, grant.plan, grant.at)
           first == Earliest(blockers)
           g == [grant EXCEPT !.at = first.to, !.long = grant.long]
<1>1. /\ grant \in Dues(P, now) /\ grant \in Grants /\ grant.plan \in P /\ grant.long \in Nat
      /\ grant.at \in Nat /\ grant.at >= now
      /\ w.segs \subseteq Segments /\ Tail(w.queue) \in Seq(Dues(P, now))
  BY WithinFields, HeadTailProperties
<1>2. Place(w) = [w EXCEPT !.queue = <<g>> \o Tail(w.queue)]
  <2>1. Place(w) = Waits(w)
    BY <1>1 DEF Place
  <2>2. QED
    BY <2>1 DEF Waits, Then, InTheWay
<1>3. first \in blockers /\ first.from <= grant.at
  BY <1>1, EarliestIs DEF Blocked, Blockers
<1>4. first.to \in Nat /\ first.to > grant.at
  BY <1>1, <1>3, SegmentFields DEF Blockers
<1> HIDE DEF blockers, first, grant
<1>5. g \in Dues(P, now) /\ g.plan = grant.plan /\ g.long = grant.long /\ g.at = first.to
  <2>1. PICK at : at = first.to
    OBVIOUS
  <2>2. g = [grant EXCEPT !.at = at, !.long = grant.long]
    BY <2>1
  <2>3. at \in Nat /\ at >= now
    BY <1>1, <1>4, <2>1
  <2> HIDE DEF g
  <2>4. g \in Dues(P, now) /\ g.plan = grant.plan /\ g.long = grant.long /\ g.at = at
    BY <1>1, <2>2, <2>3 DEF Dues, Grants
  <2>5. QED
    BY <2>1, <2>4
<1> HIDE DEF g
<1>6. <<g>> \o Tail(w.queue) \in Seq(Dues(P, now))
  <2>1. <<g>> \in Seq(Dues(P, now))
    BY <1>5
  <2>2. QED
    BY <1>1, <2>1, ConcatProperties
<1>7. /\ Place(w) \in Within(P, now) /\ Place(w).segs = w.segs /\ Place(w).moved = w.moved
      /\ Place(w).queue = <<g>> \o Tail(w.queue)
  BY <1>2, <1>6 DEF Within
<1>8. first \in InTheWay(w) /\ Waited(w, first, g)
  BY <1>3, <1>5, <1>7 DEF blockers, grant, InTheWay, Waited
<1>9. QED
  BY <1>5, <1>7, <1>8

(* A segment meets lower plans only. *)
Wins(S, new) == \A x \in S : x.plan >= new.plan => x.to <= new.from \/ new.to <= x.from

(* What a grant that is given time becomes. *)
Took(w, new, g) ==
  /\ new.plan = Head(w.queue).plan /\ g.plan = Head(w.queue).plan
  /\ new.from = Head(w.queue).at /\ g.at = new.to
  /\ Wins(w.segs, new)
  /\ g.long = Head(w.queue).long - Span[new]
  /\ Place(w).segs = Insert(w.segs, new)
  /\ Place(w).queue = <<g>> \o Tail(w.queue)
  /\ Place(w).moved = w.moved \o Displaced(w.segs, new)

(* A grant that is not blocked takes its time up to the next that blocks it. *)
LEMMA PlaceTakes ==
  ASSUME NEW P, P \subseteq Nat, NEW now \in Nat, NEW w \in Within(P, now),
         w.queue # <<>>, Head(w.queue).long > 0,
         ~Blocked(w.segs, Head(w.queue).plan, Head(w.queue).at)
  PROVE  /\ Place(w) \in Within(P, now)
         /\ \E new \in Places(P, now), g \in Dues(P, now) : Took(w, new, g)
<1> DEFINE grant == Head(w.queue)
           blockers == Blockers(w.segs, grant.plan, grant.at)
           first == Earliest(blockers)
           to == IF blockers = {} THEN grant.at + grant.long
                                  ELSE Min({grant.at + grant.long, first.from})
           new == [sub |-> grant.sub, plan |-> grant.plan, from |-> grant.at, to |-> to]
           long == grant.long - (to - grant.at)
           g == [grant EXCEPT !.at = to, !.long = long]
<1>1. /\ grant \in Dues(P, now) /\ grant \in Grants /\ grant.plan \in P /\ grant.long \in Nat
      /\ grant.at \in Nat /\ grant.at >= now /\ grant.sub \in Nat /\ grant.plan \in Nat
      /\ w.segs \subseteq Segments /\ IsFiniteSet(w.segs) /\ w.segs \subseteq Places(P, now)
      /\ w.moved \in Seq(Dues(P, now)) /\ Tail(w.queue) \in Seq(Dues(P, now))
  BY WithinFields, HeadTailProperties
<1>2. Place(w) = [segs |-> Insert(w.segs, new),
                  queue |-> <<g>> \o Tail(w.queue),
                  moved |-> w.moved \o Displaced(w.segs, new)]
  <2>1. Place(w) = Takes(w)
    BY <1>1 DEF Place
  <2>2. to = Until(w)
    BY DEF Until, InTheWay
  <2> HIDE DEF to
  <2>3. QED
    BY <2>1, <2>2 DEF Takes, Then
<1>3. to \in Nat /\ grant.at < to /\ to <= grant.at + grant.long
  <2>1. CASE blockers = {}
    BY <1>1, <2>1
  <2>2. CASE blockers # {}
    <3>1. first.from \in Nat
      BY <1>1, <2>2, EarliestIs, SegmentFields DEF Blockers
    <3>2. first.from > grant.at
      BY <1>1, <2>2, <3>1 DEF Blocked
    <3>3. grant.at + grant.long \in Int /\ first.from \in Int
      BY <1>1, <3>1
    <3> HIDE DEF first, blockers, grant
    <3>4. Min({grant.at + grant.long, first.from}) =
            IF grant.at + grant.long <= first.from THEN grant.at + grant.long ELSE first.from
      BY ONLY <3>3, MaxMin
    <3>5. Head(w.queue).long > 0
      OBVIOUS
    <3>6. grant.long > 0
      BY <3>5 DEF grant
    <3>7. QED
      BY <1>1, <2>2, <3>1, <3>2, <3>4, <3>6
  <2>3. QED
    BY <2>1, <2>2
<1>11. ASSUME NEW x \in w.segs, x.plan >= grant.plan PROVE x.to <= grant.at \/ to <= x.from
  <2>1. x.to \in Nat /\ x.from \in Nat
    BY <1>1, SegmentFields
  <2>2. CASE x.to <= grant.at
    BY <2>2
  <2>3. CASE ~(x.to <= grant.at)
    <3>1. x \in blockers
      BY <1>1, <1>11, <2>1, <2>3 DEF Blockers
    <3>2. first.from <= x.from /\ first.from \in Nat
      BY <1>1, <3>1, EarliestIs, SegmentFields DEF Blockers
    <3>3. to = Min({grant.at + grant.long, first.from}) /\ grant.at + grant.long \in Int
      BY <1>1, <3>1
    <3> HIDE DEF to, blockers, first, grant
    <3>4. to <= first.from
      <4>1. grant.at + grant.long \in Int /\ first.from \in Int
        BY <3>2, <3>3
      <4>2. Min({grant.at + grant.long, first.from}) =
              IF grant.at + grant.long <= first.from THEN grant.at + grant.long ELSE first.from
        BY ONLY <4>1, MaxMin
      <4>3. QED
        BY <3>3, <4>1, <4>2
    <3>5. QED
      BY <1>3, <2>1, <3>2, <3>4
  <2>4. QED
    BY <2>2, <2>3
<1> HIDE DEF to, blockers, first
<1>4. new \in Places(P, now) /\ new.plan = grant.plan /\ Span[new] = to - grant.at
  <2> HIDE DEF grant
  <2>1. new \in Places(P, now)
    BY <1>1, <1>3 DEF Places, Segments, Nonempty
  <2>2. new \in Segments /\ new.from = grant.at /\ new.to = to /\ new.plan = grant.plan
    BY <2>1 DEF Places
  <2> HIDE DEF new
  <2>3. QED
    BY <2>1, <2>2, SegmentFields
<1>12. new.from = grant.at /\ new.to = to /\ Wins(w.segs, new)
  BY <1>4, <1>11 DEF Wins
<1>5. g \in Dues(P, now) /\ g.plan = grant.plan /\ g.long = grant.long - Span[new] /\ g.at = to
  <2>1. long \in Nat /\ long = grant.long - Span[new] /\ to >= now
    <3>1. PICK at, all, last, span :
            at = grant.at /\ all = grant.long /\ last = to /\ span = Span[new]
      OBVIOUS
    <3>2. /\ at \in Nat /\ all \in Nat /\ last \in Nat /\ at < last /\ last <= at + all
          /\ at >= now /\ span = last - at
      BY <1>1, <1>3, <1>4, <3>1
    <3>3. all - (last - at) \in Nat /\ all - (last - at) = all - span /\ last >= now
      BY ONLY <3>2, now \in Nat
    <3>4. long = all - (last - at)
      BY <3>1
    <3>5. QED
      BY <3>1, <3>3, <3>4
  <2> HIDE DEF grant, long
  <2>2. QED
    BY <1>1, <1>3, <2>1 DEF Dues, Grants
<1> HIDE DEF new, g
<1>6. <<g>> \o Tail(w.queue) \in Seq(Dues(P, now))
  <2>1. <<g>> \in Seq(Dues(P, now))
    BY <1>5
  <2>2. QED
    BY <1>1, <2>1, ConcatProperties
<1>7. /\ IsFiniteSet(Insert(w.segs, new)) /\ Insert(w.segs, new) \subseteq Places(P, now)
      /\ w.moved \o Displaced(w.segs, new) \in Seq(Dues(P, now))
  <2>1. Displaced(w.segs, new) \in Seq(Dues(P, now))
    BY <1>1, <1>4, InsertKeeps
  <2>2. w.moved \o Displaced(w.segs, new) \in Seq(Dues(P, now))
    BY <1>1, <2>1, ConcatProperties
  <2>3. IsFiniteSet(Insert(w.segs, new)) /\ Insert(w.segs, new) \subseteq Places(P, now)
    BY <1>1, <1>4, InsertKeeps
  <2>4. QED
    BY <2>2, <2>3
<1>8. /\ Place(w) \in Within(P, now) /\ Place(w).segs = Insert(w.segs, new)
      /\ Place(w).queue = <<g>> \o Tail(w.queue)
      /\ Place(w).moved = w.moved \o Displaced(w.segs, new)
  BY <1>2, <1>6, <1>7 DEF Within
<1>9. Took(w, new, g)
  BY <1>4, <1>5, <1>8, <1>12 DEF grant, Took
<1>10. QED
  BY <1>4, <1>5, <1>8, <1>9

(* What has been placed and what still waits. *)
Waiting(w, Q) == Due(w.queue, Q) + Due(w.moved, Q)

Left(w, P) == Total(w.segs, Span) + Waiting(w, P)

(* The times of a work are natural numbers. *)
LEMMA WaitingNat ==
  ASSUME NEW P, P \subseteq Nat, NEW now \in Nat, NEW w \in Within(P, now), NEW Q
  PROVE  /\ Due(w.queue, Q) \in Nat /\ Due(w.moved, Q) \in Nat /\ Waiting(w, Q) \in Nat
         /\ Total(w.segs, Span) \in Nat /\ Left(w, P) \in Nat
<1>1. /\ IsFiniteSet(w.segs) /\ w.segs \subseteq Segments
      /\ w.queue \in Seq(Grants) /\ w.moved \in Seq(Grants)
  BY WithinFields
<1>2. \A R : Due(w.queue, R) \in Nat /\ Due(w.moved, R) \in Nat
  BY <1>1, DueNat
<1>3. \A x \in w.segs : Span[x] \in Nat
  BY <1>1, SegmentFields
<1>4. Total(w.segs, Span) \in Nat
  BY <1>1, <1>3, TotalNat
<1>5. QED
  BY <1>2, <1>4 DEF Waiting, Left

(* A round that places nothing changes nothing of what waits. *)
LEMMA WaitingStays ==
  ASSUME NEW P, P \subseteq Nat, NEW now \in Nat, NEW w \in Within(P, now), w.queue # <<>>,
         \/ Head(w.queue).long = 0
         \/ Blocked(w.segs, Head(w.queue).plan, Head(w.queue).at),
         NEW Q
  PROVE  Waiting(Place(w), Q) = Waiting(w, Q) /\ Place(w).segs = w.segs
<1>1. /\ w.queue \in Seq(Grants) /\ w.moved \in Seq(Grants)
      /\ Head(w.queue) \in Grants /\ Head(w.queue).long \in Nat
      /\ Tail(w.queue) \in Seq(Grants)
  BY WithinFields, HeadTailProperties
<1>2. Due(w.queue, Q) \in Nat /\ Due(w.moved, Q) \in Nat /\ Due(Tail(w.queue), Q) \in Nat
  BY <1>1, DueNat
<1>3. CASE Head(w.queue).long = 0
  <2>1. /\ Place(w).segs = w.segs /\ Place(w).queue = w.moved \o Tail(w.queue)
        /\ Place(w).moved = <<>>
    BY <1>3, PlaceNext
  <2>2. Due(<<>>, Q) = 0
    BY DueNone
  <2>3. Due(w.moved \o Tail(w.queue), Q) = Due(w.moved, Q) + Due(Tail(w.queue), Q)
    BY <1>1, DueConcat
  <2>4. Due(Tail(w.queue), Q) = Due(w.queue, Q)
    BY <1>1, <1>2, <1>3, DueFirst
  <2>5. Due(w.moved \o Tail(w.queue), Q) \in Nat
    BY <1>1, ConcatProperties, DueNat
  <2>6. QED
    BY <1>2, <2>1, <2>2, <2>3, <2>4, <2>5 DEF Waiting
<1>4. CASE Head(w.queue).long # 0
  <2>1. Head(w.queue).long > 0 /\ Blocked(w.segs, Head(w.queue).plan, Head(w.queue).at)
    BY <1>1, <1>4
  <2>2. PICK g \in Dues(P, now) :
          /\ g.plan = Head(w.queue).plan /\ g.long = Head(w.queue).long
          /\ Place(w).queue = <<g>> \o Tail(w.queue)
    BY <2>1, PlaceWaits DEF Waited
  <2>3. Place(w).segs = w.segs /\ Place(w).moved = w.moved
    BY <2>1, PlaceWaits
  <2>4. g \in Grants /\ g.long <= Head(w.queue).long /\ Head(w.queue).long - g.long = 0
    BY <1>1, <2>2 DEF Dues
  <2>5. Due(<<g>> \o Tail(w.queue), Q) =
          Due(w.queue, Q) - (IF g.plan \in Q THEN Head(w.queue).long - g.long ELSE 0)
    BY <1>1, <2>2, <2>4, DueHead
  <2>6. Due(<<g>> \o Tail(w.queue), Q) = Due(w.queue, Q)
    BY <1>2, <2>4, <2>5
  <2>7. QED
    BY <1>2, <2>2, <2>3, <2>6 DEF Waiting
<1>5. QED
  BY <1>3, <1>4

(* A round that places some time takes it from what waits, and displaces *)
(* lower plans only. *)
LEMMA WaitingTaken ==
  ASSUME NEW P, P \subseteq Nat, NEW now \in Nat, NEW w \in Within(P, now),
         w.queue # <<>>, Head(w.queue).long > 0,
         ~Blocked(w.segs, Head(w.queue).plan, Head(w.queue).at)
  PROVE  /\ Left(Place(w), P) <= Left(w, P)
         /\ Waiting(Place(w), {Head(w.queue).plan}) < Waiting(w, {Head(w.queue).plan})
         /\ \A q \in Nat : q > Head(w.queue).plan => Waiting(Place(w), {q}) <= Waiting(w, {q})
<1>1. /\ w.queue \in Seq(Grants) /\ w.moved \in Seq(Grants)
      /\ Head(w.queue) \in Grants /\ Head(w.queue).long \in Nat
      /\ Head(w.queue).plan \in P /\ Head(w.queue).plan \in Nat
      /\ IsFiniteSet(w.segs) /\ w.segs \subseteq Places(P, now)
  BY WithinFields
<1>2. PICK new \in Places(P, now), g \in Dues(P, now) : Took(w, new, g)
  BY PlaceTakes
<1>3. /\ new.plan = Head(w.queue).plan /\ g.plan = Head(w.queue).plan
      /\ g.long = Head(w.queue).long - Span[new]
      /\ Place(w).segs = Insert(w.segs, new)
      /\ Place(w).queue = <<g>> \o Tail(w.queue)
      /\ Place(w).moved = w.moved \o Displaced(w.segs, new)
  BY <1>2 DEF Took
<1> DEFINE D == Displaced(w.segs, new)
           d == Span[new]
           plan == Head(w.queue).plan
<1>4. /\ D \in Seq(Dues(P, now)) /\ \A i \in DOMAIN D : D[i].plan < new.plan
      /\ \A Q : Due(D, Q) \in Nat
      /\ Total(Insert(w.segs, new), Span) + Due(D, P) <= Total(w.segs, Span) + Span[new]
  BY <1>1, InsertKeeps
<1>5. d \in Nat /\ d > 0 /\ g \in Grants /\ D \in Seq(Grants)
  <2>1. new \in Segments /\ g \in Grants /\ Dues(P, now) \subseteq Grants
    BY DEF Places, Dues
  <2>2. D \in Seq(Grants)
    BY <1>4, <2>1, SeqMonotonic
  <2>3. QED
    BY <2>1, <2>2, SegmentFields
<1> HIDE DEF D, d, plan
<1>6. ASSUME NEW Q
      PROVE  /\ Due(Place(w).queue, Q) = Due(w.queue, Q) - (IF plan \in Q THEN d ELSE 0)
             /\ Due(Place(w).moved, Q) = Due(w.moved, Q) + Due(D, Q)
             /\ Due(w.queue, Q) \in Nat /\ Due(w.moved, Q) \in Nat /\ Due(Place(w).queue, Q) \in Nat
             /\ Due(Place(w).moved, Q) \in Nat
  <2>1. g.long <= Head(w.queue).long /\ Head(w.queue).long - g.long = d /\ g.plan = Head(w.queue).plan
    BY <1>1, <1>3, <1>5 DEF d
  <2>2. Due(<<g>> \o Tail(w.queue), Q) =
          Due(w.queue, Q) - (IF g.plan \in Q THEN Head(w.queue).long - g.long ELSE 0)
    BY <1>1, <1>5, <2>1, DueHead
  <2>3. Due(w.moved \o D, Q) = Due(w.moved, Q) + Due(D, Q)
    BY <1>1, <1>5, DueConcat
  <2>4. Due(w.queue, Q) \in Nat /\ Due(w.moved, Q) \in Nat
    BY <1>1, DueNat
  <2>5. Due(Place(w).queue, Q) \in Nat /\ Due(Place(w).moved, Q) \in Nat
    <3>1. Place(w) \in Within(P, now)
      BY PlaceTakes
    <3>2. QED
      BY <3>1, WaitingNat
  <2>6. QED
    BY <1>3, <2>1, <2>2, <2>3, <2>4, <2>5 DEF D, plan
<1>7. Left(Place(w), P) <= Left(w, P)
  <2>1. Place(w) \in Within(P, now)
    BY PlaceTakes
  <2>2. Total(Place(w).segs, Span) \in Nat /\ Total(w.segs, Span) \in Nat
    BY <2>1, WaitingNat
  <2>3. Total(Place(w).segs, Span) + Due(D, P) <= Total(w.segs, Span) + d
    BY <1>3, <1>4 DEF D, d
  <2>4. plan \in P /\ Due(D, P) \in Nat
    BY <1>1, <1>4 DEF plan
  <2>5. /\ Due(Place(w).queue, P) = Due(w.queue, P) - d
        /\ Due(Place(w).moved, P) = Due(w.moved, P) + Due(D, P)
        /\ Due(w.queue, P) \in Nat /\ Due(w.moved, P) \in Nat
    BY <1>6, <2>4
  <2>6. PICK a, b, c, e, due, q0, m0 :
          /\ a = Total(Place(w).segs, Span) /\ b = Total(w.segs, Span)
          /\ c = Due(Place(w).queue, P) /\ e = Due(Place(w).moved, P) /\ due = Due(D, P)
          /\ q0 = Due(w.queue, P) /\ m0 = Due(w.moved, P)
    OBVIOUS
  <2>7. /\ a \in Nat /\ b \in Nat /\ a + due <= b + d /\ due \in Nat /\ d \in Nat
        /\ c = q0 - d /\ e = m0 + due /\ q0 \in Nat /\ m0 \in Nat
    BY <1>5, <2>2, <2>3, <2>4, <2>5, <2>6
  <2>8. a + (c + e) <= b + (q0 + m0)
    BY ONLY <2>7
  <2>9. QED
    BY <2>6, <2>8 DEF Left, Waiting
<1>8. ASSUME NEW q \in Nat, q >= plan PROVE Due(D, {q}) = 0
  <2>1. \A i \in DOMAIN D : D[i].plan \in Nat
    <3>1. DOMAIN D = 1..Len(D)
      BY <1>5, LenProperties
    <3>2. \A i \in DOMAIN D : D[i] \in Grants
      BY <1>5, <3>1, ElementOfSeq
    <3>3. QED
      BY <3>2 DEF Grants
  <2>2. plan \in Nat /\ new.plan = plan
    BY <1>1, <1>3 DEF plan
  <2>3. \A i \in DOMAIN D : D[i].plan \notin {q}
    BY <1>4, <1>8, <2>1, <2>2
  <2>4. QED
    BY <2>3, DueNone
<1>9. plan \in Nat /\ plan >= plan
  BY <1>1 DEF plan
<1>10. Waiting(Place(w), {plan}) < Waiting(w, {plan})
  <2>1. PICK Q : Q = {plan}
    OBVIOUS
  <2>2. Due(D, Q) = 0 /\ plan \in Q
    BY <1>8, <1>9, <2>1
  <2>3. Waiting(Place(w), Q) < Waiting(w, Q)
    BY <1>5, <1>6, <2>2 DEF Waiting
  <2>4. QED
    BY <2>1, <2>3
<1>11. ASSUME NEW q \in Nat, q > plan PROVE Waiting(Place(w), {q}) <= Waiting(w, {q})
  <2>1. plan \notin {q} /\ Due(D, {q}) = 0
    BY <1>8, <1>9, <1>11
  <2>2. QED
    BY <1>6, <2>1 DEF Waiting
<1>12. QED
  BY <1>7, <1>10, <1>11 DEF plan
-----------------------------------------------------------------------------
(* The loops (buildSubscriptionTimeline).                                  *)

(* A round of a loop leads to another work, from no more time to no more. *)
LEMMA PlaceKeeps ==
  ASSUME NEW P, P \subseteq Nat, NEW now \in Nat, NEW w \in Within(P, now), w.queue # <<>>
  PROVE  Place(w) \in Within(P, now) /\ Left(Place(w), P) <= Left(w, P)
<1>1. Head(w.queue).long \in Nat
  BY WithinFields
<1>2. CASE Head(w.queue).long > 0 /\ ~Blocked(w.segs, Head(w.queue).plan, Head(w.queue).at)
  BY <1>2, PlaceTakes, WaitingTaken
<1>3. CASE \/ Head(w.queue).long = 0
           \/ Blocked(w.segs, Head(w.queue).plan, Head(w.queue).at)
  <2>1. Place(w) \in Within(P, now)
    <3>1. CASE Head(w.queue).long = 0
      BY <3>1, PlaceNext
    <3>2. CASE Head(w.queue).long # 0
      <4>1. Head(w.queue).long > 0
        BY <1>1, <3>2
      <4>2. QED
        BY <1>3, <3>2, <4>1, PlaceWaits
    <3>3. QED
      BY <3>1, <3>2
  <2>2. Waiting(Place(w), P) = Waiting(w, P) /\ Place(w).segs = w.segs
    BY <1>3, WaitingStays
  <2>3. /\ Waiting(Place(w), P) \in Nat /\ Waiting(w, P) \in Nat
        /\ Total(w.segs, Span) \in Nat
    BY <2>1, WaitingNat
  <2>4. QED
    BY <2>1, <2>2, <2>3 DEF Left
<1>4. QED
  BY <1>1, <1>2, <1>3

(* The works of the loop are those of all plans at all times. *)
LEMMA WorksAre == Works = Within(Nat, 0)
<1>1. Places(Nat, 0) = Segments
  BY DEF Places, Segments
<1>2. Dues(Nat, 0) = Grants
  <2>1. \A g \in Grants : g.plan \in Nat /\ g.at >= 0
    BY DEF Grants
  <2>2. QED
    BY <2>1 DEF Dues
<1>3. QED
  BY <1>1, <1>2 DEF Works, Within

(* A work on some plans is a work. *)
LEMMA WithinWorks ==
  ASSUME NEW P, P \subseteq Nat, NEW now \in Nat, NEW w \in Within(P, now)
  PROVE  w \in Works
<1>1. Places(P, now) \subseteq Segments /\ Dues(P, now) \subseteq Grants
  BY DEF Places, Dues
<1>2. w.queue \in Seq(Grants) /\ w.moved \in Seq(Grants) /\ IsFiniteSet(w.segs) /\ w.segs \subseteq Segments
  BY WithinFields
<1>3. QED
  BY <1>2 DEF Works, Within

(* The loop goes on until its queue is empty. *)
LEMMA BuildLoops ==
  ASSUME NEW w \in Works
  PROVE  Build[w] = IF w.queue = <<>> THEN w.segs ELSE Build[Place(w)]
<1> DEFINE Done == {v \in Works : v.queue = <<>>}
           out == [v \in Works |-> v.segs]
           step == [v \in Works |-> IF v.queue = <<>> THEN v ELSE Place(v)]
<1>1. step \in [Works -> Works]
  <2>1. \A v \in Works : v.queue # <<>> => Place(v) \in Works
    BY WorksAre, PlaceKeeps
  <2>2. QED
    BY <2>1
<1>2. PICK f : IsLoop(f, Works, Done, out, step)
  <2>1. Done \in SUBSET Works
    OBVIOUS
  <2> HIDE DEF Done, out, step
  <2>2. QED
    BY <1>1, <2>1, LoopExists
<1>3. f = [v \in Works |-> IF v.queue = <<>> THEN v.segs ELSE f[Place(v)]]
  <2>1. \A v \in Works : f[v] = IF v.queue = <<>> THEN v.segs ELSE f[Place(v)]
    <3> TAKE v \in Works
    <3>1. f[v] = IF v \in Done THEN out[v] ELSE f[step[v]]
      <4> HIDE DEF Done, out, step
      <4> QED BY <1>2 DEF IsLoop
    <3>2. QED
      BY <3>1
  <2> HIDE DEF Done, out, step
  <2>2. f = [v \in Works |-> f[v]]
    BY <1>2 DEF IsLoop
  <2>3. QED
    BY <2>1, <2>2
<1>4. Build = [v \in Works |-> IF v.queue = <<>> THEN v.segs ELSE Build[Place(v)]]
  <2> HIDE DEF Done, out, step
  <2>1. QED
    BY <1>3 DEF Build
<1>5. QED
  BY <1>4

(* What a round does to the length of the queues and to what is in the way. *)
Queued(w) == Len(w.queue) + Len(w.moved)

Ahead(w) == Cardinality(InTheWay(w))

(* A grant that is placed leaves the queues. *)
LEMMA SizeFalls ==
  ASSUME NEW P, P \subseteq Nat, NEW now \in Nat, NEW w \in Within(P, now), w.queue # <<>>
  PROVE  /\ Queued(w) \in Nat
         /\ Head(w.queue).long = 0 => Queued(Place(w)) < Queued(w)
         /\ Head(w.queue).long > 0 /\ Blocked(w.segs, Head(w.queue).plan, Head(w.queue).at)
              => Queued(Place(w)) = Queued(w)
<1>1. /\ w.queue \in Seq(Dues(P, now)) /\ w.moved \in Seq(Dues(P, now))
      /\ Tail(w.queue) \in Seq(Dues(P, now)) /\ Len(Tail(w.queue)) = Len(w.queue) - 1
  BY WithinFields, HeadTailProperties
<1>2. Len(w.queue) \in Nat /\ Len(w.moved) \in Nat
  BY <1>1, LenProperties
<1>3. ASSUME Head(w.queue).long = 0 PROVE Queued(Place(w)) < Queued(w)
  <2>1. Place(w).queue = w.moved \o Tail(w.queue) /\ Place(w).moved = <<>>
    BY <1>3, PlaceNext
  <2>2. Len(w.moved \o Tail(w.queue)) = Len(w.moved) + Len(Tail(w.queue))
    BY <1>1, ConcatProperties
  <2>3. Len(<<>>) = 0
    OBVIOUS
  <2>4. Queued(Place(w)) = Len(w.moved \o Tail(w.queue)) + Len(<<>>)
    BY <2>1 DEF Queued
  <2>5. Queued(w) = Len(w.queue) + Len(w.moved)
    BY DEF Queued
  <2>6. PICK a, b, c, d, e : /\ a = Len(w.queue) /\ b = Len(w.moved) /\ c = Len(Tail(w.queue))
                             /\ d = Len(w.moved \o Tail(w.queue)) /\ e = Len(<<>>)
    OBVIOUS
  <2>7. a \in Nat /\ b \in Nat /\ c = a - 1 /\ d = b + c /\ e = 0
    BY <1>1, <1>2, <2>2, <2>3, <2>6
  <2>8. Queued(Place(w)) = d + e /\ Queued(w) = a + b
    BY <2>4, <2>5, <2>6
  <2>9. QED
    BY ONLY <2>7, <2>8
<1>4. ASSUME Head(w.queue).long > 0, Blocked(w.segs, Head(w.queue).plan, Head(w.queue).at)
      PROVE  Queued(Place(w)) = Queued(w)
  <2>1. PICK g \in Dues(P, now) : Place(w).queue = <<g>> \o Tail(w.queue)
    BY <1>4, PlaceWaits DEF Waited
  <2>2. Place(w).moved = w.moved
    BY <1>4, PlaceWaits
  <2>3. <<g>> \in Seq(Dues(P, now)) /\ Len(<<g>>) = 1
    OBVIOUS
  <2>4. Len(<<g>> \o Tail(w.queue)) = Len(<<g>>) + Len(Tail(w.queue))
    BY <1>1, <2>3, ConcatProperties
  <2>5. Queued(Place(w)) = Len(<<g>> \o Tail(w.queue)) + Len(w.moved)
    BY <2>1, <2>2 DEF Queued
  <2>6. Queued(w) = Len(w.queue) + Len(w.moved)
    BY DEF Queued
  <2>7. PICK a, b, c, d, e : /\ a = Len(w.queue) /\ b = Len(w.moved) /\ c = Len(Tail(w.queue))
                             /\ d = Len(<<g>> \o Tail(w.queue)) /\ e = Len(<<g>>)
    OBVIOUS
  <2>8. a \in Nat /\ b \in Nat /\ c = a - 1 /\ d = e + c /\ e = 1
    BY <1>1, <1>2, <2>3, <2>4, <2>7
  <2>9. Queued(Place(w)) = d + b /\ Queued(w) = a + b
    BY <2>5, <2>6, <2>7
  <2>10. QED
    BY ONLY <2>8, <2>9
<1>5. Queued(w) \in Nat
  <2>1. PICK a, b : a = Len(w.queue) /\ b = Len(w.moved)
    OBVIOUS
  <2>2. a \in Nat /\ b \in Nat
    BY <1>2, <2>1
  <2>3. a + b \in Nat
    BY ONLY <2>2
  <2>4. Queued(w) = a + b
    BY <2>1 DEF Queued
  <2>5. QED
    BY <2>3, <2>4
<1>6. QED
  BY <1>3, <1>4, <1>5

(* A grant that waits has less before it. *)
LEMMA AheadFalls ==
  ASSUME NEW P, P \subseteq Nat, NEW now \in Nat, NEW w \in Within(P, now), w.queue # <<>>
  PROVE  /\ Ahead(w) \in Nat
         /\ Head(w.queue).long > 0 /\ Blocked(w.segs, Head(w.queue).plan, Head(w.queue).at)
              => /\ Place(w).queue # <<>>
                 /\ Ahead(Place(w)) < Ahead(w)
<1> DEFINE grant == Head(w.queue)
           X == Blockers(w.segs, grant.plan, grant.at)
<1>1. /\ IsFiniteSet(w.segs) /\ w.segs \subseteq Segments
      /\ w.queue \in Seq(Dues(P, now)) /\ Tail(w.queue) \in Seq(Dues(P, now))
      /\ grant.at \in Nat
  BY WithinFields, HeadTailProperties
<1>2. X \subseteq w.segs /\ IsFiniteSet(X) /\ Cardinality(X) \in Nat
  <2>1. X \subseteq w.segs
    BY DEF Blockers
  <2> HIDE DEF X
  <2>2. QED
    BY <1>1, <2>1, FS_Subset, FS_CardinalityType
<1>3. Ahead(w) = Cardinality(X)
  BY DEF Ahead, InTheWay
<1>4. ASSUME Head(w.queue).long > 0, Blocked(w.segs, Head(w.queue).plan, Head(w.queue).at)
      PROVE  Place(w).queue # <<>> /\ Ahead(Place(w)) < Ahead(w)
  <2>1. PICK first \in X, g \in Dues(P, now) :
          /\ g.plan = grant.plan /\ g.at = first.to
          /\ Place(w).queue = <<g>> \o Tail(w.queue)
    <3>1. \E f \in InTheWay(w), g \in Dues(P, now) : Waited(w, f, g)
      BY <1>4, PlaceWaits
    <3>2. QED
      BY <3>1 DEF Waited, InTheWay
  <2>2. Place(w).segs = w.segs
    BY <1>4, PlaceWaits
  <2>3. <<g>> \in Seq(Dues(P, now)) /\ Len(<<g>>) = 1 /\ <<g>>[1] = g
    OBVIOUS
  <2>4. /\ <<g>> \o Tail(w.queue) \in Seq(Dues(P, now))
        /\ Len(<<g>> \o Tail(w.queue)) = 1 + Len(Tail(w.queue)) /\ Len(Tail(w.queue)) \in Nat
        /\ (<<g>> \o Tail(w.queue))[1] = g
    BY <1>1, <2>3, ConcatProperties, LenProperties
  <2> DEFINE r == <<g>> \o Tail(w.queue)
  <2>5. r # <<>> /\ Head(r) = g
    <3> HIDE DEF r
    <3>1. Len(r) # 0 /\ r[1] = g
      BY <2>4 DEF r
    <3>2. r # <<>>
      BY <3>1
    <3>3. QED
      BY <2>4, <3>1, <3>2 DEF r
  <2> DEFINE Y == Blockers(w.segs, g.plan, g.at)
  <2>6. Ahead(Place(w)) = Cardinality(Y)
    BY <2>1, <2>2, <2>5 DEF Ahead, InTheWay
  <2>7. first \in Segments /\ first.to \in Nat /\ first.to > grant.at
    BY <1>1, <1>2, SegmentFields DEF Blockers
  <2>8. Y \subseteq X /\ first \notin Y
    <3>1. \A y \in w.segs : y.to \in Nat
      BY <1>1, SegmentFields
    <3>2. QED
      BY <1>1, <2>1, <2>7, <3>1 DEF Blockers
  <2> HIDE DEF X, Y
  <2>9. Cardinality(Y) <= Cardinality(X) /\ Cardinality(Y) # Cardinality(X) /\ Cardinality(Y) \in Nat
    BY <1>2, <2>1, <2>8, FS_Subset, FS_CardinalityType
  <2>10. QED
    BY <1>2, <1>3, <2>1, <2>5, <2>6, <2>9
<1>5. QED
  BY <1>2, <1>3, <1>4

(* No work goes on and on. *)
LEMMA RoundsEnd ==
  ASSUME NEW B \in Nat, NEW P, P \subseteq 0..B, NEW now \in Nat,
         NEW Bad, Bad \subseteq Within(P, now),
         \A w \in Bad : w.queue # <<>> /\ Place(w) \in Bad
  PROVE  Bad = {}
<1> DEFINE Vec(v) == [p \in 0..B |-> Waiting(v, {p})]
           V == {Vec(v) : v \in Bad}
<1> SUFFICES ASSUME Bad # {} PROVE FALSE
  OBVIOUS
<1>0. P \subseteq Nat
  OBVIOUS
<1>1. ASSUME NEW v \in Bad PROVE v \in Within(P, now) /\ v.queue # <<>> /\ Place(v) \in Bad
  OBVIOUS
<1>2. ASSUME NEW v \in Bad, NEW q PROVE Waiting(v, {q}) \in Nat
  BY <1>0, <1>1, WaitingNat
<1>3. V \subseteq [0..B -> Nat] /\ V # {}
  <2>1. \A v \in Bad : Vec(v) \in [0..B -> Nat]
    BY <1>2
  <2> HIDE DEF Vec
  <2>2. QED
    BY <2>1
<1>4. PICK a \in V : \A v \in V, p \in 0..B :
        ~(v[p] < a[p] /\ \A q \in 0..B : q > p => v[q] <= a[q])
  <2> HIDE DEF V
  <2>1. QED
    BY <1>3, LeastVector
<1> DEFINE Low == {v \in Bad : Vec(v) = a}
<1>5. Low # {} /\ a \in [0..B -> Nat]
  BY <1>3, <1>4
<1>6. ASSUME NEW v \in Low
      PROVE  /\ v \in Bad /\ v \in Within(P, now) /\ v.queue # <<>> /\ Head(v.queue).long \in Nat
             /\ \/ Head(v.queue).long = 0
                \/ Blocked(v.segs, Head(v.queue).plan, Head(v.queue).at)
             /\ Place(v) \in Low
  <2>1. v \in Bad /\ Place(v) \in Bad /\ v.queue # <<>> /\ v \in Within(P, now) /\ Vec(v) = a
    BY <1>1
  <2>2. Head(v.queue).long \in Nat /\ Head(v.queue).plan \in P
    BY <1>0, <2>1, WithinFields
  <2>3. \A q \in 0..B : a[q] = Waiting(v, {q}) /\ Vec(Place(v))[q] = Waiting(Place(v), {q})
    <3>1. \A q \in 0..B : Vec(v)[q] = Waiting(v, {q}) /\ Vec(Place(v))[q] = Waiting(Place(v), {q})
      OBVIOUS
    <3>2. QED
      BY <2>1, <3>1
  <2>4. Vec(Place(v)) \in V
    BY <2>1
  <2> HIDE DEF Vec, V, Low
  <2>5. \/ Head(v.queue).long = 0
        \/ Blocked(v.segs, Head(v.queue).plan, Head(v.queue).at)
    <3> SUFFICES ASSUME Head(v.queue).long # 0,
                        ~Blocked(v.segs, Head(v.queue).plan, Head(v.queue).at)
                 PROVE  FALSE
      OBVIOUS
    <3>1. Head(v.queue).long > 0
      BY <2>2
    <3> DEFINE p == Head(v.queue).plan
    <3>2. /\ Waiting(Place(v), {p}) < Waiting(v, {p})
          /\ \A q \in Nat : q > p => Waiting(Place(v), {q}) <= Waiting(v, {q})
      BY <1>0, <2>1, <3>1, WaitingTaken
    <3>3. p \in 0..B
      BY <2>2
    <3> HIDE DEF p
    <3>4. Vec(Place(v))[p] < a[p] /\ \A q \in 0..B : q > p => Vec(Place(v))[q] <= a[q]
      <4>1. Vec(Place(v))[p] < a[p]
        BY <2>3, <3>2, <3>3
      <4>2. ASSUME NEW q \in 0..B, q > p PROVE Vec(Place(v))[q] <= a[q]
        <5>1. a[q] = Waiting(v, {q}) /\ Vec(Place(v))[q] = Waiting(Place(v), {q})
          BY <2>3
        <5>2. q \in Nat
          OBVIOUS
        <5>3. Waiting(Place(v), {q}) <= Waiting(v, {q})
          BY <3>2, <4>2, <5>2
        <5>4. QED
          BY <5>1, <5>3
      <4>3. QED
        BY <4>1, <4>2
    <3>5. QED
      BY <1>4, <2>4, <3>3, <3>4
  <2>6. \A q \in 0..B : Vec(Place(v))[q] = a[q]
    <3> TAKE q \in 0..B
    <3>1. a[q] = Waiting(v, {q}) /\ Vec(Place(v))[q] = Waiting(Place(v), {q})
      BY <2>3
    <3>2. Waiting(Place(v), {q}) = Waiting(v, {q})
      BY <1>0, <2>1, <2>5, WaitingStays
    <3>3. QED
      BY <3>1, <3>2
  <2>7. Vec(Place(v)) = a
    BY <1>3, <1>5, <2>4, <2>6
  <2>8. Place(v) \in Low
    BY <2>1, <2>7 DEF Low
  <2>9. QED
    BY <2>1, <2>2, <2>5, <2>8
<1> HIDE DEF Vec, V, Low
<1> DEFINE Lengths == {Queued(v) : v \in Low}
<1>7. Lengths \subseteq Nat /\ Lengths # {}
  BY <1>0, <1>5, <1>6, SizeFalls
<1>8. PICK n \in Lengths : \A m \in Lengths : n <= m
  <2> HIDE DEF Lengths
  <2> QED BY <1>7, LeastNat
<1> DEFINE Short == {v \in Low : Queued(v) = n}
<1>9. Short # {} /\ \A v \in Low : n <= Queued(v)
  BY <1>8
<1> HIDE DEF Lengths
<1>10. ASSUME NEW v \in Short
       PROVE  Ahead(v) \in Nat /\ Place(v) \in Short /\ Ahead(Place(v)) < Ahead(v)
  <2>1. v \in Low /\ Queued(v) = n /\ Place(v) \in Low
    BY <1>6
  <2>2. v \in Within(P, now) /\ v.queue # <<>> /\ Head(v.queue).long \in Nat
    BY <1>6, <2>1
  <2>3. Queued(v) \in Nat /\ Queued(Place(v)) \in Nat
    BY <1>0, <1>6, <2>1, <2>2, SizeFalls
  <2>4. n <= Queued(Place(v))
    BY <1>9, <2>1
  <2>5. Head(v.queue).long # 0
    <3> SUFFICES ASSUME Head(v.queue).long = 0 PROVE FALSE
      OBVIOUS
    <3>1. Queued(Place(v)) < Queued(v)
      BY <1>0, <2>2, SizeFalls
    <3>2. QED
      BY <2>1, <2>3, <2>4, <3>1
  <2>6. Head(v.queue).long > 0 /\ Blocked(v.segs, Head(v.queue).plan, Head(v.queue).at)
    BY <1>6, <2>1, <2>2, <2>5
  <2>7. Queued(Place(v)) = Queued(v)
    BY <1>0, <2>2, <2>6, SizeFalls
  <2>8. Ahead(v) \in Nat /\ Ahead(Place(v)) < Ahead(v)
    BY <1>0, <2>2, <2>6, AheadFalls
  <2>9. QED
    BY <2>1, <2>7, <2>8
<1> HIDE DEF Short
<1> DEFINE Counts == {Ahead(v) : v \in Short}
<1>11. Counts \subseteq Nat /\ Counts # {}
  BY <1>9, <1>10
<1>12. PICK c \in Counts : \A d \in Counts : c <= d
  <2> HIDE DEF Counts
  <2> QED BY <1>11, LeastNat
<1>13. PICK v \in Short : Ahead(v) = c
  BY <1>12
<1>14. Ahead(Place(v)) \in Counts /\ Ahead(Place(v)) < c /\ c \in Nat /\ Ahead(Place(v)) \in Nat
  BY <1>10, <1>13
<1>15. QED
  BY <1>12, <1>14

(* The loop ends, with segments of the plans there were, none before now, *)
(* and no more time than was there and was granted. *)
LEMMA BuildKeeps ==
  ASSUME NEW B \in Nat, NEW P, P \subseteq 0..B, NEW now \in Nat, NEW w \in Within(P, now)
  PROVE  /\ IsFiniteSet(Build[w]) /\ Build[w] \subseteq Places(P, now)
         /\ Total(Build[w], Span) <= Left(w, P)
<1> DEFINE Good(v) == /\ IsFiniteSet(Build[v]) /\ Build[v] \subseteq Places(P, now)
                      /\ Total(Build[v], Span) <= Left(v, P)
           Bad == {v \in Within(P, now) : ~Good(v)}
<1>0. P \subseteq Nat
  OBVIOUS
<1>1. ASSUME NEW v \in Bad PROVE v \in Within(P, now) /\ v.queue # <<>> /\ Place(v) \in Bad
  <2>1. v \in Within(P, now) /\ ~Good(v)
    OBVIOUS
  <2>2. Build[v] = IF v.queue = <<>> THEN v.segs ELSE Build[Place(v)]
    BY <1>0, <2>1, WithinWorks, BuildLoops
  <2>3. v.queue # <<>>
    <3> SUFFICES ASSUME v.queue = <<>> PROVE Good(v)
      BY <2>1
    <3>1. Build[v] = v.segs
      BY <2>2
    <3>2. IsFiniteSet(v.segs) /\ v.segs \subseteq Places(P, now)
      BY <1>0, <2>1, WithinFields
    <3>3. Total(v.segs, Span) \in Nat /\ Waiting(v, P) \in Nat
      BY <1>0, <2>1, WaitingNat
    <3>4. Total(v.segs, Span) <= Left(v, P)
      BY <3>3 DEF Left
    <3>5. QED
      BY <3>1, <3>2, <3>4
  <2>4. Place(v) \in Within(P, now) /\ Left(Place(v), P) <= Left(v, P)
    BY <1>0, <2>1, <2>3, PlaceKeeps
  <2>5. ~Good(Place(v))
    <3> SUFFICES ASSUME Good(Place(v)) PROVE Good(v)
      BY <2>1
    <3>1. Build[v] = Build[Place(v)]
      BY <2>2, <2>3
    <3>2. IsFiniteSet(Build[v]) /\ Build[v] \subseteq Places(P, now)
      BY <3>1
    <3>3. \A x \in Build[v] : Span[x] \in Nat
      BY <3>2, SegmentFields DEF Places
    <3>4. Total(Build[v], Span) \in Nat
      BY <3>2, <3>3, TotalNat
    <3>5. Left(v, P) \in Nat /\ Left(Place(v), P) \in Nat
      BY <1>0, <2>1, <2>4, WaitingNat
    <3>6. Total(Build[v], Span) <= Left(Place(v), P)
      BY <3>1
    <3>7. Total(Build[v], Span) <= Left(v, P)
      BY <2>4, <3>4, <3>5, <3>6
    <3>8. QED
      BY <3>2, <3>7
  <2>6. QED
    BY <2>1, <2>3, <2>4, <2>5
<1>2. Bad = {}
  <2>1. Bad \subseteq Within(P, now)
    OBVIOUS
  <2> HIDE DEF Bad
  <2>2. QED
    BY <1>1, <2>1, RoundsEnd
<1>3. QED
  BY <1>2
-----------------------------------------------------------------------------
(* One plan at a time, the highest first.                                  *)

(* A plan of at least this rank holds then. *)
Over(S, t, p) == \E x \in S : In(x, t) /\ x.plan >= p

(* At most one plan at a time. *)
Apart(S) == \A x, y \in S, t \in Nat : In(x, t) /\ In(y, t) => x = y

(* Lower plans follow, without a gap. *)
Stacked(S, now) ==
  \A s, t, p \in Nat : now <= s /\ s <= t /\ Over(S, t, p) => Over(S, s, p)

Moments(S) == {t \in Nat : Over(S, t, 0)}

(* What is joined is of one plan. *)
LEMMA RunOfOne ==
  ASSUME NEW S, IsFiniteSet(S), S \subseteq Segments, NEW x \in S, NEW z \in Run(S, x)
  PROVE  z.plan = x.plan
<1> DEFINE Others == {y \in Run(S, x) : y.plan # x.plan}
<1> SUFFICES ASSUME Others # {} PROVE FALSE
  OBVIOUS
<1>1. Others \subseteq S /\ Others \subseteq Segments
  BY DEF Run
<1>2. PICK y \in Others : \A w \in Others : w = y \/ Before(y, w)
  <2>1. IsFiniteSet(Others)
    BY <1>1, FS_Subset
  <2> HIDE DEF Others
  <2>2. QED
    BY <1>1, <2>1, FirstSegment
<1>3. y \in Run(S, x) /\ y.plan # x.plan /\ y \in S /\ y \in Segments /\ x \in Segments
  BY <1>1, <1>2
<1>4. Before(x, y) /\ \A s \in Starts(S) : Before(x, s) => Before(y, s)
  BY <1>3 DEF Run
<1>5. y \notin Starts(S)
  BY <1>3, <1>4, BeforeOrders
<1>6. PICK v \in S : Continues(S, v, y)
  BY <1>3, <1>5 DEF Starts
<1>7. /\ v \in Segments /\ Before(v, y) /\ v.plan = y.plan
      /\ ~(Before(v, x) /\ Before(x, y))
  BY <1>6 DEF Continues
<1>8. Before(x, v)
  <2>1. v # x
    BY <1>3, <1>7
  <2>2. QED
    BY <1>3, <1>4, <1>7, <2>1, BeforeOrders
<1>9. v \in Run(S, x)
  <2>1. \A s \in Starts(S) : s \in Segments
    BY DEF Starts
  <2>2. \A s \in Starts(S) : Before(x, s) => Before(v, s)
    BY <1>3, <1>4, <1>7, <2>1, BeforeOrders
  <2>3. QED
    BY <1>6, <1>8, <2>2 DEF Run
<1>10. v \in Others
  BY <1>3, <1>7, <1>9
<1>11. QED
  BY <1>2, <1>3, <1>7, <1>10, BeforeOrders

(* Every segment is joined to a start. *)
LEMMA RunOfEach ==
  ASSUME NEW S, IsFiniteSet(S), S \subseteq Segments, NEW y \in S
  PROVE  \E x \in Starts(S) : y \in Run(S, x) /\ x.from <= y.from
<1> DEFINE Upto == {s \in Starts(S) : s = y \/ Before(s, y)}
<1>1. Starts(S) \subseteq S /\ Upto \subseteq S /\ Upto \subseteq Segments
  BY DEF Starts
<1>2. Upto # {}
  <2>1. PICK f \in S : \A s \in S : s = f \/ Before(f, s)
    BY FirstSegment
  <2>2. \A s \in S : ~Before(s, f)
    BY <2>1, BeforeOrders
  <2>3. f \in Starts(S)
    BY <2>2 DEF Starts, Continues
  <2>4. QED
    BY <2>1, <2>3
<1>3. PICK x \in Upto : \A s \in Upto : s = x \/ Before(s, x)
  <2>1. IsFiniteSet(Upto)
    BY <1>1, FS_Subset
  <2> HIDE DEF Upto
  <2>2. QED
    BY <1>1, <1>2, <2>1, LastSegment
<1>4. x \in Starts(S) /\ x \in Segments /\ y \in Segments /\ (x = y \/ Before(x, y))
  BY <1>1, <1>3
<1>5. ASSUME NEW s \in Starts(S), Before(x, s) PROVE Before(y, s)
  <2>1. s \in Segments
    BY <1>1
  <2>2. s \notin Upto
    BY <1>3, <1>4, <1>5, <2>1, BeforeOrders
  <2>3. QED
    BY <1>4, <2>1, <2>2, BeforeOrders
<1>6. y \in Run(S, x)
  BY <1>4, <1>5 DEF Run
<1>7. x.from <= y.from
  BY <1>4, SegmentFields DEF Before
<1>8. QED
  BY <1>4, <1>6, <1>7

(* Joining segments changes no plan at any time *)
(* (normalizeSubscriptionTimeline). *)
LEMMA NormalHolds ==
  ASSUME NEW S, IsFiniteSet(S), S \subseteq Segments
  PROVE  /\ \A t \in Nat, p \in Nat : Over(Normal(S), t, p) <=> Over(S, t, p)
         /\ Apart(S) => Apart(Normal(S))
<1> DEFINE end(x) == Max({y.to : y \in Run(S, x)})
           joined == [x \in Starts(S) |-> [x EXCEPT !.to = end(x)]]
           N == {joined[x] : x \in Starts(S)}
<1>1. Starts(S) \subseteq S /\ Normal(S) = N
  BY DEF Starts, Normal
<1>2. ASSUME NEW x \in Starts(S)
      PROVE  /\ joined[x].from = x.from /\ joined[x].plan = x.plan /\ joined[x].to = end(x)
             /\ x \in S /\ end(x) \in Nat /\ (\E z \in Run(S, x) : end(x) = z.to)
             /\ \A y \in Run(S, x) : y.to <= end(x)
  <2>1. x \in S /\ x \in Segments
    BY <1>1
  <2>2. joined[x] = [x EXCEPT !.to = end(x)]
    OBVIOUS
  <2>3. /\ end(x) \in Nat /\ (\E z \in Run(S, x) : end(x) = z.to)
        /\ \A y \in Run(S, x) : y.to <= end(x)
    BY <2>1, RunEnds
  <2> HIDE DEF joined, end
  <2>4. QED
    BY <2>1, <2>2, <2>3 DEF Segments
<1> HIDE DEF joined, end
<1>3. ASSUME NEW x \in Starts(S), NEW t \in Nat, In(joined[x], t)
      PROVE  \E y \in Run(S, x) : In(y, t) /\ y.plan = x.plan /\ y \in S
  <2>1. x \in S /\ x.from <= t /\ t < end(x)
    BY <1>2, <1>3 DEF In
  <2>2. PICK z \in Run(S, x) : end(x) = z.to
    BY <1>2
  <2>3. PICK y \in Run(S, x) : y.from <= t /\ t < y.to
    BY <2>1, <2>2, RunCovers
  <2>4. y.plan = x.plan /\ y \in S
    BY <2>1, <2>3, RunOfOne DEF Run
  <2>5. QED
    BY <2>3, <2>4 DEF In
<1>4. ASSUME NEW y \in S, NEW t \in Nat, In(y, t)
      PROVE  \E x \in Starts(S) : In(joined[x], t) /\ joined[x].plan = y.plan
  <2>1. PICK x \in Starts(S) : y \in Run(S, x) /\ x.from <= y.from
    BY RunOfEach
  <2>2. y.plan = x.plan
    BY <1>1, <2>1, RunOfOne
  <2>3. x \in Segments /\ y \in Segments
    BY <1>1
  <2>4. y.from <= t /\ t < y.to /\ y.to <= end(x) /\ end(x) \in Nat
        /\ x.from \in Nat /\ y.from \in Nat /\ y.to \in Nat
    BY <1>2, <1>4, <2>1, <2>3, SegmentFields DEF In
  <2>5. QED
    BY <1>2, <2>1, <2>2, <2>4 DEF In
<1>5. ASSUME NEW t \in Nat, NEW p \in Nat PROVE Over(N, t, p) <=> Over(S, t, p)
  <2>1. ASSUME NEW x \in Starts(S), In(joined[x], t), joined[x].plan >= p PROVE Over(S, t, p)
    BY <1>2, <1>3, <2>1 DEF Over
  <2>2. ASSUME NEW y \in S, In(y, t), y.plan >= p PROVE Over(N, t, p)
    <3>1. PICK x \in Starts(S) : In(joined[x], t) /\ joined[x].plan = y.plan
      BY <1>4, <2>2
    <3>2. QED
      BY <2>2, <3>1 DEF Over
  <2>3. QED
    BY <2>1, <2>2 DEF Over
<1>6. ASSUME Apart(S), NEW x \in Starts(S), NEW y \in Starts(S), NEW t \in Nat,
             In(joined[x], t), In(joined[y], t)
      PROVE  x = y
  <2>1. PICK v \in Run(S, x) : In(v, t) /\ v \in S
    BY <1>3, <1>6
  <2>2. PICK w \in Run(S, y) : In(w, t) /\ w \in S
    BY <1>3, <1>6
  <2>3. v = w
    BY <1>6, <2>1, <2>2 DEF Apart
  <2>4. QED
    BY <2>1, <2>2, <2>3, RunsApart
<1>7. QED
  BY <1>1, <1>5, <1>6 DEF Apart

(* What is left of a segment is its time outside the new one. *)
LEMMA RestHolds ==
  ASSUME NEW x \in Segments, NEW new \in Segments,
         x.plan >= new.plan => x.to <= new.from \/ new.to <= x.from, NEW t \in Nat
  PROVE  /\ \A r \in Rest(x, new) : r.plan = x.plan /\ (In(r, t) => In(x, t) /\ ~In(new, t))
         /\ In(x, t) /\ ~In(new, t) => \E r \in Rest(x, new) : In(r, t)
         /\ \A r, s \in Rest(x, new) : In(r, t) /\ In(s, t) => r = s
<1> DEFINE a == [x EXCEPT !.to = new.from]
           b == [x EXCEPT !.from = new.to]
<1>1. /\ x.plan \in Nat /\ x.from \in Nat /\ x.to \in Nat /\ x.from < x.to
      /\ new.plan \in Nat /\ new.from \in Nat /\ new.to \in Nat /\ new.from < new.to
  BY SegmentFields
<1>2. /\ a.plan = x.plan /\ a.from = x.from /\ a.to = new.from
      /\ b.plan = x.plan /\ b.from = new.to /\ b.to = x.to
  BY DEF Segments
<1>3. CASE Yields(x, new)
  <2>1. Rest(x, new) = {r \in {a, b} : Nonempty(r)}
    BY <1>3 DEF Rest
  <2>2. x.from < new.to /\ new.from < x.to
    BY <1>3 DEF Yields
  <2> HIDE DEF a, b
  <2>3. ASSUME NEW r \in Rest(x, new), In(r, t) PROVE In(x, t) /\ ~In(new, t)
    BY <1>1, <1>2, <2>1, <2>2, <2>3 DEF In, Nonempty
  <2>4. ASSUME In(x, t), ~In(new, t) PROVE \E r \in Rest(x, new) : In(r, t)
    <3>1. CASE t < new.from
      <4>1. In(a, t) /\ Nonempty(a)
        BY <1>1, <1>2, <2>4, <3>1 DEF In, Nonempty
      <4>2. QED
        BY <2>1, <4>1
    <3>2. CASE ~(t < new.from)
      <4>1. In(b, t) /\ Nonempty(b)
        BY <1>1, <1>2, <2>4, <3>2 DEF In, Nonempty
      <4>2. QED
        BY <2>1, <4>1
    <3>3. QED
      BY <3>1, <3>2
  <2>5. ~(In(a, t) /\ In(b, t))
    BY <1>1, <1>2 DEF In
  <2>6. \A r, s \in Rest(x, new) : In(r, t) /\ In(s, t) => r = s
    BY <2>1, <2>5
  <2>7. \A r \in Rest(x, new) : r.plan = x.plan
    BY <1>2, <2>1
  <2>8. QED
    BY <2>3, <2>4, <2>6, <2>7
<1>4. CASE ~Yields(x, new)
  <2>1. Rest(x, new) = {x}
    BY <1>4 DEF Rest
  <2>2. In(x, t) => ~In(new, t)
    BY <1>1, <1>4 DEF Yields, In
  <2>3. QED
    BY <2>1, <2>2
<1>5. QED
  BY <1>3, <1>4

(* Inserting a segment that meets lower plans only changes no other time, *)
(* and lowers no plan (insertSubscriptionTimelineSegment). *)
LEMMA InsertHolds ==
  ASSUME NEW P, P \subseteq Nat, NEW now \in Nat,
         NEW S, IsFiniteSet(S), S \subseteq Places(P, now), NEW new \in Places(P, now),
         Wins(S, new)
  PROVE  /\ \A t \in Nat, p \in Nat :
              /\ In(new, t) => (Over(Insert(S, new), t, p) <=> new.plan >= p)
              /\ ~In(new, t) => (Over(Insert(S, new), t, p) <=> Over(S, t, p))
              /\ Over(S, t, p) => Over(Insert(S, new), t, p)
         /\ Apart(S) => Apart(Insert(S, new))
<1> DEFINE All == {new} \cup UNION {Rest(x, new) : x \in S}
<1>1. S \subseteq Segments /\ new \in Segments
  BY DEF Places
<1>2. ASSUME NEW x \in S
      PROVE  /\ IsFiniteSet(Rest(x, new)) /\ Rest(x, new) \subseteq Segments
             /\ x.plan >= new.plan => x.to <= new.from \/ new.to <= x.from
  <2>1. x \in Places(P, now)
    OBVIOUS
  <2>2. CASE Yields(x, new)
    <3>1. IsFiniteSet(Rest(x, new)) /\ Rest(x, new) \subseteq Places(P, now)
      BY <2>1, <2>2, RestKeeps
    <3>2. QED
      BY <3>1 DEF Places, Wins
  <2>3. CASE ~Yields(x, new)
    <3>1. Rest(x, new) = {x} /\ IsFiniteSet({x})
      BY <2>3, FS_Singleton DEF Rest
    <3>2. QED
      BY <1>1, <3>1 DEF Wins
  <2>4. QED
    BY <2>2, <2>3
<1>3. IsFiniteSet(All) /\ All \subseteq Segments
  <2> DEFINE rest == [x \in S |-> Rest(x, new)]
             U == UNION {rest[x] : x \in S}
  <2>1. \A x \in S : IsFiniteSet(rest[x]) /\ rest[x] \subseteq Segments
    BY <1>2
  <2>2. All = U \cup {new}
    OBVIOUS
  <2> HIDE DEF rest, All
  <2>3. \A x \in S : /\ IsFiniteSet(rest[x]) /\ \A y \in rest[x] : Span[y] \in Nat
                     /\ Total(rest[x], Span) \in Nat
    <3> TAKE x \in S
    <3>1. IsFiniteSet(rest[x]) /\ \A y \in rest[x] : Span[y] \in Nat
      BY <2>1, SegmentFields
    <3>2. QED
      BY <3>1, TotalNat
  <2> DEFINE size == [x \in S |-> Total(rest[x], Span)]
  <2>4. \A x \in S : /\ IsFiniteSet(rest[x]) /\ \A y \in rest[x] : Span[y] \in Nat
                     /\ size[x] \in Nat /\ Total(rest[x], Span) <= size[x]
    BY <2>3
  <2> HIDE DEF size
  <2>5. IsFiniteSet(U)
    BY <2>4, TotalParts
  <2>6. U \subseteq Segments
    BY <2>1
  <2> HIDE DEF U
  <2>7. IsFiniteSet(U \cup {new})
    BY <2>5, FS_AddElement
  <2>8. QED
    BY <1>1, <2>2, <2>6, <2>7
<1>4. Insert(S, new) = Normal(All)
  BY DEF Insert
<1>5. ASSUME NEW t \in Nat, NEW p \in Nat
      PROVE  /\ In(new, t) => (Over(All, t, p) <=> new.plan >= p)
             /\ ~In(new, t) => (Over(All, t, p) <=> Over(S, t, p))
             /\ Over(S, t, p) => Over(All, t, p)
  <2>1. ASSUME NEW x \in S, NEW r \in Rest(x, new), In(r, t)
        PROVE  ~In(new, t) /\ In(x, t) /\ r.plan = x.plan
    BY <1>1, <1>2, <2>1, RestHolds
  <2>2. ASSUME NEW x \in S, In(x, t), ~In(new, t)
        PROVE  \E r \in All : In(r, t) /\ r.plan = x.plan
    <3>1. \E r \in Rest(x, new) : In(r, t) /\ r.plan = x.plan
      BY <1>1, <1>2, <2>2, RestHolds
    <3>2. QED
      BY <3>1
  <2>3. ASSUME NEW x \in S, In(x, t), In(new, t) PROVE x.plan < new.plan
    <3>1. /\ x.plan \in Nat /\ new.plan \in Nat /\ x.from \in Nat /\ x.to \in Nat
          /\ new.from \in Nat /\ new.to \in Nat
      BY <1>1, SegmentFields
    <3>2. QED
      BY <1>2, <2>3, <3>1 DEF In
  <2>4. new \in All /\ new.plan \in Nat /\ \A x \in S : x.plan \in Nat
    BY <1>1, SegmentFields
  <2>5. In(new, t) => (Over(All, t, p) <=> new.plan >= p)
    BY <2>1, <2>4 DEF Over
  <2>6. ~In(new, t) => (Over(All, t, p) <=> Over(S, t, p))
    <3>1. ASSUME ~In(new, t), NEW r \in All, In(r, t), r.plan >= p PROVE Over(S, t, p)
      <4>1. PICK x \in S : r \in Rest(x, new)
        BY <3>1
      <4>2. QED
        BY <2>1, <3>1, <4>1 DEF Over
    <3>2. ASSUME ~In(new, t), NEW x \in S, In(x, t), x.plan >= p PROVE Over(All, t, p)
      BY <2>2, <3>2 DEF Over
    <3> HIDE DEF All
    <3>3. QED
      BY <3>1, <3>2 DEF Over
  <2>7. Over(S, t, p) => Over(All, t, p)
    <3>1. ASSUME NEW x \in S, In(x, t), x.plan >= p, In(new, t) PROVE new.plan >= p
      BY <2>3, <2>4, <3>1
    <3> HIDE DEF All
    <3>2. QED
      BY <2>5, <2>6, <3>1 DEF Over
  <2>8. QED
    BY <2>5, <2>6, <2>7
<1>6. ASSUME Apart(S) PROVE Apart(All)
  <2> SUFFICES ASSUME NEW r \in All, NEW s \in All, NEW t \in Nat, In(r, t), In(s, t)
               PROVE  r = s
    BY DEF Apart
  <2>1. ASSUME NEW x \in S, NEW q \in Rest(x, new), In(q, t) PROVE ~In(new, t) /\ In(x, t)
    BY <1>1, <1>2, <2>1, RestHolds
  <2>2. CASE In(new, t)
    BY <2>1, <2>2
  <2>3. CASE ~In(new, t)
    <3>1. PICK x \in S, y \in S : r \in Rest(x, new) /\ s \in Rest(y, new)
      BY <2>3
    <3>2. x = y
      BY <1>6, <2>1, <3>1 DEF Apart
    <3>3. QED
      BY <1>1, <1>2, <3>1, <3>2, RestHolds
  <2>4. QED
    BY <2>2, <2>3
<1> HIDE DEF All
<1>7. QED
  BY <1>3, <1>4, <1>5, <1>6, NormalHolds

(* Sorting leaves out none. *)
LEMMA InOrderAll ==
  ASSUME NEW S, IsFiniteSet(S), S \subseteq Segments, NEW x \in S
  PROVE  \E i \in DOMAIN InOrder(S) : InOrder(S)[i] = x
<1>1. PICK n, f : n = Cardinality(S) /\ f = InOrder(S)
  OBVIOUS
<1>2. n \in Nat /\ f \in Injection(1..n, S) /\ DOMAIN f = 1..n
  BY <1>1, InOrderLists, FS_CardinalityType
<1>3. Cardinality(1..n) = n
  <2>1. 1 \in Int /\ n \in Int
    BY <1>2
  <2>2. Cardinality(1..n) = IF 1 > n THEN 0 ELSE n - 1 + 1
    BY <2>1, FS_Interval
  <2>3. QED
    BY <1>2, <2>2
<1>4. f \in Surjection(1..n, S)
  BY <1>1, <1>2, <1>3, FS_Injection
<1>5. QED
  BY <1>1, <1>2, <1>4 DEF Surjection

(* Segments that do not overlap hold as much time as they are long. *)
LEMMA MomentsTotal ==
  ASSUME NEW S, IsFiniteSet(S), S \subseteq Segments
  PROVE  /\ IsFiniteSet(Moments(S)) /\ Cardinality(Moments(S)) \in Nat
         /\ Cardinality(Moments(S)) <= Total(S, Span)
         /\ Apart(S) => Total(S, Span) = Cardinality(Moments(S))
<1> DEFINE base == [x \in S |-> x.from]
<1>1. ASSUME NEW x \in S
      PROVE  /\ base[x] \in Nat /\ Span[x] \in Nat /\ x.plan \in Nat
             /\ \A t \in Nat : In(x, t) <=> base[x] <= t /\ t < base[x] + Span[x]
  <2>1. /\ x.from \in Nat /\ x.to \in Nat /\ x.plan \in Nat /\ x.from < x.to
        /\ Span[x] = x.to - x.from /\ base[x] = x.from
    BY SegmentFields
  <2> HIDE DEF base
  <2>2. QED
    BY <2>1 DEF In
<1>2. \A t \in Moments(S) : t \in Nat /\ \E x \in S : base[x] <= t /\ t < base[x] + Span[x]
  <2> HIDE DEF base
  <2> QED BY <1>1 DEF Moments, Over
<1> HIDE DEF base
<1>3. /\ IsFiniteSet(Moments(S)) /\ Cardinality(Moments(S)) \in Nat
      /\ Cardinality(Moments(S)) <= Total(S, Span)
  BY <1>1, <1>2, TotalCovers
<1>4. ASSUME Apart(S) PROVE Total(S, Span) <= Cardinality(Moments(S))
  <2>1. \A x \in S, t \in Nat : base[x] <= t /\ t < base[x] + Span[x] => t \in Moments(S)
    BY <1>1 DEF Moments, Over
  <2>2. \A x, y \in S, t \in Nat :
          base[x] <= t /\ t < base[x] + Span[x] /\ base[y] <= t /\ t < base[y] + Span[y]
            => x = y
    BY <1>1, <1>4 DEF Apart
  <2>3. \A x \in S : Span[x] \in Nat /\ base[x] \in Nat
    BY <1>1
  <2>4. QED
    BY ONLY <1>3, <2>1, <2>2, <2>3, TotalFits
<1>5. Total(S, Span) \in Nat
  BY <1>1, TotalNat
<1>6. QED
  BY <1>3, <1>4, <1>5

(* All the time that a new segment takes from others is granted again. *)
LEMMA DisplacedDue ==
  ASSUME NEW P, P \subseteq Nat, NEW now \in Nat,
         NEW S, IsFiniteSet(S), S \subseteq Places(P, now), NEW new \in Places(P, now),
         Wins(S, new)
  PROVE  Cardinality({t \in Moments(S) : In(new, t)}) <= Due(Displaced(S, new), P)
<1> DEFINE L == {x \in S : Yields(x, new)}
           lost == InOrder(L)
           D == Displaced(S, new)
           taken == {t \in Moments(S) : In(new, t)}
           base == [i \in DOMAIN lost |-> Max({lost[i].from, new.from})]
<1>1. S \subseteq Segments /\ new \in Segments /\ IsFiniteSet(L) /\ L \subseteq Segments /\ L \subseteq S
  <2>1. S \subseteq Segments /\ new \in Segments /\ L \subseteq S
    BY DEF Places
  <2> HIDE DEF L
  <2>2. QED
    BY <2>1, FS_Subset
<1>2. D = [i \in DOMAIN lost |->
            [sub |-> lost[i].sub, plan |-> lost[i].plan,
             at |-> Max({new.to, lost[i].to}),
             long |-> Min({lost[i].to, new.to}) - Max({lost[i].from, new.from})]]
  BY DEF Displaced
<1>3. D \in Seq(Grants) /\ IsFiniteSet(DOMAIN D) /\ (\A i \in DOMAIN D : Longs(D, P)[i] \in Nat)
  <2>1. D \in Seq(Dues(P, now))
    BY InsertKeeps
  <2>2. D \in Seq(Grants)
    <3>1. Dues(P, now) \subseteq Grants
      BY DEF Dues
    <3> HIDE DEF D
    <3>2. QED
      BY <2>1, <3>1, SeqMonotonic
  <2> HIDE DEF D
  <2>3. QED
    BY <2>2, DueNat
<1>4. DOMAIN D = DOMAIN lost /\ \A i \in DOMAIN lost : lost[i] \in L
  <2>1. DOMAIN D = DOMAIN lost
    BY <1>2
  <2>2. lost \in Injection(1..Cardinality(L), L) /\ DOMAIN lost = 1..Cardinality(L)
    <3> HIDE DEF L
    <3> QED BY <1>1, InOrderLists
  <2> HIDE DEF L, lost
  <2>3. QED
    BY <2>1, <2>2 DEF Injection
<1>5. ASSUME NEW i \in DOMAIN lost
      PROVE  /\ base[i] \in Nat
             /\ base[i] = IF lost[i].from >= new.from THEN lost[i].from ELSE new.from
             /\ base[i] + Longs(D, P)[i] = IF lost[i].to <= new.to THEN lost[i].to ELSE new.to
  <2>1. PICK x : x = lost[i]
    OBVIOUS
  <2>2. x \in S /\ x \in Segments /\ x.plan \in P
    <3>1. x \in L
      BY <1>4, <2>1
    <3>2. QED
      BY <3>1 DEF Places
  <2>3. /\ x.from \in Nat /\ x.to \in Nat /\ x.from < x.to
        /\ new.from \in Nat /\ new.to \in Nat /\ new.from < new.to
        /\ x.from \in Int /\ x.to \in Int /\ new.from \in Int /\ new.to \in Int
    BY <1>1, <2>2, SegmentFields
  <2>4. PICK b, e : b = Max({x.from, new.from}) /\ e = Min({x.to, new.to})
    OBVIOUS
  <2>5. /\ b = IF x.from >= new.from THEN x.from ELSE new.from
        /\ e = IF x.to <= new.to THEN x.to ELSE new.to
    BY ONLY <2>3, <2>4, MaxMin
  <2>6. D[i].plan = x.plan /\ D[i].long = e - b
    BY <1>2, <2>1, <2>4
  <2>7. i \in DOMAIN D /\ base[i] = b
    BY <1>4, <2>1, <2>4
  <2> HIDE DEF D, base, lost, L
  <2>8. Longs(D, P)[i] = e - b
    BY <2>2, <2>6, <2>7 DEF Longs
  <2>9. QED
    BY <2>1, <2>3, <2>5, <2>7, <2>8
<1>6. ASSUME NEW t \in taken
      PROVE  t \in Nat /\ \E i \in DOMAIN D : base[i] <= t /\ t < base[i] + Longs(D, P)[i]
  <2>1. t \in Nat /\ In(new, t) /\ \E x \in S : In(x, t)
    BY DEF Moments, Over
  <2>2. PICK x \in S : In(x, t)
    BY <2>1
  <2>3. /\ x \in Segments /\ x.plan \in Nat /\ x.from \in Nat /\ x.to \in Nat
        /\ new.plan \in Nat /\ new.from \in Nat /\ new.to \in Nat
    BY <1>1, SegmentFields
  <2>4. x \in L
    BY <2>1, <2>2, <2>3 DEF Wins, Yields, In
  <2>5. PICK i \in DOMAIN lost : lost[i] = x
    <3> HIDE DEF L
    <3> QED BY <1>1, <2>4, InOrderAll
  <2> HIDE DEF L, lost, base, D
  <2>6. base[i] <= t /\ t < base[i] + Longs(D, P)[i]
    BY <1>5, <2>1, <2>2, <2>3, <2>5 DEF In
  <2>7. QED
    BY <1>4, <2>1, <2>5, <2>6
<1> HIDE DEF L, lost, base, D, taken
<1>7. Cardinality(taken) <= Total(DOMAIN D, Longs(D, P))
  <2>1. PICK I, f : I = DOMAIN D /\ f = Longs(D, P)
    OBVIOUS
  <2>2. /\ IsFiniteSet(I) /\ \A i \in I : f[i] \in Nat /\ base[i] \in Nat
        /\ \A t \in taken : t \in Nat /\ \E i \in I : base[i] <= t /\ t < base[i] + f[i]
    BY <1>3, <1>4, <1>5, <1>6, <2>1
  <2>3. Cardinality(taken) <= Total(I, f)
    BY ONLY <2>2, TotalCovers
  <2>4. QED
    BY <2>1, <2>3
<1>8. QED
  BY <1>7 DEF D, taken, Due

(* A new segment that meets lower plans only loses nobody any time: what it *)
(* takes from others is in the grants of what is displaced *)
(* (insertSubscriptionTimelineSegment). *)
LEMMA InsertCounts ==
  ASSUME NEW P, P \subseteq Nat, NEW now \in Nat,
         NEW S, IsFiniteSet(S), S \subseteq Places(P, now), NEW new \in Places(P, now),
         Wins(S, new), Apart(S)
  PROVE  Total(S, Span) + Span[new] <= Total(Insert(S, new), Span) + Due(Displaced(S, new), P)
<1> DEFINE I == {t \in Nat : In(new, t)}
           M == Moments(S)
           N == Moments(Insert(S, new))
           D == Displaced(S, new)
<1>1. S \subseteq Segments /\ new \in Segments
  BY DEF Places
<1>2. IsFiniteSet(I) /\ Cardinality(I) = Span[new] /\ Span[new] \in Nat /\ new.plan >= 0
  <2>1. /\ new.from \in Nat /\ new.to \in Nat /\ new.from < new.to /\ new.plan \in Nat
        /\ Span[new] = new.to - new.from
    BY <1>1, SegmentFields
  <2>2. PICK a, b : a = new.from /\ b = new.to - 1
    OBVIOUS
  <2>3. a \in Int /\ b \in Int /\ ~(a > b) /\ b - a + 1 = Span[new]
    BY <2>1, <2>2
  <2>4. IsFiniteSet(a..b) /\ Cardinality(a..b) = IF a > b THEN 0 ELSE b - a + 1
    BY ONLY <2>3, FS_Interval
  <2>5. I = a..b
    <3>1. \A t \in Nat : In(new, t) <=> a <= t /\ t <= b
      BY <2>1, <2>2 DEF In
    <3>2. \A t \in a..b : t \in Nat
      BY <2>1, <2>2
    <3>3. QED
      BY <2>1, <2>2, <3>1, <3>2
  <2> HIDE DEF I
  <2>6. IsFiniteSet(I) /\ Cardinality(I) = Span[new]
    BY <2>3, <2>4, <2>5
  <2>7. QED
    BY <2>1, <2>6
<1>3. /\ IsFiniteSet(M) /\ Cardinality(M) = Total(S, Span)
      /\ Cardinality(M) \in Nat
  BY <1>1, MomentsTotal
<1>4. /\ IsFiniteSet(Insert(S, new)) /\ Insert(S, new) \subseteq Segments
      /\ \A Q : Due(D, Q) \in Nat
  BY InsertKeeps DEF Places
<1>5. /\ IsFiniteSet(N) /\ Cardinality(N) \in Nat
      /\ Cardinality(N) <= Total(Insert(S, new), Span)
  BY <1>4, MomentsTotal
<1>6. M \cup I \subseteq N
  <2>1. \A t \in Nat : /\ In(new, t) => Over(Insert(S, new), t, 0)
                       /\ Over(S, t, 0) => Over(Insert(S, new), t, 0)
    BY <1>2, InsertHolds
  <2>2. QED
    BY <2>1 DEF Moments
<1>7. {t \in M : In(new, t)} = M \cap I
  BY DEF Moments
<1>8. Cardinality(M \cap I) <= Due(D, P)
  BY <1>7, DisplacedDue
<1>9. Total(Insert(S, new), Span) \in Nat
  BY <1>4, SegmentFields, TotalNat
<1> HIDE DEF I, M, N, D
<1>10. /\ Cardinality(M \cup I) = Cardinality(M) + Cardinality(I) - Cardinality(M \cap I)
       /\ Cardinality(M \cup I) <= Cardinality(N)
       /\ Cardinality(M \cup I) \in Nat /\ Cardinality(M \cap I) \in Nat
  <2>1. IsFiniteSet(M \cup I) /\ IsFiniteSet(M \cap I)
    BY <1>2, <1>3, FS_Union, FS_Subset
  <2>2. QED
    BY <1>2, <1>3, <1>5, <1>6, <2>1, FS_Union, FS_Subset, FS_CardinalityType
<1>11. Due(D, P) \in Nat
  BY <1>4
<1>12. QED
  <2>1. PICK m, i, u, c, n, x, d, s : /\ m = Cardinality(M) /\ i = Cardinality(I)
          /\ u = Cardinality(M \cup I) /\ c = Cardinality(M \cap I) /\ n = Cardinality(N)
          /\ x = Total(Insert(S, new), Span) /\ d = Due(D, P) /\ s = Total(S, Span)
    OBVIOUS
  <2>2. /\ m \in Nat /\ i \in Nat /\ u \in Nat /\ c \in Nat /\ n \in Nat /\ x \in Nat /\ d \in Nat
        /\ s = m /\ u = m + i - c /\ u <= n /\ n <= x /\ c <= d /\ i = Span[new]
    BY <1>2, <1>3, <1>5, <1>8, <1>9, <1>10, <1>11, <2>1
  <2>3. s + i <= x + d
    BY ONLY <2>2
  <2>4. QED
    BY <2>1, <2>2, <2>3 DEF D

(* Up to then there is such a plan, or a higher one. *)
Filled(S, p, now, at) == \A t \in Nat : now <= t /\ t < at => Over(S, t, p)

Fitting(S, P, now) == {g \in Dues(P, now) : Filled(S, g.plan, now, g.at)}

(* One plan at a time, the highest first, and no gap before what waits. *)
Fitted(w, P, now) ==
  /\ Apart(w.segs) /\ Stacked(w.segs, now)
  /\ w.queue \in Seq(Fitting(w.segs, P, now)) /\ w.moved \in Seq(Fitting(w.segs, P, now))
  /\ w.queue = <<>> => w.moved = <<>>

(* What holds of every grant that is displaced holds of their sequence. *)
LEMMA SeqOfFitting ==
  ASSUME NEW T, NEW q \in Seq(T), NEW F, \A i \in DOMAIN q : q[i] \in F
  PROVE  q \in Seq(F)
<1>1. Len(q) \in Nat /\ DOMAIN q = 1..Len(q) /\ q = [i \in 1..Len(q) |-> q[i]]
  BY LenProperties
<1>2. q \in [1..Len(q) -> F]
  BY <1>1
<1>3. QED
  BY <1>1, <1>2, SeqDef

(* What begins with a grant is not empty. *)
LEMMA NotEmptyAfter ==
  ASSUME NEW T, NEW g, <<g>> \in Seq(T), NEW q \in Seq(T)
  PROVE  <<g>> \o q # <<>>
<1>1. Len(<<g>>) = 1 /\ Len(q) \in Nat /\ Len(<<g>> \o q) = Len(<<g>>) + Len(q)
  BY ConcatProperties, LenProperties
<1>2. PICK r, n : r = <<g>> \o q /\ n = Len(q)
  OBVIOUS
<1>3. n \in Nat /\ Len(r) = 1 + n
  BY <1>1, <1>2
<1>4. Len(r) # 0
  BY ONLY <1>3
<1>5. r # <<>>
  BY <1>4
<1>6. QED
  BY <1>2, <1>5

(* A round keeps the order of plans, leaves no gap and loses no time *)
(* (placeSubscriptionTimelineGrant). *)
LEMMA PlaceFits ==
  ASSUME NEW P, P \subseteq Nat, NEW now \in Nat, NEW w \in Within(P, now), w.queue # <<>>,
         Fitted(w, P, now)
  PROVE  Fitted(Place(w), P, now) /\ Left(w, P) <= Left(Place(w), P)
<1> DEFINE grant == Head(w.queue)
           F == Fitting(w.segs, P, now)
<1>1. /\ IsFiniteSet(w.segs) /\ w.segs \subseteq Places(P, now) /\ w.segs \subseteq Segments
      /\ w.queue \in Seq(Grants) /\ w.moved \in Seq(Grants)
      /\ grant \in Dues(P, now) /\ grant \in Grants /\ grant.plan \in P /\ grant.plan \in Nat
      /\ grant.long \in Nat /\ grant.at \in Nat /\ grant.at >= now
  BY WithinFields
<1>2. /\ Apart(w.segs) /\ Stacked(w.segs, now)
      /\ w.queue \in Seq(F) /\ w.moved \in Seq(F)
  BY DEF Fitted
<1>3. /\ grant \in F /\ Tail(w.queue) \in Seq(F)
      /\ \A t \in Nat : now <= t /\ t < grant.at => Over(w.segs, t, grant.plan)
  <2>1. grant \in F /\ Tail(w.queue) \in Seq(F)
    <3> HIDE DEF F
    <3> QED BY <1>2, HeadTailProperties
  <2>2. QED
    BY <2>1 DEF Fitting, Filled
<1>4. CASE \/ grant.long = 0
           \/ Blocked(w.segs, grant.plan, grant.at)
  <2>1. Waiting(Place(w), P) = Waiting(w, P) /\ Place(w).segs = w.segs
    BY <1>4, WaitingStays
  <2>2. Left(w, P) <= Left(Place(w), P)
    <3>1. Left(w, P) \in Nat
      BY WaitingNat
    <3>2. QED
      BY <2>1, <3>1 DEF Left
  <2>3. /\ Place(w).queue \in Seq(F) /\ Place(w).moved \in Seq(F)
        /\ Place(w).queue = <<>> => Place(w).moved = <<>>
    <3>1. CASE grant.long = 0
      <4>1. Place(w).queue = w.moved \o Tail(w.queue) /\ Place(w).moved = <<>>
        BY <3>1, PlaceNext
      <4> HIDE DEF F
      <4>2. QED
        BY <1>2, <1>3, <4>1, ConcatProperties, EmptySeq
    <3>2. CASE grant.long # 0
      <4>1. grant.long > 0 /\ Blocked(w.segs, grant.plan, grant.at)
        BY <1>1, <1>4, <3>2
      <4>2. Place(w).moved = w.moved /\ \E first \in InTheWay(w), g \in Dues(P, now) : Waited(w, first, g)
        BY <4>1, PlaceWaits
      <4>3. PICK first \in InTheWay(w), g \in Dues(P, now) : Waited(w, first, g)
        BY <4>2
      <4>4. /\ first \in w.segs /\ first.plan >= grant.plan /\ first.to > grant.at
            /\ g.plan = grant.plan /\ g.at = first.to /\ first.from <= grant.at
            /\ Place(w).queue = <<g>> \o Tail(w.queue)
        BY <4>3 DEF InTheWay, Blockers, Waited
      <4>5. first.from \in Nat /\ first.to \in Nat /\ first.plan \in Nat
        BY <1>1, <4>4, SegmentFields
      <4> HIDE DEF grant
      <4>6. ASSUME NEW t \in Nat, now <= t, t < g.at PROVE Over(w.segs, t, g.plan)
        <5>1. CASE t < grant.at
          BY <1>3, <4>4, <4>6, <5>1
        <5>2. CASE ~(t < grant.at)
          <6>1. In(first, t)
            BY <1>1, <4>4, <4>5, <4>6, <5>2 DEF In
          <6>2. QED
            BY <4>4, <6>1 DEF Over
        <5>3. QED
          BY <5>1, <5>2
      <4>7. g \in F
        BY <4>6 DEF Fitting, Filled
      <4> HIDE DEF F
      <4>8. <<g>> \in Seq(F)
        BY <4>7
      <4>9. <<g>> \o Tail(w.queue) # <<>>
        BY <1>3, <4>8, NotEmptyAfter
      <4>10. QED
        BY <1>2, <1>3, <4>2, <4>4, <4>8, <4>9, ConcatProperties
    <3>3. QED
      BY <3>1, <3>2
  <2>4. Fitted(Place(w), P, now)
    BY <1>2, <2>1, <2>3 DEF Fitted
  <2>5. QED
    BY <2>2, <2>4
<1>5. CASE grant.long # 0 /\ ~Blocked(w.segs, grant.plan, grant.at)
  <2>0. Head(w.queue).long > 0 /\ ~Blocked(w.segs, Head(w.queue).plan, Head(w.queue).at)
    BY <1>1, <1>5
  <2>1. PICK new \in Places(P, now), g \in Dues(P, now) : Took(w, new, g)
    BY <2>0, PlaceTakes
  <2> DEFINE D == Displaced(w.segs, new)
             S == Insert(w.segs, new)
             G == Fitting(S, P, now)
  <2>2. /\ new.plan = grant.plan /\ g.plan = grant.plan
        /\ new.from = grant.at /\ g.at = new.to
        /\ Wins(w.segs, new)
        /\ g.long = grant.long - Span[new]
        /\ Place(w).segs = S
        /\ Place(w).queue = <<g>> \o Tail(w.queue)
        /\ Place(w).moved = w.moved \o D
    BY <2>1 DEF Took
  <2>3. /\ new \in Segments /\ new.from \in Nat /\ new.to \in Nat /\ new.from < new.to
        /\ Span[new] \in Nat /\ new.plan \in Nat
    BY SegmentFields DEF Places
  <2>4. /\ \A t \in Nat, p \in Nat :
              /\ In(new, t) => (Over(S, t, p) <=> new.plan >= p)
              /\ ~In(new, t) => (Over(S, t, p) <=> Over(w.segs, t, p))
              /\ Over(w.segs, t, p) => Over(S, t, p)
        /\ Apart(S)
    BY <1>1, <1>2, <2>2, InsertHolds
  <2>5. /\ D \in Seq(Dues(P, now)) /\ \A Q : Due(D, Q) \in Nat
        /\ Total(w.segs, Span) + Span[new] <= Total(S, Span) + Due(D, P)
    BY <1>1, <1>2, <2>2, InsertKeeps, InsertCounts
  <2> HIDE DEF S, grant
  <2>6. Stacked(S, now)
    <3> SUFFICES ASSUME NEW s \in Nat, NEW t \in Nat, NEW p \in Nat, now <= s, s <= t, Over(S, t, p)
                 PROVE  Over(S, s, p)
      BY DEF Stacked
    <3>1. CASE In(new, s)
      <4>1. CASE In(new, t)
        BY <2>4, <3>1, <4>1
      <4>2. CASE ~In(new, t)
        <5>1. Over(w.segs, t, p)
          BY <2>4, <4>2
        <5>2. Over(w.segs, s, p)
          BY <1>2, <5>1 DEF Stacked
        <5>3. QED
          BY <2>4, <5>2
      <4>3. QED
        BY <4>1, <4>2
    <3>2. CASE ~In(new, s)
      <4>1. CASE In(new, t)
        <5>0. new.plan >= p
          BY <2>4, <4>1
        <5>1. s < grant.at
          BY <2>2, <2>3, <3>2, <4>1 DEF In
        <5>2. Over(w.segs, s, grant.plan)
          BY <1>3, <5>1
        <5>3. Over(S, s, grant.plan)
          BY <1>1, <2>4, <5>2
        <5>4. \A x \in S : x.plan \in Nat
          <6>1. S \subseteq Places(P, now)
            BY <1>1, <2>2, InsertKeeps DEF S
          <6>3. S \subseteq Segments
            BY <6>1 DEF Places
          <6>4. QED
            BY <6>3, SegmentFields
        <5>5. QED
          BY <2>2, <2>3, <5>0, <5>3, <5>4 DEF Over
      <4>2. CASE ~In(new, t)
        <5>1. Over(w.segs, t, p)
          BY <2>4, <4>2
        <5>2. Over(w.segs, s, p)
          BY <1>2, <5>1 DEF Stacked
        <5>3. QED
          BY <2>4, <5>2
      <4>3. QED
        BY <4>1, <4>2
    <3>3. QED
      BY <3>1, <3>2
  <2>7. F \subseteq G
    <3>1. \A h \in Dues(P, now) : h.plan \in Nat
      BY DEF Dues
    <3>2. QED
      BY <2>4, <3>1 DEF Fitting, Filled
  <2>8. g \in G
    <3> SUFFICES ASSUME NEW t \in Nat, now <= t, t < g.at PROVE Over(S, t, g.plan)
      BY DEF Fitting, Filled
    <3>1. CASE t < grant.at
      BY <1>1, <1>3, <2>2, <2>4, <3>1
    <3>2. CASE ~(t < grant.at)
      <4>1. In(new, t)
        BY <1>1, <2>2, <2>3, <3>2 DEF In
      <4>2. QED
        BY <1>1, <2>2, <2>3, <2>4, <4>1
    <3>3. QED
      BY <3>1, <3>2
  <2>9. \A i \in DOMAIN D : D[i] \in G
    <3> TAKE i \in DOMAIN D
    <3> DEFINE L == {x \in w.segs : Yields(x, new)}
               lost == InOrder(L)
    <3>1. D[i] \in Dues(P, now)
      <4> HIDE DEF D
      <4> QED BY <2>5, LenProperties, ElementOfSeq
    <3>2. PICK x : x = lost[i]
      OBVIOUS
    <3>3. i \in DOMAIN lost /\ D[i].plan = x.plan /\ D[i].at = Max({new.to, x.to})
      BY <3>2 DEF Displaced
    <3>4. x \in L
      <4>1. IsFiniteSet(L) /\ L \subseteq Segments
        <5>1. L \subseteq w.segs
          OBVIOUS
        <5> HIDE DEF L
        <5>2. QED
          BY <1>1, <5>1, FS_Subset
      <4>2. lost \in Injection(1..Cardinality(L), L) /\ DOMAIN lost = 1..Cardinality(L)
        <5> HIDE DEF L
        <5> QED BY <4>1, InOrderLists
      <4> HIDE DEF L, lost, D
      <4>3. QED
        BY <3>2, <3>3, <4>2 DEF Injection
    <3>5. /\ x \in w.segs /\ x.plan < new.plan /\ x.from < new.to
          /\ x.from \in Nat /\ x.to \in Nat /\ x.plan \in Nat
      BY <1>1, <3>4, SegmentFields DEF Yields
    <3>6. Max({new.to, x.to}) = IF new.to >= x.to THEN new.to ELSE x.to
      <4>1. new.to \in Int /\ x.to \in Int
        BY <2>3, <3>5
      <4>2. QED
        BY ONLY <4>1, MaxMin
    <3> HIDE DEF D, L, lost
    <3>7. ASSUME NEW t \in Nat, now <= t, t < D[i].at PROVE Over(S, t, D[i].plan)
      <4>1. CASE In(new, t)
        BY <2>3, <2>4, <3>3, <3>5, <4>1
      <4>2. CASE t < new.from
        <5>1. Over(w.segs, t, grant.plan)
          BY <1>3, <2>2, <3>7, <4>2
        <5>2. \A y \in w.segs : y.plan \in Nat
          BY <1>1, SegmentFields
        <5>3. Over(w.segs, t, x.plan)
          BY <2>2, <2>3, <3>5, <5>1, <5>2 DEF Over
        <5>4. QED
          BY <2>4, <3>3, <3>5, <5>3
      <4>3. CASE ~In(new, t) /\ ~(t < new.from)
        <5>1. In(x, t)
          BY <2>3, <3>3, <3>5, <3>6, <3>7, <4>3 DEF In
        <5>2. Over(w.segs, t, x.plan)
          BY <3>5, <5>1 DEF Over
        <5>3. QED
          BY <2>4, <3>3, <3>5, <5>2
      <4>4. QED
        BY <4>1, <4>2, <4>3
    <3>8. QED
      BY <3>1, <3>7 DEF Fitting, Filled
  <2> HIDE DEF F, G, D
  <2>10. /\ Place(w).queue \in Seq(G) /\ Place(w).moved \in Seq(G)
         /\ Place(w).queue # <<>>
    <3>1. Seq(F) \subseteq Seq(G)
      BY <2>7, SeqMonotonic
    <3>2. <<g>> \in Seq(G)
      BY <2>8
    <3>3. D \in Seq(G)
      BY <2>5, <2>9, SeqOfFitting
    <3>4. <<g>> \o Tail(w.queue) # <<>>
      BY <1>3, <3>1, <3>2, NotEmptyAfter
    <3>5. QED
      BY <1>2, <1>3, <2>2, <3>1, <3>2, <3>3, <3>4, ConcatProperties
  <2>11. Fitted(Place(w), P, now)
    BY <2>2, <2>4, <2>6, <2>10 DEF Fitted, G
  <2>12. Left(w, P) <= Left(Place(w), P)
    <3>1. g \in Grants /\ D \in Seq(Grants)
      <4>1. Dues(P, now) \subseteq Grants
        BY DEF Dues
      <4>2. QED
        BY <2>5, <4>1, SeqMonotonic
    <3>2. g.long <= grant.long /\ grant.long - g.long = Span[new]
      BY <1>1, <2>2, <2>3
    <3>3. Due(<<g>> \o Tail(w.queue), P) = Due(w.queue, P) - Span[new]
      <4>1. Due(<<g>> \o Tail(w.queue), P) =
              Due(w.queue, P) - (IF g.plan \in P THEN grant.long - g.long ELSE 0)
        BY <1>1, <2>2, <3>1, <3>2, DueHead DEF grant
      <4>2. QED
        BY <1>1, <2>2, <3>2, <4>1
    <3>4. Due(w.moved \o D, P) = Due(w.moved, P) + Due(D, P)
      BY <1>1, <3>1, DueConcat
    <3>5. /\ Due(w.queue, P) \in Nat /\ Due(w.moved, P) \in Nat /\ Due(D, P) \in Nat
          /\ Total(w.segs, Span) \in Nat
      BY <2>5, WaitingNat
    <3>6. Total(S, Span) \in Nat
      <4>1. Place(w) \in Within(P, now)
        BY PlaceKeeps
      <4>2. Total(Place(w).segs, Span) \in Nat
        BY <4>1, WaitingNat
      <4>3. QED
        BY <2>2, <4>2
    <3>7. PICK a, b, c, e, q0, m0, due, span :
            /\ a = Total(S, Span) /\ b = Total(w.segs, Span)
            /\ c = Due(Place(w).queue, P) /\ e = Due(Place(w).moved, P)
            /\ q0 = Due(w.queue, P) /\ m0 = Due(w.moved, P) /\ due = Due(D, P)
            /\ span = Span[new]
      OBVIOUS
    <3>8. c = q0 - span /\ e = m0 + due
      BY <2>2, <3>3, <3>4, <3>7
    <3>9. /\ a \in Nat /\ b \in Nat /\ q0 \in Nat /\ m0 \in Nat /\ due \in Nat /\ span \in Nat
          /\ b + span <= a + due
      BY <2>3, <2>5, <3>5, <3>6, <3>7
    <3>10. b + (q0 + m0) <= a + (c + e)
      BY ONLY <3>8, <3>9
    <3>11. Left(w, P) = b + (q0 + m0) /\ Left(Place(w), P) = a + (c + e)
      BY <2>2, <3>7 DEF Left, Waiting
    <3>12. QED
      BY <3>10, <3>11
  <2>13. QED
    BY <2>11, <2>12
<1>6. QED
  BY <1>4, <1>5

(* The loop ends with one plan at a time, the highest first, no gap, and    *)
(* all the time that was there and was granted (buildSubscriptionTimeline). *)
LEMMA BuildFits ==
  ASSUME NEW B \in Nat, NEW P, P \subseteq 0..B, NEW now \in Nat, NEW w \in Within(P, now),
         Fitted(w, P, now)
  PROVE  /\ Apart(Build[w]) /\ Stacked(Build[w], now)
         /\ Left(w, P) <= Total(Build[w], Span)
<1> DEFINE Good(v) == /\ Apart(Build[v]) /\ Stacked(Build[v], now)
                      /\ Left(v, P) <= Total(Build[v], Span)
           Bad == {v \in Within(P, now) : Fitted(v, P, now) /\ ~Good(v)}
<1>0. P \subseteq Nat
  OBVIOUS
<1>1. ASSUME NEW v \in Bad PROVE v.queue # <<>> /\ Place(v) \in Bad
  <2>1. v \in Within(P, now) /\ Fitted(v, P, now) /\ ~Good(v)
    OBVIOUS
  <2>2. Build[v] = IF v.queue = <<>> THEN v.segs ELSE Build[Place(v)]
    BY <1>0, <2>1, WithinWorks, BuildLoops
  <2>3. v.queue # <<>>
    <3> SUFFICES ASSUME v.queue = <<>> PROVE Good(v)
      BY <2>1
    <3>1. Build[v] = v.segs /\ Apart(v.segs) /\ Stacked(v.segs, now)
      BY <2>1, <2>2 DEF Fitted
    <3>2. v.moved = <<>>
      BY <2>1 DEF Fitted
    <3>3. Due(v.queue, P) = 0 /\ Due(v.moved, P) = 0
      BY <3>2, DueNone
    <3>4. Total(v.segs, Span) \in Nat
      BY <1>0, <2>1, WaitingNat
    <3>5. Left(v, P) <= Total(Build[v], Span)
      BY <3>1, <3>3, <3>4 DEF Left, Waiting
    <3>6. QED
      BY <3>1, <3>5
  <2>4. Place(v) \in Within(P, now) /\ Fitted(Place(v), P, now) /\ Left(v, P) <= Left(Place(v), P)
    BY <1>0, <2>1, <2>3, PlaceKeeps, PlaceFits
  <2>5. ~Good(Place(v))
    <3> SUFFICES ASSUME Good(Place(v)) PROVE Good(v)
      BY <2>1
    <3>1. Build[v] = Build[Place(v)]
      BY <2>2, <2>3
    <3>2. IsFiniteSet(Build[v]) /\ Build[v] \subseteq Places(P, now)
      BY <2>1, BuildKeeps
    <3>3. \A x \in Build[v] : Span[x] \in Nat
      BY <3>2, SegmentFields DEF Places
    <3>4. Total(Build[v], Span) \in Nat
      BY <3>2, <3>3, TotalNat
    <3>5. Left(v, P) \in Nat /\ Left(Place(v), P) \in Nat
      BY <1>0, <2>1, <2>4, WaitingNat
    <3>6. Left(Place(v), P) <= Total(Build[v], Span)
      BY <3>1
    <3>7. Left(v, P) <= Total(Build[v], Span)
      BY <2>4, <3>4, <3>5, <3>6
    <3>8. Apart(Build[v]) /\ Stacked(Build[v], now)
      BY <3>1
    <3>9. QED
      BY <3>7, <3>8
  <2>6. QED
    BY <2>1, <2>3, <2>4, <2>5
<1>2. Bad = {}
  <2>1. Bad \subseteq Within(P, now)
    OBVIOUS
  <2> HIDE DEF Bad
  <2>2. QED
    BY <1>1, <2>1, RoundsEnd
<1>3. QED
  BY <1>2
-----------------------------------------------------------------------------
(* The rows.                                                               *)

Rows(P) == {Gone} \cup {r \in [plan : P, from : Nat, to : Nat] : Nonempty(r)}

(* A row that is not expired has a plan and some time. *)
LEMMA RowFields ==
  ASSUME NEW P, P \subseteq Nat, NEW rows \in Seq(Rows(P))
  PROVE  /\ DOMAIN rows = 1..Len(rows) /\ Len(rows) \in Nat /\ IsFiniteSet(DOMAIN rows)
         /\ \A i \in DOMAIN rows :
              /\ rows[i].from \in Nat /\ rows[i].to \in Nat /\ rows[i].plan \in Nat
              /\ rows[i] # Gone => rows[i].plan \in P /\ rows[i].from < rows[i].to
              /\ rows[i] = Gone => rows[i].to = 0
         /\ \A now \in Nat : Entitled(rows, now) \subseteq DOMAIN rows
<1>1. DOMAIN rows = 1..Len(rows) /\ Len(rows) \in Nat
  BY LenProperties
<1>2. IsFiniteSet(DOMAIN rows)
  BY <1>1, FS_Interval
<1>3. \A i \in DOMAIN rows : rows[i] \in Rows(P)
  BY <1>1, ElementOfSeq
<1>4. /\ Gone.plan \in Nat /\ Gone.from \in Nat /\ Gone.to \in Nat /\ Gone.to = 0
  BY DEF Gone
<1>5. ASSUME NEW r \in Rows(P)
      PROVE  /\ r.from \in Nat /\ r.to \in Nat /\ r.plan \in Nat
             /\ r # Gone => r.plan \in P /\ r.from < r.to
             /\ r = Gone => r.to = 0
  BY <1>4 DEF Rows, Nonempty
<1>6. \A i \in DOMAIN rows :
        /\ rows[i].from \in Nat /\ rows[i].to \in Nat /\ rows[i].plan \in Nat
        /\ rows[i] # Gone => rows[i].plan \in P /\ rows[i].from < rows[i].to
        /\ rows[i] = Gone => rows[i].to = 0
  BY <1>3, <1>5
<1>7. \A now \in Nat : Entitled(rows, now) \subseteq DOMAIN rows
  BY DEF Entitled
<1>8. QED
  BY <1>1, <1>2, <1>6, <1>7

(* The time that a row has from now on. *)
Rem(rows, now) == [i \in DOMAIN rows |-> rows[i].to - Max({now, rows[i].from})]

(* An entitled row has time left. *)
LEMMA RemNat ==
  ASSUME NEW P, P \subseteq Nat, NEW rows \in Seq(Rows(P)), NEW now \in Nat,
         NEW i \in Entitled(rows, now)
  PROVE  /\ i \in DOMAIN rows /\ rows[i] # Gone
         /\ Max({now, rows[i].from}) = IF now >= rows[i].from THEN now ELSE rows[i].from
         /\ Max({now, rows[i].from}) \in Nat /\ Max({now, rows[i].from}) < rows[i].to
         /\ Rem(rows, now)[i] = rows[i].to - Max({now, rows[i].from})
         /\ Rem(rows, now)[i] \in Nat
         /\ RowTime(rows, now)[i] = Rem(rows, now)[i]
<1>1. /\ i \in DOMAIN rows /\ rows[i] # Gone /\ rows[i].from \in Int /\ rows[i].from \in Nat
      /\ rows[i].to \in Nat /\ now \in Int
      /\ rows[i].from < rows[i].to /\ now < rows[i].to
  <2>1. i \in DOMAIN rows /\ rows[i].to > now
    BY DEF Entitled
  <2>2. /\ rows[i].from \in Nat /\ rows[i].to \in Nat
        /\ rows[i] # Gone => rows[i].from < rows[i].to
        /\ rows[i] = Gone => rows[i].to = 0
    BY <2>1, RowFields
  <2>3. rows[i] # Gone
    BY <2>1, <2>2
  <2>4. QED
    BY <2>1, <2>2, <2>3
<1>2. Max({now, rows[i].from}) = IF now >= rows[i].from THEN now ELSE rows[i].from
  BY ONLY <1>1, MaxMin
<1>3. Max({now, rows[i].from}) \in Nat /\ Max({now, rows[i].from}) < rows[i].to
  BY <1>1, <1>2
<1>4. /\ Rem(rows, now)[i] = rows[i].to - Max({now, rows[i].from})
      /\ RowTime(rows, now)[i] = rows[i].to - Max({now, rows[i].from})
  BY <1>1 DEF Rem, RowTime
<1>5. QED
  BY <1>1, <1>2, <1>3, <1>4

(* The segments of rows hold their time (grantSubscriptionOnTimeline). *)
LEMMA ExistingKeeps ==
  ASSUME NEW P, P \subseteq Nat, NEW rows \in Seq(Rows(P)), NEW now \in Nat,
         NEW ids \in SUBSET Entitled(rows, now)
  PROVE  LET segs == Existing(rows, ids, now)
         IN /\ IsFiniteSet(segs) /\ segs \subseteq Places(P, now)
            /\ Total(segs, Span) <= Total(ids, Rem(rows, now))
<1> DEFINE f == [i \in ids |-> [sub |-> i, plan |-> rows[i].plan,
                               from |-> Max({now, rows[i].from}), to |-> rows[i].to]]
           segs == {f[i] : i \in ids}
           sub == [x \in segs |-> x.sub]
<1>1. Existing(rows, ids, now) = segs
  BY DEF Existing
<1>2. /\ IsFiniteSet(ids) /\ \A i \in ids : i \in Nat /\ i \in Entitled(rows, now)
  <2>1. ids \subseteq DOMAIN rows /\ IsFiniteSet(DOMAIN rows) /\ DOMAIN rows = 1..Len(rows)
    BY RowFields
  <2>2. IsFiniteSet(ids)
    BY <2>1, FS_Subset
  <2>3. \A i \in DOMAIN rows : i \in Nat
    BY <2>1
  <2>4. QED
    BY <2>1, <2>2, <2>3
<1>3. ASSUME NEW i \in ids
      PROVE  /\ f[i] \in Places(P, now) /\ f[i].sub = i
             /\ Span[f[i]] = Rem(rows, now)[i] /\ Rem(rows, now)[i] \in Nat
  <2>1. PICK from : from = Max({now, rows[i].from})
    OBVIOUS
  <2>2. /\ from = IF now >= rows[i].from THEN now ELSE rows[i].from
        /\ from \in Nat /\ from < rows[i].to
        /\ Rem(rows, now)[i] = rows[i].to - from /\ Rem(rows, now)[i] \in Nat
    BY <1>2, <2>1, RemNat
  <2>3. rows[i].plan \in P /\ rows[i].plan \in Nat /\ rows[i].from \in Nat /\ rows[i].to \in Nat
    <3>1. i \in DOMAIN rows /\ rows[i] # Gone
      BY <1>2, RemNat
    <3>2. QED
      BY <3>1, RowFields
  <2>4. f[i] = [sub |-> i, plan |-> rows[i].plan, from |-> from, to |-> rows[i].to]
    BY <2>1
  <2> HIDE DEF f
  <2>5. f[i] \in Places(P, now)
    BY <1>2, <2>2, <2>3, <2>4 DEF Places, Segments, Nonempty
  <2>6. f[i] \in Segments /\ f[i].from = from /\ f[i].to = rows[i].to /\ f[i].sub = i
    BY <2>4, <2>5 DEF Places
  <2>7. Span[f[i]] = rows[i].to - from
    BY <2>6, SegmentFields
  <2>8. QED
    BY <2>2, <2>5, <2>6, <2>7
<1>4. IsFiniteSet(segs)
  <2> HIDE DEF f
  <2>1. QED
    BY <1>2, ImageFinite
<1> HIDE DEF f
<1>5. segs \subseteq Places(P, now)
  BY <1>3
<1>6. ASSUME NEW x \in segs
      PROVE  sub[x] \in ids /\ x = f[sub[x]] /\ Span[x] = Rem(rows, now)[sub[x]] /\ Span[x] \in Nat
  BY <1>3
<1>7. sub \in Injection(segs, ids)
  <2> HIDE DEF segs
  <2>1. sub \in [segs -> ids]
    BY <1>6
  <2>2. \A x, y \in segs : sub[x] = sub[y] => x = y
    BY <1>6
  <2> HIDE DEF sub
  <2>3. QED
    BY <2>1, <2>2 DEF Injection, IsInjective
<1> HIDE DEF segs, sub
<1>8. Total(segs, Span) <= Total(ids, Rem(rows, now))
  <2>1. /\ \A x \in segs : Span[x] \in Nat /\ Span[x] <= Rem(rows, now)[sub[x]]
        /\ \A i \in ids : Rem(rows, now)[i] \in Nat
    BY <1>3, <1>6
  <2>2. PICK g : g = Rem(rows, now)
    OBVIOUS
  <2>3. /\ \A x \in segs : Span[x] \in Nat /\ Span[x] <= g[sub[x]]
        /\ \A i \in ids : g[i] \in Nat
    BY <2>1, <2>2
  <2>4. Total(segs, Span) <= Total(ids, g)
    BY <1>2, <1>7, <2>3, TotalInto
  <2>5. QED
    BY <2>2, <2>4
<1>9. QED
  BY <1>1, <1>4, <1>5, <1>8

(* The time that a row still has. *)
LEMMA RowTimeNat ==
  ASSUME NEW P, P \subseteq Nat, NEW rows \in Seq(Rows(P)), NEW today \in Nat,
         \A i \in DOMAIN rows : rows[i] # Gone => rows[i].to > today
  PROVE  /\ \A i \in DOMAIN rows : RowTime(rows, today)[i] \in Nat
         /\ Total(DOMAIN rows, RowTime(rows, today)) \in Nat
<1>1. ASSUME NEW i \in DOMAIN rows PROVE RowTime(rows, today)[i] \in Nat
  <2>1. CASE rows[i] = Gone
    BY <2>1 DEF RowTime
  <2>2. CASE rows[i] # Gone
    <3>1. i \in Entitled(rows, today)
      BY <2>2 DEF Entitled
    <3>2. Rem(rows, today)[i] \in Nat /\ RowTime(rows, today)[i] = Rem(rows, today)[i]
      <4>1. P \subseteq Nat /\ rows \in Seq(Rows(P)) /\ today \in Nat
        OBVIOUS
      <4>2. Rem(rows, today)[i] \in Nat
        BY ONLY <3>1, <4>1, RemNat
      <4>3. RowTime(rows, today)[i] = Rem(rows, today)[i]
        BY ONLY <2>2 DEF RowTime, Rem
      <4>4. QED
        BY <4>2, <4>3
    <3>3. QED
      BY <3>2
  <2>3. QED
    BY <2>1, <2>2
<1>2. IsFiniteSet(DOMAIN rows)
  BY RowFields
<1>3. QED
  BY <1>1, <1>2, TotalNat

(* What the rows are rewritten to is typed, nothing before today, and it is *)
(* the time of the segments and of the rows that they do not come from *)
(* (applySubscriptionTimeline). *)
LEMMA ApplyKeeps ==
  ASSUME NEW P, P \subseteq Nat, NEW rows \in Seq(Rows(P)),
         NEW now \in Nat, NEW today \in Nat, today <= now,
         \A i \in DOMAIN rows : rows[i] # Gone => rows[i].to > today,
         NEW ids \in SUBSET Entitled(rows, now),
         NEW segs, IsFiniteSet(segs), segs \subseteq Places(P, now)
  PROVE  LET new == Apply(rows, ids, segs, now, today)
         IN /\ new \in Seq(Rows(P)) /\ DOMAIN rows \subseteq DOMAIN new
            /\ \A i \in DOMAIN new : new[i] # Gone => new[i].to > today
            /\ Total(DOMAIN new, RowTime(new, today)) + Total(ids, Rem(rows, now))
                 <= Total(DOMAIN rows, RowTime(rows, today)) + Total(segs, Span)
<1> DEFINE begun(i) == rows[i].from < now \/ rows[i].from <= today
           fits(i) == {x \in segs : x.sub = i /\ ~(begun(i) /\ x.from > now)}
           reused(i) == CHOOSE x \in fits(i) : \A y \in fits(i) : y = x \/ Before(x, y)
           from(i) == IF begun(i) /\ reused(i).from <= now
                      THEN rows[i].from ELSE reused(i).from
           rewritten(i) == IF fits(i) = {} THEN Gone
                           ELSE [plan |-> reused(i).plan, to |-> reused(i).to, from |-> from(i)]
           J == {j \in ids : fits(j) # {}}
           used == {reused(i) : i \in J}
           created == InOrder(segs \ used)
           A == [i \in DOMAIN rows |-> IF i \in ids THEN rewritten(i) ELSE rows[i]]
           C == [j \in DOMAIN created |->
                  [plan |-> created[j].plan, from |-> created[j].from, to |-> created[j].to]]
           m == Len(rows)
           n == Cardinality(segs \ used)
           new == Apply(rows, ids, segs, now, today)
<1>0. \A t \in Nat : \A i \in Entitled(rows, t) :
        /\ Max({t, rows[i].from}) = IF t >= rows[i].from THEN t ELSE rows[i].from
        /\ Rem(rows, t)[i] = rows[i].to - Max({t, rows[i].from})
        /\ RowTime(rows, t)[i] = Rem(rows, t)[i]
  <2> TAKE t \in Nat
  <2> TAKE i \in Entitled(rows, t)
  <2>1. P \subseteq Nat /\ rows \in Seq(Rows(P)) /\ t \in Nat /\ i \in Entitled(rows, t)
    OBVIOUS
  <2>2. Max({t, rows[i].from}) = IF t >= rows[i].from THEN t ELSE rows[i].from
    BY ONLY <2>1, RemNat
  <2>3. Rem(rows, t)[i] = rows[i].to - Max({t, rows[i].from})
    BY ONLY <2>1, RemNat
  <2>4. RowTime(rows, t)[i] = Rem(rows, t)[i]
    <3>1. i \in DOMAIN rows /\ rows[i] # Gone
      BY ONLY <2>1, RemNat
    <3>2. QED
      BY ONLY <3>1 DEF RowTime, Rem
  <2>5. QED
    BY <2>2, <2>3, <2>4
<1>1. new = A \o C
  BY DEF Apply
<1>2. /\ DOMAIN rows = 1..m /\ m \in Nat /\ IsFiniteSet(1..m) /\ ids \subseteq 1..m
      /\ segs \subseteq Segments
  BY RowFields DEF Places
<1>3. ASSUME NEW i \in J
      PROVE  reused(i) \in segs /\ reused(i) \in Places(P, now) /\ reused(i) \in Segments
             /\ reused(i).sub = i /\ (begun(i) => reused(i).from <= now)
  <2>1. fits(i) # {} /\ fits(i) \subseteq segs
    OBVIOUS
  <2>2. IsFiniteSet(fits(i)) /\ fits(i) \subseteq Segments
    <3> HIDE DEF fits
    <3>1. QED
      BY <1>2, <2>1, FS_Subset
  <2>3. \E x \in fits(i) : \A y \in fits(i) : y = x \/ Before(x, y)
    <3> HIDE DEF fits
    <3>1. QED
      BY <2>1, <2>2, FirstSegment
  <2>4. reused(i) \in fits(i)
    <3> HIDE DEF fits
    <3>1. QED
      BY <2>3
  <2> HIDE DEF reused, begun
  <2>5. reused(i) \in segs /\ reused(i).sub = i /\ ~(begun(i) /\ reused(i).from > now)
    BY <2>4
  <2>6. reused(i) \in Segments /\ reused(i) \in Places(P, now)
    BY <1>2, <2>5
  <2>7. reused(i).from \in Nat
    BY <2>6, SegmentFields
  <2>8. QED
    BY <2>5, <2>6, <2>7
<1> HIDE DEF reused
<1>4. used \subseteq segs /\ IsFiniteSet(segs \ used) /\ IsFiniteSet(used) /\ segs \ used \subseteq Segments
  <2>1. used \subseteq segs
    BY <1>3
  <2> HIDE DEF used
  <2>2. QED
    BY <1>2, <2>1, FS_Subset
<1> HIDE DEF used
<1>5. n \in Nat /\ DOMAIN created = 1..n /\ created \in Injection(1..n, segs \ used)
  BY <1>4, InOrderLists, FS_CardinalityType
<1> HIDE DEF created, n
<1>6. ASSUME NEW i \in ids
      PROVE  /\ i \in Entitled(rows, now) /\ i \in 1..m /\ rows[i] # Gone
             /\ rows[i].from \in Nat /\ rows[i].to \in Nat
             /\ Rem(rows, now)[i] \in Nat
             /\ Rem(rows, now)[i] = rows[i].to - (IF now >= rows[i].from THEN now ELSE rows[i].from)
             /\ RowTime(rows, today)[i] =
                  rows[i].to - (IF today >= rows[i].from THEN today ELSE rows[i].from)
             /\ rows[i].to > now
  <2>1. i \in Entitled(rows, now)
    OBVIOUS
  <2>2. i \in 1..m /\ rows[i] # Gone /\ rows[i].from \in Nat /\ rows[i].to \in Nat /\ rows[i].to > now
    BY <1>2, <2>1, RemNat, RowFields DEF Entitled
  <2>3. i \in Entitled(rows, today)
    BY <1>2, <2>2 DEF Entitled
  <2>4. /\ Rem(rows, now)[i] \in Nat
        /\ Rem(rows, now)[i] = rows[i].to - (IF now >= rows[i].from THEN now ELSE rows[i].from)
    <3>1. /\ Max({now, rows[i].from}) = IF now >= rows[i].from THEN now ELSE rows[i].from
          /\ Rem(rows, now)[i] = rows[i].to - Max({now, rows[i].from})
          /\ Rem(rows, now)[i] \in Nat
      BY <2>1, RemNat
    <3>2. QED
      BY <3>1
  <2>5. RowTime(rows, today)[i] =
          rows[i].to - (IF today >= rows[i].from THEN today ELSE rows[i].from)
    <3>1. /\ Max({today, rows[i].from}) = IF today >= rows[i].from THEN today ELSE rows[i].from
          /\ Rem(rows, today)[i] = rows[i].to - Max({today, rows[i].from})
          /\ RowTime(rows, today)[i] = Rem(rows, today)[i]
      BY <1>0, <2>3
    <3>2. QED
      BY <3>1
  <2>6. QED
    BY <2>1, <2>2, <2>4, <2>5
<1> DEFINE pA == RowTime(A, today)
           q == RowTime(rows, today)
           rem0 == [i \in 1..m |-> IF i \in ids THEN Rem(rows, now)[i] ELSE 0]
           use0 == [i \in 1..m |-> IF i \in J THEN Span[reused(i)] ELSE 0]
<1>7. /\ \A i \in 1..m : A[i] = IF i \in ids THEN rewritten(i) ELSE rows[i]
      /\ DOMAIN A = 1..m
      /\ Gone.to = 0
  BY <1>2 DEF Gone
<1>8. ASSUME NEW i \in J
      PROVE  /\ A[i] \in Rows(P) /\ A[i] # Gone /\ A[i].to > today
             /\ i \in 1..m /\ pA[i] \in Nat /\ q[i] \in Nat
             /\ Rem(rows, now)[i] \in Nat /\ Span[reused(i)] \in Nat
             /\ pA[i] + Rem(rows, now)[i] <= q[i] + Span[reused(i)]
  <2>1. PICK r : r = reused(i)
    OBVIOUS
  <2>2. PICK f : f = from(i)
    OBVIOUS
  <2>3. /\ r \in Places(P, now) /\ r \in Segments /\ (begun(i) => r.from <= now)
        /\ f = IF begun(i) /\ r.from <= now THEN rows[i].from ELSE r.from
    BY <1>3, <2>1, <2>2
  <2>4. /\ r.plan \in P /\ r.from \in Nat /\ r.to \in Nat /\ r.from < r.to /\ r.from >= now
        /\ Span[r] = r.to - r.from
    BY <2>3, SegmentFields DEF Places
  <2>5. i \in ids /\ fits(i) # {}
    OBVIOUS
  <2>6. A[i] = [plan |-> r.plan, to |-> r.to, from |-> f]
    <3>1. A[i] = rewritten(i)
      BY <1>6, <1>7, <2>5
    <3>2. QED
      BY <2>1, <2>2, <2>5, <3>1
  <2> HIDE DEF A, fits, from
  <2>7. PICK s, e : s = rows[i].from /\ e = rows[i].to
    OBVIOUS
  <2>8. /\ s \in Nat /\ e \in Nat /\ i \in 1..m
        /\ Rem(rows, now)[i] \in Nat
        /\ Rem(rows, now)[i] = e - (IF now >= s THEN now ELSE s)
        /\ q[i] = e - (IF today >= s THEN today ELSE s)
        /\ e > now
    BY <1>6, <2>5, <2>7
  <2>9. /\ begun(i) <=> (s < now \/ s <= today)
        /\ f = IF begun(i) /\ r.from <= now THEN s ELSE r.from
    BY <2>3, <2>7
  <2> HIDE DEF begun, q, pA
  <2>10. f \in Nat /\ f <= r.from
    BY <2>4, <2>8, <2>9
  <2>11. A[i] \in Rows(P) /\ A[i] # Gone /\ A[i].to = r.to /\ A[i].from = f /\ r.to > today
    <3>1. A[i].to = r.to /\ A[i].from = f /\ r.to > 0
      BY <2>4, <2>6
    <3>2. A[i] # Gone
      BY <1>7, <2>4, <3>1
    <3>3. A[i] \in [plan : P, from : Nat, to : Nat] /\ Nonempty(A[i])
      BY <2>4, <2>6, <2>10 DEF Nonempty
    <3>4. r.to > today
      BY <2>4
    <3>5. QED
      BY <3>1, <3>2, <3>3, <3>4 DEF Rows
  <2>12. pA[i] = r.to - Max({today, f})
    BY <1>7, <2>8, <2>11 DEF pA, RowTime
  <2>13. Max({today, f}) = IF today >= f THEN today ELSE f
    <3>1. today \in Int /\ f \in Int
      BY <2>10
    <3>2. QED
      BY ONLY <3>1, MaxMin
  <2>14. pA[i] = r.to - (IF today >= f THEN today ELSE f)
    BY <2>12, <2>13
  <2>15. PICK pa, qi, ri, b : pa = pA[i] /\ qi = q[i] /\ ri = Rem(rows, now)[i] /\ b = begun(i)
    OBVIOUS
  <2>16. pA[i] \in Nat /\ q[i] \in Nat /\ Span[r] \in Nat
    <3>1. PICK t, first : t = r.to /\ first = r.from
      OBVIOUS
    <3>2. /\ t \in Nat /\ first \in Nat /\ first < t /\ first >= now /\ f \in Nat /\ f <= first
          /\ pa = t - (IF today >= f THEN today ELSE f) /\ Span[r] = t - first
      BY <2>4, <2>10, <2>14, <2>15, <3>1
    <3>3. pa \in Nat /\ t - first \in Nat
      BY ONLY <3>2, now \in Nat, today \in Nat, today <= now
    <3>4. /\ s \in Nat /\ e \in Nat /\ e > now /\ ri \in Nat
          /\ ri = e - (IF now >= s THEN now ELSE s) /\ qi = e - (IF today >= s THEN today ELSE s)
      BY <2>8, <2>15
    <3>5. qi \in Nat
      BY ONLY <3>4, now \in Nat, today \in Nat, today <= now
    <3>6. QED
      BY <2>15, <3>2, <3>3, <3>5
  <2>17. pA[i] + Rem(rows, now)[i] <= q[i] + Span[r]
    <3>1. CASE begun(i)
      <4>1. f = s /\ r.from = now /\ s <= now
        BY <2>3, <2>4, <2>8, <2>9, <3>1
      <4>2. Rem(rows, now)[i] = e - now
        BY <2>8, <4>1
      <4>3. QED
        BY <2>4, <2>8, <2>14, <4>1, <4>2
    <3>2. CASE ~begun(i)
      <4>1. f = r.from /\ s >= now /\ s > today
        BY <2>8, <2>9, <3>2
      <4>2. Rem(rows, now)[i] = e - s /\ q[i] = e - s /\ pA[i] = r.to - r.from
        BY <2>4, <2>8, <2>14, <4>1
      <4>3. QED
        BY <2>4, <2>8, <4>2
    <3>3. QED
      BY <3>1, <3>2
  <2>18. QED
    BY <2>1, <2>8, <2>11, <2>16, <2>17
<1>9. ASSUME NEW i \in ids \ J
      PROVE  /\ A[i] = Gone /\ i \in 1..m /\ pA[i] = 0 /\ q[i] \in Nat
             /\ Rem(rows, now)[i] \in Nat /\ Rem(rows, now)[i] <= q[i]
  <2>1. A[i] = Gone /\ i \in 1..m
    BY <1>6, <1>7
  <2>2. pA[i] = 0
    <3> HIDE DEF A
    <3>1. QED
      BY <1>7, <2>1 DEF RowTime
  <2>3. /\ rows[i].from \in Nat /\ rows[i].to \in Nat
        /\ Rem(rows, now)[i] \in Nat
        /\ Rem(rows, now)[i] = rows[i].to - (IF now >= rows[i].from THEN now ELSE rows[i].from)
        /\ q[i] = rows[i].to - (IF today >= rows[i].from THEN today ELSE rows[i].from)
        /\ rows[i].to > now
    BY <1>6
  <2> HIDE DEF q
  <2>4. q[i] \in Nat /\ Rem(rows, now)[i] <= q[i]
    BY <2>3
  <2>5. QED
    BY <2>1, <2>2, <2>3, <2>4
<1>10. ASSUME NEW i \in 1..m, i \notin ids
       PROVE  A[i] = rows[i] /\ pA[i] = q[i] /\ q[i] \in Nat
  <2>1. A[i] = rows[i]
    <3> HIDE DEF A, rewritten
    <3>1. QED
      BY <1>7, <1>10
  <2>2. pA[i] = q[i]
    <3> HIDE DEF A
    <3>1. QED
      BY <1>2, <1>7, <2>1 DEF RowTime
  <2>3. q[i] \in Nat
    BY <1>2, RowTimeNat
  <2>4. QED
    BY <2>1, <2>2, <2>3
<1> DEFINE pC == RowTime(C, today)
<1>11. ASSUME NEW j \in 1..n
       PROVE  /\ C[j] \in Rows(P) /\ C[j] # Gone /\ C[j].to > today
              /\ created[j] \in segs \ used /\ Span[created[j]] \in Nat
              /\ pC[j] = Span[created[j]]
  <2>1. PICK x : x = created[j]
    OBVIOUS
  <2>2. x \in segs \ used
    BY <1>5, <2>1 DEF Injection
  <2>3. x \in Places(P, now) /\ x \in Segments
    BY <1>2, <2>2
  <2>4. /\ x.plan \in P /\ x.from \in Nat /\ x.to \in Nat /\ x.from < x.to /\ x.from >= now
        /\ Span[x] = x.to - x.from
    BY <2>3, SegmentFields DEF Places
  <2>5. C[j] = [plan |-> x.plan, from |-> x.from, to |-> x.to] /\ j \in DOMAIN C
    BY <1>5, <2>1
  <2> HIDE DEF C
  <2>6. C[j].to = x.to /\ C[j].from = x.from /\ x.to > today /\ x.to > 0
    BY <2>4, <2>5
  <2>7. C[j] # Gone
    BY <1>7, <2>6
  <2>8. C[j] \in Rows(P)
    <3>1. C[j] \in [plan : P, from : Nat, to : Nat] /\ Nonempty(C[j])
      BY <2>4, <2>5 DEF Nonempty
    <3>2. QED
      BY <3>1 DEF Rows
  <2>9. Max({today, x.from}) = IF today >= x.from THEN today ELSE x.from
    <3>1. today \in Int /\ x.from \in Int
      BY <2>4
    <3>2. QED
      BY ONLY <3>1, MaxMin
  <2>10. pC[j] = x.to - Max({today, x.from})
    BY <2>5, <2>6, <2>7 DEF RowTime
  <2> HIDE DEF pC
  <2>11. pC[j] = Span[x] /\ Span[x] \in Nat
    BY <2>4, <2>9, <2>10
  <2>12. QED
    BY <2>1, <2>2, <2>6, <2>7, <2>8, <2>11
<1>12. DOMAIN C = 1..n
  BY <1>5
<1>13. \A i \in 1..m : A[i] \in Rows(P) /\ (A[i] # Gone => A[i].to > today)
  <2> TAKE i \in 1..m
  <2>1. CASE i \in J
    BY <1>8, <2>1
  <2>2. CASE i \in ids \ J
    <3>1. A[i] = Gone
      BY <1>9, <2>2
    <3> HIDE DEF A
    <3>2. QED
      BY <3>1 DEF Rows
  <2>3. CASE i \notin ids
    <3>1. A[i] = rows[i]
      BY <1>10, <2>3
    <3> HIDE DEF A
    <3>2. QED
      BY <1>2, <3>1, ElementOfSeq, LenProperties
  <2>4. QED
    BY <2>1, <2>2, <2>3
<1>14. A = [i \in 1..m |-> A[i]] /\ C = [i \in 1..n |-> C[i]]
  BY <1>2, <1>12
<1> HIDE DEF A, C
<1>15. /\ A \in Seq(Rows(P)) /\ Len(A) = m
       /\ C \in Seq(Rows(P)) /\ Len(C) = n
  <2>1. A \in [1..m -> Rows(P)] /\ C \in [1..n -> Rows(P)]
    BY <1>11, <1>13, <1>14
  <2>2. A \in Seq(Rows(P)) /\ C \in Seq(Rows(P))
    BY <1>2, <1>5, <2>1, SeqDef
  <2>3. QED
    BY <1>2, <1>5, <1>7, <1>12, <2>2, LenProperties
<1>16. /\ new \in Seq(Rows(P)) /\ DOMAIN new = 1..(m + n)
       /\ \A i \in 1..m : new[i] = A[i]
       /\ \A j \in 1..n : new[m + j] = C[j]
  <2>1. /\ A \o C \in Seq(Rows(P)) /\ Len(A \o C) = m + n
        /\ \A i \in 1..m : (A \o C)[i] = A[i]
        /\ \A j \in 1..n : (A \o C)[m + j] = C[j]
    <3>1. /\ A \o C \in Seq(Rows(P)) /\ Len(A \o C) = Len(A) + Len(C)
          /\ \A i \in 1..(Len(A) + Len(C)) :
               (A \o C)[i] = IF i <= Len(A) THEN A[i] ELSE C[i - Len(A)]
      BY <1>15, ConcatProperties
    <3>2. /\ Len(A \o C) = m + n
          /\ \A i \in 1..(m + n) : (A \o C)[i] = IF i <= m THEN A[i] ELSE C[i - m]
      BY <1>15, <3>1
    <3>3. \A i \in 1..m : (A \o C)[i] = A[i]
      BY <1>2, <1>5, <3>2
    <3>4. ASSUME NEW j \in 1..n PROVE (A \o C)[m + j] = C[j]
      <4>1. m + j \in 1..(m + n) /\ ~(m + j <= m) /\ (m + j) - m = j
        BY <1>2, <1>5
      <4>2. QED
        BY <3>2, <4>1
    <3>5. QED
      BY <3>1, <3>2, <3>3, <3>4
  <2>2. QED
    BY <1>1, <2>1, LenProperties
<1>17. \A i \in DOMAIN new : new[i] # Gone => new[i].to > today
  <2> SUFFICES ASSUME NEW i \in 1..(m + n) PROVE new[i] # Gone => new[i].to > today
    BY <1>16
  <2>1. CASE i <= m
    <3>1. i \in 1..m
      BY <1>2, <2>1
    <3>2. QED
      BY <1>13, <1>16, <3>1
  <2>2. CASE ~(i <= m)
    <3>1. PICK j : j = i - m
      OBVIOUS
    <3>2. j \in 1..n /\ i = m + j
      BY <1>2, <1>5, <2>2, <3>1
    <3>3. QED
      BY <1>11, <1>16, <3>2
  <2>3. QED
    BY <2>1, <2>2
<1>18. Total(1..m, pA) + Total(ids, Rem(rows, now)) <= Total(1..m, q) + Total(J, use0)
  <2> DEFINE left == [i \in 1..m |-> pA[i] + rem0[i]]
             right == [i \in 1..m |-> q[i] + use0[i]]
  <2>1. \A i \in 1..m :
          /\ pA[i] \in Nat /\ q[i] \in Nat /\ rem0[i] \in Nat /\ use0[i] \in Nat
          /\ pA[i] + rem0[i] <= q[i] + use0[i]
    <3> TAKE i \in 1..m
    <3>1. CASE i \in J
      <4>1. rem0[i] = Rem(rows, now)[i] /\ use0[i] = Span[reused(i)]
        BY <3>1
      <4>2. QED
        BY <1>8, <3>1, <4>1
    <3>2. CASE i \in ids \ J
      <4>1. rem0[i] = Rem(rows, now)[i] /\ use0[i] = 0
        BY <3>2
      <4>2. QED
        BY <1>9, <3>2, <4>1
    <3>3. CASE i \notin ids
      <4>1. rem0[i] = 0 /\ use0[i] = 0
        BY <3>3
      <4>2. QED
        BY <1>10, <3>3, <4>1
    <3>4. QED
      BY <3>1, <3>2, <3>3
  <2> HIDE DEF pA, q, rem0, use0
  <2>2. Total(1..m, left) = Total(1..m, pA) + Total(1..m, rem0)
    BY <1>2, <2>1, TotalPlus
  <2>3. Total(1..m, right) = Total(1..m, q) + Total(1..m, use0)
    BY <1>2, <2>1, TotalPlus
  <2>4. Total(1..m, left) <= Total(1..m, right)
    <3>1. \A i \in 1..m : left[i] \in Nat /\ right[i] \in Nat /\ left[i] <= right[i]
      BY <2>1
    <3> HIDE DEF left, right
    <3>2. QED
      BY <1>2, <3>1, TotalGrows
  <2>5. Total(1..m, rem0) = Total(ids, Rem(rows, now))
    <3>1. \A i \in 1..m \ ids : rem0[i] = 0
      BY DEF rem0
    <3>2. Total(1..m, rem0) = Total(ids, rem0)
      BY <1>2, <3>1, TotalOutside
    <3>3. \A i \in ids : rem0[i] = Rem(rows, now)[i]
      BY <1>2 DEF rem0
    <3>4. Total(ids, rem0) = Total(ids, Rem(rows, now))
      BY <3>3, TotalSame
    <3>5. QED
      BY <3>2, <3>4
  <2>6. Total(1..m, use0) = Total(J, use0)
    <3>1. \A i \in 1..m \ J : use0[i] = 0
      BY DEF use0
    <3>2. J \in SUBSET (1..m)
      BY <1>2
    <3>3. PICK S, T, f : S = J /\ T = 1..m /\ f = use0
      OBVIOUS
    <3>4. S \in SUBSET T /\ \A x \in T \ S : f[x] = 0
      BY <3>1, <3>2, <3>3
    <3>5. Total(T, f) = Total(S, f)
      BY ONLY <3>4, TotalOutside
    <3>6. QED
      BY <3>3, <3>5
  <2>7. QED
    BY <2>2, <2>3, <2>4, <2>5, <2>6
<1>19. Total(J, use0) <= Total(used, Span)
  <2> DEFINE h == [i \in J |-> reused(i)]
  <2>1. h \in Injection(J, used)
    <3>1. \A i \in J : reused(i) \in used
      BY DEF used
    <3>2. \A i \in J : reused(i).sub = i
      BY <1>3
    <3> HIDE DEF J
    <3>3. h \in [J -> used] /\ \A i, j \in J : h[i] = h[j] => i = j
      BY <3>1, <3>2
    <3> HIDE DEF h
    <3>4. QED
      BY <3>3 DEF Injection, IsInjective
  <2>2. \A i \in J : use0[i] = Span[h[i]] /\ use0[i] \in Nat
    BY <1>8
  <2>3. \A x \in used : Span[x] \in Nat
    BY <1>2, <1>4, SegmentFields
  <2> HIDE DEF h, use0, J
  <2>4. QED
    BY <1>4, <2>1, <2>2, <2>3, TotalInto
<1>20. Total(1..n, pC) <= Total(segs \ used, Span)
  <2>1. \A j \in 1..n : pC[j] \in Nat /\ pC[j] <= Span[created[j]]
    BY <1>11
  <2>2. \A x \in segs \ used : Span[x] \in Nat
    BY <1>4, SegmentFields
  <2> HIDE DEF pC
  <2>3. QED
    BY <1>4, <1>5, <2>1, <2>2, TotalInto
<1>21. Total(segs, Span) = Total(used, Span) + Total(segs \ used, Span)
  BY <1>2, <1>4, SegmentFields, TotalSplit
<1>22. Total(1..(m + n), RowTime(new, today)) = Total(1..m, pA) + Total(1..n, pC)
  <2>1. \A i \in 1..m : pA[i] \in Nat /\ RowTime(new, today)[i] = pA[i]
    <3> TAKE i \in 1..m
    <3>1. pA[i] \in Nat
      BY <1>8, <1>9, <1>10
    <3>2. i \in DOMAIN new
      BY <1>2, <1>5, <1>16
    <3>3. RowTime(new, today)[i] = pA[i]
      BY <1>7, <1>16, <3>2 DEF RowTime
    <3>4. QED
      BY <3>1, <3>3
  <2>2. \A j \in 1..n : pC[j] \in Nat /\ RowTime(new, today)[m + j] = pC[j]
    <3> TAKE j \in 1..n
    <3>1. pC[j] \in Nat
      BY <1>11
    <3>2. m + j \in DOMAIN new
      BY <1>2, <1>5, <1>16
    <3>3. RowTime(new, today)[m + j] = pC[j]
      BY <1>12, <1>16, <3>2 DEF RowTime
    <3>4. QED
      BY <3>1, <3>3
  <2>3. PICK f, g, h : f = RowTime(new, today) /\ g = pA /\ h = pC
    OBVIOUS
  <2>4. /\ \A i \in 1..m : g[i] \in Nat /\ f[i] = g[i]
        /\ \A j \in 1..n : h[j] \in Nat /\ f[m + j] = h[j]
    BY <2>1, <2>2, <2>3
  <2>5. m \in Nat /\ n \in Nat
    BY <1>2, <1>5
  <2>6. Total(1..(m + n), f) = Total(1..m, g) + Total(1..n, h)
    BY ONLY <2>4, <2>5, TotalConcat
  <2>7. QED
    BY <2>3, <2>6
<1>23. /\ Total(1..(m + n), RowTime(new, today)) \in Nat
       /\ Total(1..m, pA) \in Nat /\ Total(1..n, pC) \in Nat
  <2>1. Total(DOMAIN new, RowTime(new, today)) \in Nat
    BY <1>16, <1>17, RowTimeNat
  <2>2. \A i \in 1..m : pA[i] \in Nat
    BY <1>8, <1>9, <1>10
  <2>3. \A j \in 1..n : pC[j] \in Nat
    BY <1>11
  <2>4. IsFiniteSet(1..n)
    BY <1>5, FS_Interval
  <2> HIDE DEF pA, pC, new
  <2>5. QED
    BY <1>2, <1>16, <2>1, <2>2, <2>3, <2>4, TotalNat
<1>24. /\ Total(ids, Rem(rows, now)) \in Nat /\ Total(1..m, q) \in Nat
       /\ Total(J, use0) \in Nat
       /\ Total(used, Span) \in Nat /\ Total(segs \ used, Span) \in Nat
  <2>1. IsFiniteSet(ids) /\ \A i \in ids : Rem(rows, now)[i] \in Nat
    BY <1>2, <1>6, FS_Subset
  <2>2. Total(ids, Rem(rows, now)) \in Nat
    BY <2>1, TotalNat
  <2>3. Total(1..m, q) \in Nat
    BY <1>2, RowTimeNat
  <2>4. IsFiniteSet(J) /\ \A i \in J : use0[i] \in Nat
    BY <1>8, <2>1, FS_Subset
  <2>5. Total(J, use0) \in Nat
    <3> HIDE DEF J, use0
    <3>1. QED
      BY <2>4, TotalNat
  <2>6. Total(used, Span) \in Nat /\ Total(segs \ used, Span) \in Nat
    <3>1. \A x \in segs : Span[x] \in Nat
      BY <1>2, SegmentFields
    <3>2. QED
      BY <1>4, <3>1, TotalNat
  <2>7. QED
    BY <2>2, <2>3, <2>5, <2>6
<1>25. Total(DOMAIN new, RowTime(new, today)) + Total(ids, Rem(rows, now))
         <= Total(DOMAIN rows, RowTime(rows, today)) + Total(segs, Span)
  <2> HIDE DEF pA, pC, J, use0, new
  <2>1. DOMAIN new = 1..(m + n) /\ DOMAIN rows = 1..m /\ q = RowTime(rows, today)
    BY <1>2, <1>16
  <2> HIDE DEF q
  <2>2. PICK a, b, c, d, e, f, g, h, i :
          /\ a = Total(1..(m + n), RowTime(new, today)) /\ b = Total(1..m, pA)
          /\ c = Total(1..n, pC) /\ d = Total(ids, Rem(rows, now)) /\ e = Total(1..m, q)
          /\ f = Total(J, use0) /\ g = Total(used, Span) /\ h = Total(segs \ used, Span)
          /\ i = Total(segs, Span)
    OBVIOUS
  <2>3. /\ a \in Nat /\ b \in Nat /\ c \in Nat /\ d \in Nat /\ e \in Nat /\ f \in Nat
        /\ g \in Nat /\ h \in Nat
        /\ b + d <= e + f /\ f <= g /\ c <= h /\ i = g + h /\ a = b + c
    BY <1>18, <1>19, <1>20, <1>21, <1>22, <1>23, <1>24, <2>2
  <2>4. a + d <= e + i
    BY ONLY <2>3
  <2>5. QED
    BY <2>1, <2>2, <2>4
<1>26. DOMAIN rows \subseteq DOMAIN new
  BY <1>2, <1>5, <1>16
<1>27. QED
  BY <1>16, <1>17, <1>25, <1>26

(* What holds of the rows of a user from now on, as for segments. *)
RowsOver(rows, t, p) == \E i \in DOMAIN rows : In(rows[i], t) /\ rows[i].plan >= p

RowsApart(rows, now) ==
  \A i, j \in DOMAIN rows, t \in Nat :
    now <= t /\ In(rows[i], t) /\ In(rows[j], t) => i = j

RowsStacked(rows, now) ==
  \A s, t, p \in Nat : now <= s /\ s <= t /\ RowsOver(rows, t, p) => RowsOver(rows, s, p)

(* A plan may begin at "at": until then there is such a plan or a higher    *)
(* one, and then no more.                                                   *)
Ready(rows, plan, at, today) ==
  /\ ~RowsOver(rows, at, plan)
  /\ \A t \in Nat : today <= t /\ t < at => RowsOver(rows, t, plan)

(* The segments of rows are the rows from then on. *)
LEMMA ExistingAre ==
  ASSUME NEW P, P \subseteq Nat, NEW rows \in Seq(Rows(P)), NEW now \in Nat,
         NEW ids \in SUBSET Entitled(rows, now)
  PROVE  LET segs == Existing(rows, ids, now)
         IN /\ \A x \in segs :
                 /\ x.sub \in ids /\ x.plan = rows[x.sub].plan
                 /\ \A t \in Nat : In(x, t) <=> now <= t /\ In(rows[x.sub], t)
            /\ \A i \in ids : \E x \in segs : x.sub = i
            /\ \A x, y \in segs : x.sub = y.sub => x = y
<1> DEFINE f(i) == [sub |-> i, plan |-> rows[i].plan,
                    from |-> Max({now, rows[i].from}), to |-> rows[i].to]
           segs == {f(i) : i \in ids}
<1>1. Existing(rows, ids, now) = segs
  BY DEF Existing
<1>2. ASSUME NEW i \in ids
      PROVE  /\ f(i).sub = i /\ f(i).plan = rows[i].plan
             /\ \A t \in Nat : In(f(i), t) <=> now <= t /\ In(rows[i], t)
  <2>1. PICK b : b = Max({now, rows[i].from})
    OBVIOUS
  <2>2. i \in Entitled(rows, now)
    OBVIOUS
  <2>3. b = IF now >= rows[i].from THEN now ELSE rows[i].from
    BY <2>1, <2>2, RemNat
  <2>4. rows[i].from \in Nat /\ rows[i].to \in Nat
    BY <2>2, RemNat, RowFields
  <2>5. f(i).from = b /\ f(i).to = rows[i].to
    BY <2>1
  <2>6. \A t \in Nat : In(f(i), t) <=> now <= t /\ In(rows[i], t)
    <3> HIDE DEF f
    <3> QED BY <2>3, <2>4, <2>5 DEF In
  <2>7. QED
    BY <2>6
<1> HIDE DEF f
<1>3. QED
  BY <1>1, <1>2

(* They hold what the rows hold. *)
LEMMA ExistingHolds ==
  ASSUME NEW P, P \subseteq Nat, NEW rows \in Seq(Rows(P)), NEW now \in Nat,
         NEW ids, ids = Entitled(rows, now)
  PROVE  LET segs == Existing(rows, ids, now)
         IN /\ \A t, p \in Nat : now <= t => (Over(segs, t, p) <=> RowsOver(rows, t, p))
            /\ RowsApart(rows, now) => Apart(segs)
            /\ RowsStacked(rows, now) => Stacked(segs, now)
<1> DEFINE segs == Existing(rows, ids, now)
<1>1. /\ \A x \in segs :
           /\ x.sub \in ids /\ x.plan = rows[x.sub].plan
           /\ \A t \in Nat : In(x, t) <=> now <= t /\ In(rows[x.sub], t)
      /\ \A i \in ids : \E x \in segs : x.sub = i
      /\ \A x, y \in segs : x.sub = y.sub => x = y
  <2>1. ids \in SUBSET Entitled(rows, now)
    OBVIOUS
  <2>2. /\ \A x \in Existing(rows, ids, now) :
             /\ x.sub \in ids /\ x.plan = rows[x.sub].plan
             /\ \A t \in Nat : In(x, t) <=> now <= t /\ In(rows[x.sub], t)
        /\ \A i \in ids : \E x \in Existing(rows, ids, now) : x.sub = i
        /\ \A x, y \in Existing(rows, ids, now) : x.sub = y.sub => x = y
    BY ONLY <2>1, ExistingAre, P \subseteq Nat, rows \in Seq(Rows(P)), now \in Nat
  <2>3. QED
    BY <2>2
<1> HIDE DEF segs
<1>2. ASSUME NEW i \in DOMAIN rows, NEW t \in Nat, now <= t, In(rows[i], t) PROVE i \in ids
  <2>1. rows[i].to \in Nat /\ t < rows[i].to
    BY <1>2, RowFields DEF In
  <2>2. QED
    BY <1>2, <2>1 DEF Entitled
<1>3. ids \subseteq DOMAIN rows
  BY DEF Entitled
<1>4. ASSUME NEW t \in Nat, NEW p \in Nat, now <= t PROVE Over(segs, t, p) <=> RowsOver(rows, t, p)
  <2>1. ASSUME Over(segs, t, p) PROVE RowsOver(rows, t, p)
    BY <1>1, <1>3, <2>1 DEF Over, RowsOver
  <2>2. ASSUME NEW i \in DOMAIN rows, In(rows[i], t), rows[i].plan >= p PROVE Over(segs, t, p)
    <3>1. i \in ids
      BY <1>2, <1>4, <2>2
    <3>2. PICK x \in segs : x.sub = i
      BY <1>1, <3>1
    <3>3. In(x, t) /\ x.plan >= p
      BY <1>1, <1>4, <2>2, <3>2
    <3>4. QED
      BY <3>3 DEF Over
  <2>3. QED
    BY <2>1, <2>2 DEF RowsOver
<1>5. ASSUME RowsApart(rows, now) PROVE Apart(segs)
  <2> SUFFICES ASSUME NEW x \in segs, NEW y \in segs, NEW t \in Nat, In(x, t), In(y, t)
               PROVE  x = y
    BY DEF Apart
  <2>1. /\ now <= t /\ In(rows[x.sub], t) /\ In(rows[y.sub], t)
        /\ x.sub \in DOMAIN rows /\ y.sub \in DOMAIN rows
    BY <1>1, <1>3
  <2>2. x.sub = y.sub
    BY <1>5, <2>1 DEF RowsApart
  <2>3. QED
    BY <1>1, <2>2
<1>6. ASSUME RowsStacked(rows, now) PROVE Stacked(segs, now)
  <2> SUFFICES ASSUME NEW s \in Nat, NEW t \in Nat, NEW p \in Nat, now <= s, s <= t, Over(segs, t, p)
               PROVE  Over(segs, s, p)
    BY DEF Stacked
  <2>1. RowsOver(rows, t, p)
    BY <1>4
  <2>2. RowsOver(rows, s, p)
    BY <1>6, <2>1 DEF RowsStacked
  <2>3. QED
    BY <1>4, <2>2
<1>7. QED
  BY <1>4, <1>5, <1>6 DEF segs

(* The new rows are, one to one, segments; the rows not rewritten stay.     *)
Rewrites(s, rows, ids, segs, new, today) ==
  /\ DOMAIN s \subseteq DOMAIN new
  /\ \A i \in DOMAIN s :
       /\ s[i] \in segs /\ new[i].plan = s[i].plan
       /\ \A t \in Nat : today <= t => (In(new[i], t) <=> In(s[i], t))
  /\ \A i, j \in DOMAIN s : s[i] = s[j] => i = j
  /\ \A x \in segs : \E i \in DOMAIN s : s[i] = x
  /\ \A i \in DOMAIN rows \ ids : i \in DOMAIN new /\ i \notin DOMAIN s /\ new[i] = rows[i]
  /\ \A i \in DOMAIN new : \/ i \in DOMAIN s \/ new[i] = Gone
                           \/ i \in DOMAIN rows \ ids

(* Each segment becomes one row, which is it from today on, and the rows    *)
(* that are not rewritten stay (applySubscriptionTimeline).                 *)
LEMMA ApplyRows ==
  ASSUME NEW P, P \subseteq Nat, NEW rows \in Seq(Rows(P)),
         NEW now \in Nat, NEW today \in Nat, today <= now,
         NEW ids \in SUBSET Entitled(rows, now),
         NEW segs, IsFiniteSet(segs), segs \subseteq Places(P, now),
         today = now \/ \A i \in ids : rows[i].from >= now
  PROVE  \E s : Rewrites(s, rows, ids, segs, Apply(rows, ids, segs, now, today), today)
<1> DEFINE begun(i) == rows[i].from < now \/ rows[i].from <= today
           fits(i) == {x \in segs : x.sub = i /\ ~(begun(i) /\ x.from > now)}
           reused(i) == CHOOSE x \in fits(i) : \A y \in fits(i) : y = x \/ Before(x, y)
           from(i) == IF begun(i) /\ reused(i).from <= now
                      THEN rows[i].from ELSE reused(i).from
           rewritten(i) == IF fits(i) = {} THEN Gone
                           ELSE [plan |-> reused(i).plan, to |-> reused(i).to, from |-> from(i)]
           J == {j \in ids : fits(j) # {}}
           used == {reused(i) : i \in J}
           created == InOrder(segs \ used)
           A == [i \in DOMAIN rows |-> IF i \in ids THEN rewritten(i) ELSE rows[i]]
           C == [j \in DOMAIN created |->
                  [plan |-> created[j].plan, from |-> created[j].from, to |-> created[j].to]]
           m == Len(rows)
           n == Cardinality(segs \ used)
           new == Apply(rows, ids, segs, now, today)
<1>1. new = A \o C
  BY DEF Apply
<1>2. /\ DOMAIN rows = 1..m /\ m \in Nat /\ ids \subseteq 1..m
      /\ segs \subseteq Segments
  BY RowFields DEF Places
<1>3. ASSUME NEW i \in J
      PROVE  reused(i) \in segs /\ reused(i) \in Segments /\ reused(i).from >= now
             /\ reused(i).sub = i /\ (begun(i) => reused(i).from <= now)
  <2>1. fits(i) # {} /\ fits(i) \subseteq segs
    OBVIOUS
  <2>2. IsFiniteSet(fits(i)) /\ fits(i) \subseteq Segments
    <3> HIDE DEF fits
    <3>1. QED
      BY <1>2, <2>1, FS_Subset
  <2>3. \E x \in fits(i) : \A y \in fits(i) : y = x \/ Before(x, y)
    <3> HIDE DEF fits
    <3>1. QED
      BY <2>1, <2>2, FirstSegment
  <2>4. reused(i) \in fits(i)
    <3> HIDE DEF fits
    <3>1. QED
      BY <2>3
  <2> HIDE DEF reused, begun
  <2>5. reused(i) \in segs /\ reused(i).sub = i /\ ~(begun(i) /\ reused(i).from > now)
    BY <2>4
  <2>6. reused(i) \in Segments /\ reused(i).from >= now
    BY <1>2, <2>5 DEF Places
  <2>7. reused(i).from \in Nat
    BY <2>6, SegmentFields
  <2>8. QED
    BY <2>5, <2>6, <2>7
<1> HIDE DEF reused
<1>4. used \subseteq segs /\ IsFiniteSet(segs \ used) /\ segs \ used \subseteq Segments
  <2>1. used \subseteq segs
    BY <1>3
  <2> HIDE DEF used
  <2>2. QED
    BY <1>2, <2>1, FS_Subset
<1>5. /\ n \in Nat /\ DOMAIN created = 1..n /\ created \in Injection(1..n, segs \ used)
      /\ \A x \in segs \ used : \E j \in 1..n : created[j] = x
  <2> HIDE DEF used
  <2> QED BY <1>4, InOrderLists, InOrderAll, FS_CardinalityType
<1>6. /\ \A j \in 1..n : created[j] \in segs /\ created[j] \notin used
      /\ \A i, j \in 1..n : created[i] = created[j] => i = j
  <2> HIDE DEF used, created, n
  <2> QED BY <1>5 DEF Injection, IsInjective
<1> HIDE DEF created, n
<1>7. /\ \A i \in 1..m : A[i] = IF i \in ids THEN rewritten(i) ELSE rows[i]
      /\ DOMAIN A = 1..m
  BY <1>2
<1>8. ASSUME NEW i \in J
      PROVE  /\ i \in 1..m /\ A[i].plan = reused(i).plan
             /\ \A t \in Nat : today <= t => (In(A[i], t) <=> In(reused(i), t))
  <2>1. PICK r, f : r = reused(i) /\ f = from(i)
    OBVIOUS
  <2>2. /\ r \in Segments /\ (begun(i) => r.from <= now) /\ r.from >= now
        /\ f = IF begun(i) /\ r.from <= now THEN rows[i].from ELSE r.from
    BY <1>3, <2>1
  <2>3. r.from \in Nat /\ r.to \in Nat
    BY <2>2, SegmentFields
  <2>4. i \in ids /\ fits(i) # {}
    OBVIOUS
  <2>5. A[i] = [plan |-> r.plan, to |-> r.to, from |-> f] /\ i \in 1..m
    <3>1. A[i] = rewritten(i) /\ i \in 1..m
      BY <1>2, <1>7, <2>4
    <3>2. QED
      BY <2>1, <2>4, <3>1
  <2> HIDE DEF A, fits, from
  <2>6. rows[i].from \in Nat
    BY <1>2, <2>5, RowFields
  <2>7. begun(i) => today = now /\ rows[i].from <= today
    BY <2>4, <2>6
  <2> HIDE DEF begun
  <2>8. ASSUME NEW t \in Nat, today <= t PROVE In(A[i], t) <=> In(r, t)
    <3>1. A[i].from = f /\ A[i].to = r.to
      BY <2>5
    <3>2. CASE begun(i)
      <4>1. f = rows[i].from /\ r.from = now
        BY <2>2, <2>3, <3>2
      <4>2. QED
        BY <2>3, <2>6, <2>7, <2>8, <3>1, <3>2, <4>1 DEF In
    <3>3. CASE ~begun(i)
      <4>1. f = r.from
        BY <2>2, <3>3
      <4>2. QED
        BY <3>1, <4>1 DEF In
    <3>4. QED
      BY <3>2, <3>3
  <2>9. QED
    BY <2>1, <2>5, <2>8
<1>9. \A i \in ids : i \in J \/ A[i] = Gone
  BY <1>2, <1>7
<1>10. \A i \in 1..m : i \notin ids => A[i] = rows[i]
  <2> HIDE DEF A, rewritten
  <2> QED BY <1>7
<1>11. /\ DOMAIN C = 1..n
       /\ \A j \in 1..n : /\ C[j].plan = created[j].plan
                          /\ \A t : In(C[j], t) <=> In(created[j], t)
  BY <1>5 DEF In
<1>12. A = [i \in 1..m |-> A[i]] /\ C = [i \in 1..n |-> C[i]]
  BY <1>2, <1>11
<1> HIDE DEF A, C
<1>13. /\ DOMAIN new = 1..(m + n)
       /\ \A i \in 1..m : new[i] = A[i]
       /\ \A j \in 1..n : new[m + j] = C[j]
  <2> DEFINE T == {A[i] : i \in 1..m} \cup {C[j] : j \in 1..n}
  <2>1. A \in [1..m -> T] /\ C \in [1..n -> T]
    BY <1>12
  <2> HIDE DEF T
  <2>2. A \in Seq(T) /\ C \in Seq(T)
    BY <1>2, <1>5, <2>1, SeqDef
  <2>3. Len(A) = m /\ Len(C) = n
    BY <1>2, <1>5, <1>7, <1>11, <2>2, LenProperties
  <2>4. /\ A \o C \in Seq(T) /\ Len(A \o C) = Len(A) + Len(C)
        /\ \A i \in 1..(Len(A) + Len(C)) :
             (A \o C)[i] = IF i <= Len(A) THEN A[i] ELSE C[i - Len(A)]
    BY <2>2, ConcatProperties
  <2>5. /\ DOMAIN (A \o C) = 1..(m + n)
        /\ \A i \in 1..(m + n) : (A \o C)[i] = IF i <= m THEN A[i] ELSE C[i - m]
    BY <2>3, <2>4, LenProperties
  <2>6. \A i \in 1..m : (A \o C)[i] = A[i]
    BY <1>2, <1>5, <2>5
  <2>7. ASSUME NEW j \in 1..n PROVE (A \o C)[m + j] = C[j]
    <3>1. m + j \in 1..(m + n) /\ ~(m + j <= m) /\ (m + j) - m = j
      BY <1>2, <1>5
    <3>2. QED
      BY <2>5, <3>1
  <2>8. QED
    BY <1>1, <2>5, <2>6, <2>7
<1> HIDE DEF new
<1> DEFINE K == J \cup {m + j : j \in 1..n}
           s == [i \in K |-> IF i \in J THEN reused(i) ELSE created[i - m]]
<1>14. J \subseteq 1..m /\ \A j \in 1..n : m + j \notin 1..m /\ (m + j) - m = j /\ m + j \in 1..(m + n)
  BY <1>2, <1>5
<1>15. /\ \A i \in J : s[i] = reused(i)
       /\ \A j \in 1..n : s[m + j] = created[j]
       /\ DOMAIN s = K
  <2> HIDE DEF J
  <2> QED BY <1>14
<1>16. DOMAIN s \subseteq DOMAIN new
  <2>1. J \subseteq 1..(m + n)
    BY <1>2, <1>5, <1>14
  <2> HIDE DEF J, s
  <2>2. QED
    BY <1>13, <1>14, <1>15, <2>1
<1>17. \A i \in J : new[i] = A[i] /\ reused(i) \in used
  <2>1. \A i \in J : reused(i) \in used
    OBVIOUS
  <2> HIDE DEF J
  <2>2. QED
    BY <1>13, <1>14, <2>1
<1> HIDE DEF s
<1>18. ASSUME NEW i \in K
       PROVE  /\ s[i] \in segs /\ new[i].plan = s[i].plan
              /\ \A t \in Nat : today <= t => (In(new[i], t) <=> In(s[i], t))
  <2>1. CASE i \in J
    <3>1. s[i] = reused(i) /\ new[i] = A[i]
      BY <1>15, <1>17, <2>1
    <3>2. QED
      BY <1>3, <1>8, <2>1, <3>1
  <2>2. CASE i \notin J
    <3>1. PICK j \in 1..n : i = m + j
      BY <2>2
    <3>2. s[i] = created[j] /\ new[i] = C[j]
      BY <1>13, <1>15, <3>1
    <3>3. QED
      BY <1>6, <1>11, <3>2
  <2>3. QED
    BY <2>1, <2>2
<1>19. ASSUME NEW i \in K, NEW j \in K, s[i] = s[j] PROVE i = j
  <2>1. ASSUME NEW k \in K PROVE \/ k \in J /\ s[k] = reused(k)
                                 \/ \E l \in 1..n : k = m + l /\ s[k] = created[l]
    BY <1>15
  <2>2. \A k, l \in J : reused(k) = reused(l) => k = l
    BY <1>3
  <2> HIDE DEF J, K, used
  <2>3. QED
    BY <1>6, <1>17, <1>19, <2>1, <2>2
<1>20. ASSUME NEW x \in segs PROVE \E i \in K : s[i] = x
  <2>1. CASE x \in used
    BY <1>15, <2>1
  <2>2. CASE x \notin used
    <3>1. PICK j \in 1..n : created[j] = x
      BY <1>5, <2>2
    <3>2. QED
      BY <1>15, <3>1
  <2>3. QED
    BY <2>1, <2>2
<1>21. ASSUME NEW i \in DOMAIN rows \ ids
       PROVE  i \in DOMAIN new /\ i \notin K /\ new[i] = rows[i]
  <2>1. i \in 1..m /\ i \notin J
    BY <1>2
  <2>2. i \in DOMAIN new
    BY <1>2, <1>5, <1>13, <2>1
  <2>3. new[i] = rows[i]
    BY <1>10, <1>13, <2>1
  <2>4. i \notin K
    BY <1>14, <2>1
  <2>5. QED
    BY <2>2, <2>3, <2>4
<1>22. ASSUME NEW i \in DOMAIN new PROVE i \in K \/ new[i] = Gone \/ i \in DOMAIN rows \ ids
  <2>1. CASE i \in 1..m
    <3>1. CASE i \in ids
      BY <1>9, <1>13, <2>1, <3>1
    <3>2. CASE i \notin ids
      BY <1>2, <2>1, <3>2
    <3>3. QED
      BY <3>1, <3>2
  <2>2. CASE i \notin 1..m
    <3>1. i \in 1..(m + n)
      BY <1>13
    <3>2. i - m \in 1..n /\ i = m + (i - m)
      BY <1>2, <1>5, <2>2, <3>1
    <3>3. QED
      BY <3>2
  <2>3. QED
    BY <2>1, <2>2
<1> HIDE DEF K, J, used
<1>23. Rewrites(s, rows, ids, segs, new, today)
  BY <1>15, <1>16, <1>18, <1>19, <1>20, <1>21, <1>22 DEF Rewrites
<1>24. QED
  BY <1>23 DEF new

(* The search for the start of a redemption ends, at a time that is not in  *)
(* the past, at which no plan of its rank or a higher one holds and up to   *)
(* which one always does (redemptionSubscriptionGrantStart).                *)
THEOREM GrantStartIs ==
  ASSUME NEW P, P \subseteq Nat, NEW rows \in Seq(Rows(P)), NEW plan \in Nat, NEW now \in Nat
  PROVE  /\ GrantStart(rows, plan, now) \in Nat /\ GrantStart(rows, plan, now) >= now
         /\ Ready(rows, plan, GrantStart(rows, plan, now), now)
<1> DEFINE segs == Existing(rows, Entitled(rows, now), now)
           ahead(at) == Blockers(segs, plan, at)
           next(at) == Earliest(ahead(at)).to
           Done == {at \in Nat : ~Blocked(segs, plan, at)}
           out == [at \in Nat |-> at]
           step == [at \in Nat |-> IF Blocked(segs, plan, at) THEN next(at) ELSE at]
           F[at \in Nat] == IF Blocked(segs, plan, at)
                            THEN F[Earliest(Blockers(segs, plan, at)).to] ELSE at
<1>1. IsFiniteSet(segs) /\ segs \subseteq Segments
  BY ExistingKeeps DEF Places
<1>2. GrantStart(rows, plan, now) = F[now]
  BY DEF GrantStart
<1> HIDE DEF segs
<1>3. ASSUME NEW at \in Nat
      PROVE  /\ ahead(at) \subseteq segs /\ IsFiniteSet(ahead(at)) /\ Cardinality(ahead(at)) \in Nat
             /\ Blocked(segs, plan, at) =>
                  /\ next(at) \in Nat /\ next(at) > at
                  /\ ahead(next(at)) \subseteq ahead(at) /\ ahead(next(at)) # ahead(at)
                  /\ \A t \in Nat : at <= t /\ t < next(at) => Over(segs, t, plan)
             /\ Over(segs, at, plan) => Blocked(segs, plan, at)
  <2>1. ahead(at) \subseteq segs
    BY DEF Blockers
  <2>2. IsFiniteSet(ahead(at)) /\ Cardinality(ahead(at)) \in Nat
    <3> HIDE DEF ahead
    <3> QED BY <1>1, <2>1, FS_Subset, FS_CardinalityType
  <2>3. ASSUME Blocked(segs, plan, at)
        PROVE  /\ next(at) \in Nat /\ next(at) > at
               /\ ahead(next(at)) \subseteq ahead(at) /\ ahead(next(at)) # ahead(at)
               /\ \A t \in Nat : at <= t /\ t < next(at) => Over(segs, t, plan)
    <3>1. ahead(at) # {}
      BY <2>3 DEF Blocked
    <3>2. PICK first \in ahead(at) : first = Earliest(ahead(at))
      <4> HIDE DEF ahead
      <4> QED BY <1>1, <2>1, <3>1, EarliestIs
    <3>3. first \in segs /\ first \in Segments /\ first.to \in Nat /\ first.to > at
      BY <1>1, <2>1, SegmentFields DEF Blockers
    <3>4. next(at) = first.to
      BY <3>2
    <3>5. \A x \in segs : x.to \in Nat
      BY <1>1, SegmentFields
    <3>6. ahead(first.to) \subseteq ahead(at) /\ first \notin ahead(first.to)
      BY <3>3, <3>5 DEF Blockers
    <3>7. first.from <= at /\ first.plan >= plan /\ first.from \in Nat
      BY <2>3, <3>2, <3>3, SegmentFields DEF Blocked, Blockers
    <3>8. \A t \in Nat : at <= t /\ t < first.to => Over(segs, t, plan)
      BY <3>3, <3>7 DEF Over, In
    <3> HIDE DEF ahead
    <3>9. QED
      BY <3>2, <3>3, <3>4, <3>6, <3>8
  <2>4. ASSUME Over(segs, at, plan) PROVE Blocked(segs, plan, at)
    <3>1. PICK x \in segs : In(x, at) /\ x.plan >= plan
      BY <2>4 DEF Over
    <3>2. x \in ahead(at) /\ x.from <= at /\ x.from \in Nat
      BY <1>1, <3>1, SegmentFields DEF Blockers, In
    <3>3. Earliest(ahead(at)) \in segs /\ Earliest(ahead(at)).from <= x.from
      <4> HIDE DEF ahead
      <4> QED BY <1>1, <2>1, <3>2, EarliestIs
    <3>4. Earliest(ahead(at)).from \in Nat
      BY <1>1, <3>3, SegmentFields
    <3>5. Earliest(ahead(at)).from <= at
      <4> HIDE DEF ahead
      <4> QED BY <3>2, <3>3, <3>4
    <3>6. QED
      BY <3>2, <3>5 DEF Blocked
  <2>5. QED
    BY <2>1, <2>2, <2>3, <2>4
<1> HIDE DEF ahead
<1>4. step \in [Nat -> Nat] /\ Done \in SUBSET Nat
  <2> HIDE DEF next
  <2>1. \A at \in Nat : Blocked(segs, plan, at) => next(at) \in Nat
    BY <1>3
  <2>2. QED
    BY <2>1
<1>5. PICK f : IsLoop(f, Nat, Done, out, step)
  <2> HIDE DEF Done, out, step
  <2> QED BY <1>4, LoopExists
<1>6. f = [at \in Nat |-> IF Blocked(segs, plan, at)
                          THEN f[Earliest(Blockers(segs, plan, at)).to] ELSE at]
  <2>1. \A at \in Nat : f[at] = IF Blocked(segs, plan, at)
                                THEN f[Earliest(Blockers(segs, plan, at)).to] ELSE at
    <3> TAKE at \in Nat
    <3>1. f[at] = IF at \in Done THEN out[at] ELSE f[step[at]]
      <4> HIDE DEF Done, out, step
      <4> QED BY <1>5 DEF IsLoop
    <3>2. QED
      BY <3>1 DEF ahead
  <2>2. f = [at \in Nat |-> f[at]]
    <3> HIDE DEF Done, out, step
    <3> QED BY <1>5 DEF IsLoop
  <2>3. QED
    BY <2>1, <2>2
<1>7. F = [at \in Nat |-> IF Blocked(segs, plan, at)
                          THEN F[Earliest(Blockers(segs, plan, at)).to] ELSE at]
  BY <1>6
<1> HIDE DEF F
<1>8. \A at \in Nat : F[at] = IF Blocked(segs, plan, at) THEN F[next(at)] ELSE at
  BY <1>7 DEF ahead
<1> HIDE DEF next
<1> DEFINE Good(at) == /\ F[at] \in Nat /\ F[at] >= at /\ ~Blocked(segs, plan, F[at])
                       /\ \A t \in Nat : at <= t /\ t < F[at] => Over(segs, t, plan)
           Bad == {at \in Nat : ~Good(at)}
           Counts == {Cardinality(ahead(at)) : at \in Bad}
<1>9. ASSUME NEW at \in Bad
      PROVE  next(at) \in Bad /\ Cardinality(ahead(next(at))) < Cardinality(ahead(at))
  <2>1. at \in Nat /\ ~Good(at)
    OBVIOUS
  <2>2. Blocked(segs, plan, at) /\ F[at] = F[next(at)]
    <3>1. CASE ~Blocked(segs, plan, at)
      <4>1. F[at] = at
        BY <1>8, <2>1, <3>1
      <4>2. Good(at)
        BY <2>1, <3>1, <4>1
      <4>3. QED
        BY <2>1, <4>2
    <3>2. CASE Blocked(segs, plan, at)
      BY <1>8, <2>1, <3>2
    <3>3. QED
      BY <3>1, <3>2
  <2>3. /\ next(at) \in Nat /\ next(at) > at
        /\ ahead(next(at)) \subseteq ahead(at) /\ ahead(next(at)) # ahead(at)
        /\ IsFiniteSet(ahead(at)) /\ Cardinality(ahead(at)) \in Nat
        /\ Cardinality(ahead(next(at))) \in Nat
        /\ \A t \in Nat : at <= t /\ t < next(at) => Over(segs, t, plan)
    BY <1>3, <2>1, <2>2
  <2>4. next(at) \in Bad
    <3> SUFFICES ASSUME Good(next(at)) PROVE Good(at)
      BY <2>1, <2>3
    <3>1. /\ F[at] \in Nat /\ F[at] >= next(at) /\ ~Blocked(segs, plan, F[at])
          /\ \A t \in Nat : next(at) <= t /\ t < F[at] => Over(segs, t, plan)
      BY <2>2
    <3>2. F[at] >= at
      BY <2>1, <2>3, <3>1
    <3>3. ASSUME NEW t \in Nat, at <= t, t < F[at] PROVE Over(segs, t, plan)
      BY <2>3, <3>1, <3>3
    <3>4. QED
      BY <3>1, <3>2, <3>3
  <2>5. Cardinality(ahead(next(at))) < Cardinality(ahead(at))
    <3>1. /\ Cardinality(ahead(next(at))) <= Cardinality(ahead(at))
          /\ Cardinality(ahead(next(at))) # Cardinality(ahead(at))
      BY <2>3, FS_Subset
    <3>2. QED
      BY <2>3, <3>1
  <2>6. QED
    BY <2>4, <2>5
<1>10. Bad = {}
  <2> SUFFICES ASSUME Bad # {} PROVE FALSE
    OBVIOUS
  <2>0. \A at \in Nat : Cardinality(ahead(at)) \in Nat
    BY ONLY <1>3
  <2>7. Bad \subseteq Nat
    OBVIOUS
  <2> HIDE DEF Bad
  <2>1. Counts \subseteq Nat /\ Counts # {}
    BY <2>0, <2>7
  <2>2. PICK c \in Counts : \A d \in Counts : c <= d
    <3> HIDE DEF Counts
    <3> QED BY <2>1, LeastNat
  <2>3. PICK at \in Bad : c = Cardinality(ahead(at))
    BY <2>2
  <2>4. Cardinality(ahead(next(at))) \in Counts /\ Cardinality(ahead(next(at))) < c
    BY <1>9, <2>3
  <2> HIDE DEF Counts
  <2>5. c \in Nat /\ Cardinality(ahead(next(at))) \in Nat
    BY <2>1, <2>2, <2>4
  <2>6. QED
    BY <2>2, <2>4, <2>5
<1>11. Good(now)
  BY <1>10
<1>12. \A t \in Nat : now <= t => (Over(segs, t, plan) <=> RowsOver(rows, t, plan))
  BY ExistingHolds DEF segs
<1>13. Ready(rows, plan, F[now], now)
  <2>1. ~RowsOver(rows, F[now], plan)
    BY <1>3, <1>11, <1>12
  <2>2. \A t \in Nat : now <= t /\ t < F[now] => RowsOver(rows, t, plan)
    BY <1>11, <1>12
  <2>3. QED
    BY <2>1, <2>2 DEF Ready
<1>14. QED
  BY <1>2, <1>11, <1>13

(* The rows then have one plan at a time, and what the segments have. *)
LEMMA ApplyHolds ==
  ASSUME NEW P, P \subseteq Nat, NEW rows \in Seq(Rows(P)),
         NEW now \in Nat, NEW today \in Nat, today <= now,
         NEW ids, ids = Entitled(rows, now),
         NEW segs, IsFiniteSet(segs), segs \subseteq Places(P, now),
         today = now \/ \A i \in ids : rows[i].from >= now,
         Apart(segs), RowsApart(rows, today)
  PROVE  LET new == Apply(rows, ids, segs, now, today)
         IN /\ RowsApart(new, today)
            /\ \A t, p \in Nat : today <= t =>
                 (RowsOver(new, t, p) <=> IF t < now THEN RowsOver(rows, t, p)
                                                     ELSE Over(segs, t, p))
<1> DEFINE new == Apply(rows, ids, segs, now, today)
<1>0. PICK s : Rewrites(s, rows, ids, segs, new, today)
  <2>1. ids \in SUBSET Entitled(rows, now)
    OBVIOUS
  <2>2. /\ P \subseteq Nat /\ rows \in Seq(Rows(P)) /\ now \in Nat /\ today \in Nat /\ today <= now
        /\ IsFiniteSet(segs) /\ segs \subseteq Places(P, now)
        /\ (today = now \/ \A i \in ids : rows[i].from >= now)
    OBVIOUS
  <2>3. \E s : Rewrites(s, rows, ids, segs, Apply(rows, ids, segs, now, today), today)
    BY ONLY <2>1, <2>2, ApplyRows
  <2>4. QED
    BY <2>3
<1> HIDE DEF new
<1>1. /\ DOMAIN s \subseteq DOMAIN new
      /\ \A i \in DOMAIN s :
           /\ s[i] \in segs /\ new[i].plan = s[i].plan
           /\ \A t \in Nat : today <= t => (In(new[i], t) <=> In(s[i], t))
      /\ \A i, j \in DOMAIN s : s[i] = s[j] => i = j
      /\ \A x \in segs : \E i \in DOMAIN s : s[i] = x
      /\ \A i \in DOMAIN rows \ ids : /\ i \in DOMAIN new /\ i \notin DOMAIN s
                                      /\ new[i] = rows[i]
      /\ \A i \in DOMAIN new : \/ i \in DOMAIN s \/ new[i] = Gone
                               \/ i \in DOMAIN rows \ ids
  BY <1>0 DEF Rewrites
<1>2. ASSUME NEW x \in segs, NEW t \in Nat, In(x, t) PROVE ~(t < now)
  <2>1. x.from \in Nat /\ x.from >= now
    BY SegmentFields DEF Places
  <2>2. QED
    BY <1>2, <2>1 DEF In
<1>3. ASSUME NEW i \in DOMAIN rows, NEW t \in Nat, today <= t, In(rows[i], t)
      PROVE  t < now <=> i \notin ids
  <2>1. rows[i].from \in Nat /\ rows[i].to \in Nat /\ rows[i].from <= t /\ t < rows[i].to
    BY <1>3, RowFields DEF In
  <2>2. i \in ids <=> rows[i].to > now
    BY DEF Entitled
  <2>3. QED
    BY <1>3, <2>1, <2>2
<1>4. \A t \in Nat : ~In(Gone, t)
  BY DEF Gone, In
<1>5. ASSUME NEW i \in DOMAIN new, NEW t \in Nat, today <= t, In(new[i], t)
      PROVE  IF t < now THEN i \in DOMAIN rows /\ new[i] = rows[i]
                        ELSE i \in DOMAIN s /\ In(s[i], t)
  <2>1. CASE i \in DOMAIN s
    <3>1. s[i] \in segs /\ In(s[i], t)
      BY <1>1, <1>5, <2>1
    <3>2. QED
      BY <1>2, <2>1, <3>1
  <2>2. CASE i \in DOMAIN rows \ ids
    <3>1. new[i] = rows[i]
      BY <1>1, <2>2
    <3>2. QED
      BY <1>3, <1>5, <2>2, <3>1
  <2>3. QED
    BY <1>1, <1>4, <1>5, <2>1, <2>2
<1>6. RowsApart(new, today)
  <2> SUFFICES ASSUME NEW i \in DOMAIN new, NEW j \in DOMAIN new, NEW t \in Nat, today <= t,
                      In(new[i], t), In(new[j], t)
               PROVE  i = j
    BY DEF RowsApart
  <2>1. CASE t < now
    <3>1. i \in DOMAIN rows /\ j \in DOMAIN rows /\ In(rows[i], t) /\ In(rows[j], t)
      BY <1>5, <2>1
    <3>2. QED
      BY <3>1 DEF RowsApart
  <2>2. CASE ~(t < now)
    <3>1. i \in DOMAIN s /\ j \in DOMAIN s /\ In(s[i], t) /\ In(s[j], t)
      BY <1>5, <2>2
    <3>2. s[i] = s[j]
      BY <1>1, <3>1 DEF Apart
    <3>3. QED
      BY <1>1, <3>1, <3>2
  <2>3. QED
    BY <2>1, <2>2
<1>7. ASSUME NEW t \in Nat, NEW p \in Nat, today <= t, t < now
      PROVE  RowsOver(new, t, p) <=> RowsOver(rows, t, p)
  <2>1. ASSUME NEW i \in DOMAIN new, In(new[i], t), new[i].plan >= p PROVE RowsOver(rows, t, p)
    <3>1. i \in DOMAIN rows /\ new[i] = rows[i]
      BY <1>5, <1>7, <2>1
    <3>2. QED
      BY <2>1, <3>1 DEF RowsOver
  <2>2. ASSUME NEW i \in DOMAIN rows, In(rows[i], t), rows[i].plan >= p PROVE RowsOver(new, t, p)
    <3>1. i \notin ids
      BY <1>3, <1>7, <2>2
    <3>2. i \in DOMAIN new /\ new[i] = rows[i]
      BY <1>1, <3>1
    <3>3. QED
      BY <2>2, <3>2 DEF RowsOver
  <2>3. QED
    BY <2>1, <2>2 DEF RowsOver
<1>8. ASSUME NEW t \in Nat, NEW p \in Nat, today <= t, ~(t < now)
      PROVE  RowsOver(new, t, p) <=> Over(segs, t, p)
  <2>1. ASSUME NEW i \in DOMAIN new, In(new[i], t), new[i].plan >= p PROVE Over(segs, t, p)
    <3>1. i \in DOMAIN s /\ In(s[i], t)
      BY <1>5, <1>8, <2>1
    <3>2. s[i] \in segs /\ s[i].plan >= p
      BY <1>1, <2>1, <3>1
    <3>3. QED
      BY <3>1, <3>2 DEF Over
  <2>2. ASSUME NEW x \in segs, In(x, t), x.plan >= p PROVE RowsOver(new, t, p)
    <3>1. PICK i \in DOMAIN s : s[i] = x
      BY <1>1
    <3>2. i \in DOMAIN new /\ new[i].plan >= p /\ In(new[i], t)
      BY <1>1, <1>8, <2>2, <3>1
    <3>3. QED
      BY <3>2 DEF RowsOver
  <2>3. QED
    BY <2>1, <2>2 DEF RowsOver, Over
<1>9. QED
  BY <1>6, <1>7, <1>8 DEF new

(* What a grant is fitted into, and the time that rows cover. *)
GrantOf(plan, now, long) == [sub |-> 0, plan |-> plan, at |-> now, long |-> long]

WorkOf(rows, ids, plan, now, long) ==
  [segs |-> Existing(rows, ids, now), queue |-> <<GrantOf(plan, now, long)>>, moved |-> <<>>]

PlansOf(rows, ids, plan) == {plan} \cup {rows[i].plan : i \in ids}

RowMoments(rows, now) == {t \in Nat : now <= t /\ RowsOver(rows, t, 0)}

(* A grant that waits alone. *)
LEMMA WaitingAlone ==
  ASSUME NEW Q, NEW g \in Grants, g.plan \in Q, NEW w, w.queue = <<g>>, w.moved = <<>>
  PROVE  Waiting(w, Q) = g.long
<1>1. Due(<<>>, Q) = 0
  <2>1. DOMAIN <<>> = {}
    OBVIOUS
  <2>2. QED
    BY <2>1, TotalEmpty DEF Due
<1>2. Due(<<g>>, Q) = g.long /\ g.long \in Nat
  BY DueOne DEF Grants
<1>3. QED
  BY <1>1, <1>2 DEF Waiting

(* What is built for a grant is of the plans that the rows and the grant have. *)
LEMMA WorkIs ==
  ASSUME NEW P, P \subseteq Nat, NEW rows \in Seq(Rows(P)), NEW plan \in P,
         NEW now \in Nat, NEW long \in Nat, NEW ids \in SUBSET Entitled(rows, now)
  PROVE  LET w == WorkOf(rows, ids, plan, now, long)
             Q == PlansOf(rows, ids, plan)
             g == GrantOf(plan, now, long)
         IN /\ Q \subseteq P /\ IsFiniteSet(Q)
            /\ w \in Within(Q, now) /\ g \in Dues(Q, now)
            /\ w.segs = Existing(rows, ids, now) /\ w.queue = <<g>> /\ w.moved = <<>>
<1> DEFINE w == WorkOf(rows, ids, plan, now, long)
           Q == PlansOf(rows, ids, plan)
           g == GrantOf(plan, now, long)
           segs == Existing(rows, ids, now)
<1>1. ids \subseteq DOMAIN rows /\ IsFiniteSet(ids) /\ \A i \in ids : rows[i].plan \in P
  <2>1. ids \subseteq DOMAIN rows /\ IsFiniteSet(DOMAIN rows)
    BY RowFields DEF Entitled
  <2>2. ASSUME NEW i \in ids PROVE rows[i].plan \in P
    <3>1. i \in Entitled(rows, now)
      OBVIOUS
    <3>2. i \in DOMAIN rows /\ rows[i] # Gone
      BY <3>1, RemNat
    <3>3. QED
      BY <3>2, RowFields
  <2>3. QED
    BY <2>1, <2>2, FS_Subset
<1>2. IsFiniteSet(Q) /\ Q \subseteq P /\ Q \subseteq Nat /\ plan \in Q
  <2>1. PICK X : X = {rows[i].plan : i \in ids}
    OBVIOUS
  <2>2. IsFiniteSet(X)
    <3> DEFINE f == [i \in ids |-> rows[i].plan]
    <3>1. X = {f[i] : i \in ids}
      BY <2>1
    <3> HIDE DEF f
    <3>2. QED
      BY <1>1, <3>1, ImageFinite
  <2>3. IsFiniteSet({plan} \cup X)
    BY <2>2, FS_Singleton, FS_Union
  <2>4. X \subseteq P
    BY <1>1, <2>1
  <2>5. Q = {plan} \cup X
    BY <2>1 DEF PlansOf
  <2>6. QED
    BY <2>3, <2>4, <2>5
<1>3. \A i \in ids : rows[i].plan \in Q
  BY DEF PlansOf
<1> HIDE DEF Q
<1>4. IsFiniteSet(segs) /\ segs \subseteq Places(Q, now)
  <2>1. IsFiniteSet(segs) /\ segs \subseteq Places(P, now)
    BY ExistingKeeps
  <2>2. \A x \in segs : x.sub \in ids /\ x.plan = rows[x.sub].plan
    BY ExistingAre
  <2> HIDE DEF segs
  <2>3. QED
    BY <1>3, <2>1, <2>2 DEF Places
<1> HIDE DEF segs
<1>5. g \in Dues(Q, now) /\ g \in Grants /\ g.plan \in Q /\ g.long = long
  BY <1>2 DEF GrantOf, Dues, Grants
<1> HIDE DEF g
<1>6. w.segs = segs /\ w.queue = <<g>> /\ w.moved = <<>>
      /\ w = [segs |-> segs, queue |-> <<g>>, moved |-> <<>>]
  BY DEF WorkOf, segs, g
<1> HIDE DEF w
<1>7. w \in Within(Q, now)
  <2>1. <<g>> \in Seq(Dues(Q, now)) /\ <<>> \in Seq(Dues(Q, now))
    BY <1>5
  <2>2. QED
    BY <1>4, <1>6, <2>1 DEF Within
<1>8. QED
  BY <1>2, <1>5, <1>6, <1>7 DEF w, Q, g, segs

(* A grant gives no more than its time: the rows that it is fitted into are *)
(* typed, none is over, and together they have no more time than before and *)
(* what is granted (grantSubscriptionOnTimeline). *)
THEOREM GrantedKeeps ==
  ASSUME NEW P, P \subseteq Nat, NEW rows \in Seq(Rows(P)), NEW seen, NEW plan \in P,
         NEW now \in Nat, NEW long \in Nat, NEW today \in Nat, today <= now,
         \A i \in DOMAIN rows : rows[i] # Gone => rows[i].to > today
  PROVE  LET new == Granted(rows, seen, plan, now, long, today)
         IN /\ new \in Seq(Rows(P)) /\ DOMAIN rows \subseteq DOMAIN new
            /\ \A i \in DOMAIN new : new[i] # Gone => new[i].to > today
            /\ Total(DOMAIN new, RowTime(new, today))
                 <= Total(DOMAIN rows, RowTime(rows, today)) + long
<1> DEFINE ids == seen \cap Entitled(rows, now)
           work == WorkOf(rows, ids, plan, now, long)
           Q == PlansOf(rows, ids, plan)
           segs == Existing(rows, ids, now)
           new == Granted(rows, seen, plan, now, long, today)
<1>1. new = Apply(rows, ids, Build[work], now, today)
  BY DEF Granted, WorkOf, GrantOf
<1> HIDE DEF new
<1>2. ids \in SUBSET Entitled(rows, now) /\ plan \in Q
  BY DEF PlansOf
<1> HIDE DEF ids
<1>3. /\ Q \subseteq P /\ IsFiniteSet(Q) /\ Q \subseteq Nat
      /\ work \in Within(Q, now) /\ GrantOf(plan, now, long) \in Dues(Q, now)
  <2>1. /\ PlansOf(rows, ids, plan) \subseteq P /\ IsFiniteSet(PlansOf(rows, ids, plan))
        /\ WorkOf(rows, ids, plan, now, long) \in Within(PlansOf(rows, ids, plan), now)
        /\ GrantOf(plan, now, long) \in Dues(PlansOf(rows, ids, plan), now)
    BY <1>2, WorkIs
  <2>2. QED
    BY <2>1
<1>4. PICK B \in Nat : Q \subseteq 0..B
  <2> HIDE DEF Q
  <2>1. PICK B \in Nat : \A q \in Q : q <= B
    BY <1>3, FiniteBounded
  <2>2. Q \subseteq 0..B
    BY <1>3, <2>1
  <2>3. QED
    BY <2>2
<1>5. /\ work.segs = segs /\ work.queue = <<GrantOf(plan, now, long)>> /\ work.moved = <<>>
      /\ GrantOf(plan, now, long) \in Grants /\ GrantOf(plan, now, long).plan \in Q
      /\ GrantOf(plan, now, long).long = long
  BY <1>2, <1>3 DEF WorkOf, GrantOf, Grants
<1>6. IsFiniteSet(segs) /\ segs \subseteq Places(P, now)
      /\ Total(segs, Span) <= Total(ids, Rem(rows, now))
  BY <1>2, ExistingKeeps
<1> HIDE DEF segs, work, Q
<1>7. Left(work, Q) = Total(segs, Span) + long
  <2>1. Waiting(work, Q) = long
    BY <1>5, WaitingAlone
  <2>2. QED
    BY <1>5, <2>1 DEF Left
<1>8. /\ IsFiniteSet(Build[work]) /\ Build[work] \subseteq Places(P, now)
      /\ Total(Build[work], Span) <= Left(work, Q)
  <2>1. /\ IsFiniteSet(Build[work]) /\ Build[work] \subseteq Places(Q, now)
        /\ Total(Build[work], Span) <= Left(work, Q)
    BY <1>3, <1>4, BuildKeeps
  <2>2. Places(Q, now) \subseteq Places(P, now)
    BY <1>3 DEF Places
  <2>3. QED
    BY <2>1, <2>2
<1>9. /\ new \in Seq(Rows(P)) /\ DOMAIN rows \subseteq DOMAIN new
      /\ \A i \in DOMAIN new : new[i] # Gone => new[i].to > today
      /\ Total(DOMAIN new, RowTime(new, today)) + Total(ids, Rem(rows, now))
           <= Total(DOMAIN rows, RowTime(rows, today)) + Total(Build[work], Span)
  <2>1. PICK final : final = Build[work]
    OBVIOUS
  <2>2. IsFiniteSet(final) /\ final \subseteq Places(P, now)
    BY <1>8, <2>1
  <2>3. new = Apply(rows, ids, final, now, today)
    BY <1>1, <2>1
  <2>4. QED
    BY <1>2, <2>1, <2>2, <2>3, ApplyKeeps
<1>10. /\ Total(DOMAIN new, RowTime(new, today)) \in Nat
       /\ Total(DOMAIN rows, RowTime(rows, today)) \in Nat
  BY <1>9, RowTimeNat
<1>11. /\ Total(ids, Rem(rows, now)) \in Nat /\ Total(segs, Span) \in Nat
       /\ Total(Build[work], Span) \in Nat
  <2>1. \A i \in ids : Rem(rows, now)[i] \in Nat
    BY <1>2, RemNat
  <2>2. IsFiniteSet(ids)
    <3>1. ids \subseteq DOMAIN rows /\ IsFiniteSet(DOMAIN rows)
      BY <1>2, RowFields
    <3>2. QED
      BY <3>1, FS_Subset
  <2>3. \A x \in segs \cup Build[work] : Span[x] \in Nat
    BY <1>6, <1>8, SegmentFields DEF Places
  <2>4. QED
    BY <1>6, <1>8, <2>1, <2>2, <2>3, TotalNat
<1>12. Total(DOMAIN new, RowTime(new, today))
         <= Total(DOMAIN rows, RowTime(rows, today)) + long
  BY <1>6, <1>7, <1>8, <1>9, <1>10, <1>11
<1>13. QED
  BY <1>9, <1>12 DEF new

(* A grant begins where no row is cut, unless it begins now. *)
LEMMA NoRowSpans ==
  ASSUME NEW P, P \subseteq Nat, NEW rows \in Seq(Rows(P)), NEW plan \in P,
         NEW now \in Nat, NEW today \in Nat, today <= now,
         RowsApart(rows, today), now = today \/ Ready(rows, plan, now, today)
  PROVE  now = today \/ \A i \in Entitled(rows, now) : rows[i].from >= now
<1> SUFFICES ASSUME now # today, NEW i \in Entitled(rows, now), ~(rows[i].from >= now)
             PROVE  FALSE
  OBVIOUS
<1>1. i \in DOMAIN rows /\ rows[i].to > now /\ rows[i].from \in Nat /\ rows[i].to \in Nat
  BY RowFields DEF Entitled
<1>2. now - 1 \in Nat /\ today <= now - 1 /\ now - 1 < now
  OBVIOUS
<1>3. In(rows[i], now - 1) /\ In(rows[i], now)
  BY <1>1 DEF In
<1>4. PICK j \in DOMAIN rows : In(rows[j], now - 1) /\ rows[j].plan >= plan
  BY <1>2 DEF Ready, RowsOver
<1>5. i = j
  BY <1>1, <1>2, <1>3, <1>4 DEF RowsApart
<1>6. RowsOver(rows, now, plan)
  BY <1>1, <1>3, <1>4, <1>5 DEF RowsOver
<1>7. QED
  BY <1>6 DEF Ready

(* Two sets of moments with none in common. *)
LEMMA ApartCount ==
  ASSUME NEW S, NEW T, IsFiniteSet(S), IsFiniteSet(T), S \cap T = {}
  PROVE  IsFiniteSet(S \cup T) /\ Cardinality(S \cup T) = Cardinality(S) + Cardinality(T)
<1>1. IsFiniteSet(S \cup T)
      /\ Cardinality(S \cup T) = Cardinality(S) + Cardinality(T) - Cardinality(S \cap T)
  BY FS_Union
<1>2. Cardinality(S \cap T) = 0
  BY FS_EmptySet
<1>3. Cardinality(S) \in Nat /\ Cardinality(T) \in Nat
  BY FS_CardinalityType
<1>4. QED
  BY <1>1, <1>2, <1>3

(* A grant that no other change crosses is kept to the last unit: the rows  *)
(* have as much more time as is granted, the highest plan first and no gap  *)
(* before a lower one (grantSubscriptionOnTimeline). *)
THEOREM GrantedHolds ==
  ASSUME NEW P, P \subseteq Nat, NEW rows \in Seq(Rows(P)), NEW seen, NEW plan \in P,
         NEW now \in Nat, NEW long \in Nat, NEW today \in Nat, today <= now,
         RowsApart(rows, today), RowsStacked(rows, today),
         Entitled(rows, now) \subseteq seen,
         now = today \/ Ready(rows, plan, now, today)
  PROVE  LET new == Granted(rows, seen, plan, now, long, today)
         IN /\ RowsApart(new, today) /\ RowsStacked(new, today)
            /\ IsFiniteSet(RowMoments(new, today)) /\ IsFiniteSet(RowMoments(rows, today))
            /\ Cardinality(RowMoments(new, today))
                 >= Cardinality(RowMoments(rows, today)) + long
<1> DEFINE ids == Entitled(rows, now)
           w == WorkOf(rows, ids, plan, now, long)
           Q == PlansOf(rows, ids, plan)
           segs == Existing(rows, ids, now)
           final == Build[w]
           new == Granted(rows, seen, plan, now, long, today)
<1>1. new = Apply(rows, ids, final, now, today)
  <2>1. seen \cap Entitled(rows, now) = ids
    OBVIOUS
  <2> HIDE DEF ids
  <2>2. QED
    BY <2>1 DEF Granted, WorkOf, GrantOf
<1> HIDE DEF new
<1>2. now = today \/ \A i \in ids : rows[i].from >= now
  BY NoRowSpans
<1>3. /\ Q \subseteq P /\ Q \subseteq Nat /\ plan \in Q /\ IsFiniteSet(Q)
      /\ w \in Within(Q, now) /\ w.segs = segs
      /\ w.queue = <<GrantOf(plan, now, long)>> /\ w.moved = <<>>
      /\ GrantOf(plan, now, long) \in Dues(Q, now)
      /\ Left(w, Q) = Total(segs, Span) + long
  <2>0. P \subseteq Nat /\ rows \in Seq(Rows(P)) /\ plan \in P /\ now \in Nat /\ long \in Nat
    OBVIOUS
  <2>1. ids \in SUBSET Entitled(rows, now)
    OBVIOUS
  <2>2. plan \in Q
    BY DEF PlansOf
  <2> HIDE DEF ids
  <2>3. /\ PlansOf(rows, ids, plan) \subseteq P /\ IsFiniteSet(PlansOf(rows, ids, plan))
        /\ WorkOf(rows, ids, plan, now, long) \in Within(PlansOf(rows, ids, plan), now)
        /\ GrantOf(plan, now, long) \in Dues(PlansOf(rows, ids, plan), now)
    BY ONLY <2>0, <2>1, WorkIs
  <2>5. /\ w.segs = segs /\ w.queue = <<GrantOf(plan, now, long)>> /\ w.moved = <<>>
    BY DEF WorkOf
  <2>6. Left(w, Q) = Total(segs, Span) + long
    <3>1. /\ GrantOf(plan, now, long) \in Grants /\ GrantOf(plan, now, long).plan \in Q
          /\ GrantOf(plan, now, long).long = long
      BY <2>2 DEF GrantOf, Grants
    <3> HIDE DEF Q, w
    <3>2. Waiting(w, Q) = long
      BY <2>5, <3>1, WaitingAlone
    <3>3. QED
      BY <2>5, <3>2 DEF Left
  <2>4. QED
    BY <2>2, <2>3, <2>5, <2>6
<1>4. PICK B \in Nat : Q \subseteq 0..B
  <2> HIDE DEF Q
  <2>1. PICK B \in Nat : \A q \in Q : q <= B
    BY <1>3, FiniteBounded
  <2>2. Q \subseteq 0..B
    BY <1>3, <2>1
  <2>3. QED
    BY <2>2
<1>5. RowsApart(rows, now) /\ RowsStacked(rows, now)
  BY DEF RowsApart, RowsStacked
<1>6. /\ \A t, p \in Nat : now <= t => (Over(segs, t, p) <=> RowsOver(rows, t, p))
      /\ Apart(segs) /\ Stacked(segs, now)
  BY <1>5, ExistingHolds
<1>7. \A x \in Q : x = plan \/ \E i \in ids : x = rows[i].plan
  BY DEF PlansOf
<1>8. IsFiniteSet(segs) /\ segs \subseteq Places(Q, now) /\ segs \subseteq Segments
  <2> HIDE DEF segs, w, Q
  <2>1. QED
    BY <1>3 DEF Within, Places
<1>9. ids \subseteq DOMAIN rows /\ \A i \in ids : rows[i].to > now
  BY DEF Entitled
<1> HIDE DEF segs, ids, w, Q
<1>10. Fitted(w, Q, now)
  <2>1. GrantOf(plan, now, long) \in Fitting(segs, Q, now)
    <3>1. GrantOf(plan, now, long).at = now
      BY DEF GrantOf
    <3>2. QED
      BY <1>3, <3>1 DEF Fitting, Filled
  <2>2. <<GrantOf(plan, now, long)>> \in Seq(Fitting(segs, Q, now))
        /\ <<>> \in Seq(Fitting(segs, Q, now))
    BY <2>1
  <2>3. QED
    BY <1>3, <1>6, <2>2 DEF Fitted
<1>11. /\ IsFiniteSet(final) /\ final \subseteq Places(Q, now)
       /\ Apart(final) /\ Stacked(final, now)
       /\ Total(segs, Span) + long <= Total(final, Span)
  <2>1. IsFiniteSet(final) /\ final \subseteq Places(Q, now)
    BY <1>3, <1>4, BuildKeeps
  <2>2. Apart(final) /\ Stacked(final, now) /\ Left(w, Q) <= Total(final, Span)
    BY <1>3, <1>4, <1>10, BuildFits
  <2>3. QED
    BY <1>3, <2>1, <2>2
<1> HIDE DEF final
<1>12. final \subseteq Places(P, now) /\ final \subseteq Segments
  BY <1>3, <1>11 DEF Places
<1>13. /\ RowsApart(new, today)
       /\ \A t, p \in Nat : today <= t =>
            (RowsOver(new, t, p) <=> IF t < now THEN RowsOver(rows, t, p)
                                                ELSE Over(final, t, p))
  <2>1. ids = Entitled(rows, now)
    BY DEF ids
  <2>2. /\ RowsApart(Apply(rows, ids, final, now, today), today)
        /\ \A t, p \in Nat : today <= t =>
             (RowsOver(Apply(rows, ids, final, now, today), t, p)
                <=> IF t < now THEN RowsOver(rows, t, p) ELSE Over(final, t, p))
    BY <1>2, <1>11, <1>12, <2>1, ApplyHolds
  <2>3. QED
    BY <1>1, <2>2
<1>14. \A i \in DOMAIN rows : rows[i].plan \in Nat /\ rows[i].from \in Nat /\ rows[i].to \in Nat
  <2> TAKE i \in DOMAIN rows
  <2>1. rows[i].from \in Nat /\ rows[i].to \in Nat
    BY RowFields
  <2>2. rows[i].plan \in Nat
    <3>1. CASE rows[i] = Gone
      BY <3>1 DEF Gone
    <3>2. CASE rows[i] # Gone
      BY <3>2, RowFields
    <3>3. QED
      BY <3>1, <3>2
  <2>3. QED
    BY <2>1, <2>2
<1>15. RowsStacked(new, today)
  <2> SUFFICES ASSUME NEW s \in Nat, NEW t \in Nat, NEW p \in Nat, today <= s, s <= t,
                      RowsOver(new, t, p)
               PROVE  RowsOver(new, s, p)
    BY DEF RowsStacked
  <2>1. CASE t < now
    <3>1. RowsOver(rows, t, p)
      BY <1>13, <2>1
    <3>2. RowsOver(rows, s, p)
      BY <3>1 DEF RowsStacked
    <3>3. QED
      BY <1>13, <2>1, <3>2
  <2>2. CASE now <= s
    <3>1. Over(final, t, p)
      BY <1>13, <2>2
    <3>2. Over(final, s, p)
      BY <1>11, <2>2, <3>1 DEF Stacked
    <3>3. QED
      BY <1>13, <2>2, <3>2
  <2>3. CASE s < now /\ now <= t
    <3>1. PICK x \in final : In(x, t) /\ x.plan >= p
      BY <1>13, <2>3 DEF Over
    <3>0. x \in Places(Q, now) /\ now # today
      BY <1>11, <2>3
    <3>2. x.plan \in Q /\ x.plan \in Nat /\ now # today
      BY <1>3, <3>0 DEF Places
    <3>3. RowsOver(rows, s, x.plan)
      <4>1. CASE x.plan = plan
        BY <2>3, <3>2, <4>1 DEF Ready
      <4>2. ASSUME NEW i \in ids, x.plan = rows[i].plan PROVE RowsOver(rows, s, x.plan)
        <5>1. /\ i \in DOMAIN rows /\ rows[i].from >= now /\ rows[i].from \in Nat
              /\ rows[i].to \in Nat
          BY <1>2, <1>9, <1>14, <3>2
        <5>2. rows[i].from < rows[i].to
          <6>1. rows[i] \in Rows(P) /\ rows[i].to # 0
            BY <1>9, <5>1, RowFields
          <6>2. rows[i] # Gone
            BY <6>1 DEF Gone
          <6>3. QED
            BY <6>1, <6>2 DEF Rows, Nonempty
        <5>3. In(rows[i], rows[i].from)
          BY <5>1, <5>2 DEF In
        <5>4. RowsOver(rows, rows[i].from, x.plan)
          BY <1>14, <4>2, <5>1, <5>3 DEF RowsOver
        <5>5. s <= rows[i].from
          BY <2>3, <5>1
        <5>6. QED
          BY <3>2, <5>1, <5>4, <5>5 DEF RowsStacked
      <4>3. QED
        BY <1>7, <3>2, <4>1, <4>2
    <3>4. RowsOver(rows, s, p)
      BY <1>14, <3>1, <3>2, <3>3 DEF RowsOver
    <3>5. QED
      BY <1>13, <2>3, <3>4
  <2>4. QED
    BY <2>1, <2>2, <2>3
<1> DEFINE E == {t \in today..now : t < now /\ RowsOver(rows, t, 0)}
<1>16. RowMoments(new, today) = E \cup Moments(final)
  <2>1. ASSUME NEW t \in Nat, NEW x \in final, In(x, t) PROVE now <= t
    <3>1. x.from \in Nat /\ x.from >= now
      BY <1>11, <1>12, SegmentFields DEF Places
    <3>2. QED
      BY <2>1, <3>1 DEF In
  <2>2. \A t \in Nat : Over(final, t, 0) => now <= t
    BY <2>1 DEF Over
  <2>3. \A t : t \in RowMoments(new, today) <=>
                 t \in Nat /\ (t \in E \/ Over(final, t, 0))
    BY <1>13, <2>2 DEF RowMoments
  <2>4. QED
    BY <2>3 DEF Moments
<1>17. RowMoments(rows, today) = E \cup Moments(segs)
  <2>1. ASSUME NEW t \in Nat, NEW x \in segs, In(x, t) PROVE now <= t
    <3>1. x.from \in Nat /\ x.from >= now
      BY <1>8, SegmentFields DEF Places
    <3>2. QED
      BY <2>1, <3>1 DEF In
  <2>2. \A t \in Nat : Over(segs, t, 0) => now <= t
    BY <2>1 DEF Over
  <2>3. \A t : t \in RowMoments(rows, today) <=>
                 t \in Nat /\ (t \in E \/ Over(segs, t, 0))
    BY <1>6, <2>2 DEF RowMoments
  <2>4. QED
    BY <2>3 DEF Moments
<1>18. /\ IsFiniteSet(E) /\ E \cap Moments(final) = {} /\ E \cap Moments(segs) = {}
  <2>1. IsFiniteSet(E)
    <3>1. IsFiniteSet(today..now) /\ E \subseteq today..now
      BY FS_Interval
    <3> HIDE DEF E
    <3>2. QED
      BY <3>1, FS_Subset
  <2>2. \A t \in E : t < now
    OBVIOUS
  <2>3. ASSUME NEW x \in segs \cup final PROVE x.from \in Nat /\ x.from >= now
    BY <1>8, <1>11, <1>12, SegmentFields DEF Places
  <2> HIDE DEF E
  <2>4. \A t \in Nat, x \in segs \cup final : In(x, t) => ~(t < now)
    BY <2>3 DEF In
  <2>5. QED
    BY <2>1, <2>2, <2>4 DEF Moments, Over
<1> HIDE DEF E
<1>19. /\ IsFiniteSet(Moments(segs)) /\ Cardinality(Moments(segs)) \in Nat
       /\ Cardinality(Moments(segs)) = Total(segs, Span)
  BY <1>6, <1>8, MomentsTotal
<1>20. /\ IsFiniteSet(Moments(final)) /\ Cardinality(Moments(final)) \in Nat
       /\ Cardinality(Moments(final)) = Total(final, Span)
  BY <1>11, <1>12, MomentsTotal
<1>21. /\ IsFiniteSet(E \cup Moments(final))
       /\ Cardinality(E \cup Moments(final)) = Cardinality(E) + Cardinality(Moments(final))
  BY <1>18, <1>20, ApartCount
<1>22. /\ IsFiniteSet(E \cup Moments(segs))
       /\ Cardinality(E \cup Moments(segs)) = Cardinality(E) + Cardinality(Moments(segs))
  BY <1>18, <1>19, ApartCount
<1>23. Cardinality(RowMoments(new, today)) >= Cardinality(RowMoments(rows, today)) + long
  <2>1. Cardinality(E) \in Nat
    BY <1>18, FS_CardinalityType
  <2>2. QED
    BY <1>11, <1>16, <1>17, <1>19, <1>20, <1>21, <1>22, <2>1
<1>24. QED
  BY <1>13, <1>15, <1>16, <1>17, <1>21, <1>22, <1>23 DEF new
=============================================================================
