--------------------------- MODULE TotalsTheorems ---------------------------
(***************************************************************************)
(* What the totals of Totals obey: a total is the cardinality of a set of  *)
(* cells.  And induction and loops, as the proofs about the timeline of    *)
(* subscriptions need them.                                                *)
(***************************************************************************)
EXTENDS Totals, FiniteSetTheorems, FunctionTheorems, WellFoundedInduction,
        TLAPS

(* Induction.  The theorems of the library about it take an operator; what *)
(* follows takes the set of what is good.                                  *)

(* A set of natural numbers has a least one. *)
LEMMA LeastNat ==
  ASSUME NEW T, T \subseteq Nat, T # {}
  PROVE  \E x \in T : \A y \in T : x <= y
<1>1. IsWellFoundedOn(OpToRel(<, Nat), Nat)
  BY NatLessThanWellFounded
<1>2. PICK x \in T : \A y \in T : ~(<<y, x>> \in OpToRel(<, Nat))
  BY <1>1, WFMin
<1>3. \A y \in T : ~(y < x)
  <2> TAKE y \in T
  <2> SUFFICES ASSUME y < x PROVE <<y, x>> \in OpToRel(<, Nat)
    BY <1>2
  <2> QED
    BY Zenon DEF OpToRel
<1>4. QED
  BY <1>3

(* What is good for zero and passes on from each number to the next is good *)
(* for all.                                                                 *)
LEMMA NatByOne ==
  ASSUME NEW Good, 0 \in Good, \A n \in Nat : n \in Good => n + 1 \in Good
  PROVE  Nat \subseteq Good
<1> SUFFICES ASSUME Nat \ Good # {} PROVE FALSE
  OBVIOUS
<1>1. PICK n \in Nat \ Good : \A m \in Nat \ Good : n <= m
  BY LeastNat
<1>2. n # 0 /\ n - 1 \in Nat /\ n - 1 \notin Nat \ Good
  BY <1>1
<1>3. (n - 1) + 1 \in Good
  BY <1>2
<1>4. QED
  BY <1>1, <1>3

(* The smallest of what a finite set S has of subsets that are not good.   *)
LEMMA SubsetsByOne ==
  ASSUME NEW S, IsFiniteSet(S), NEW Good, {} \in Good,
         \A T \in SUBSET S : \A x \in S \ T : T \in Good => T \cup {x} \in Good
  PROVE  S \in Good
<1> DEFINE Bad == (SUBSET S) \ Good
           Sizes == {Cardinality(T) : T \in Bad}
<1> SUFFICES ASSUME S \notin Good PROVE FALSE
  OBVIOUS
<1>1. \A T \in SUBSET S : IsFiniteSet(T) /\ Cardinality(T) \in Nat
  BY FS_Subset, FS_CardinalityType
<1>2. Sizes \subseteq Nat /\ Sizes # {}
  BY <1>1
<1>3. PICK n \in Sizes : \A m \in Sizes : n <= m
  BY <1>2, LeastNat
<1>4. PICK T \in Bad : Cardinality(T) = n
  BY <1>3
<1>5. PICK x \in T : TRUE
  BY <1>4
<1>6. Cardinality(T \ {x}) = Cardinality(T) - 1
  BY <1>1, <1>4, <1>5, FS_RemoveElement
<1>7. T \ {x} \notin Bad
  <2>1. ASSUME T \ {x} \in Bad PROVE n <= n - 1
    BY <1>3, <1>4, <1>6, <2>1
  <2>2. n \in Nat
    BY <1>2, <1>3
  <2>3. QED
    BY <2>1, <2>2
<1>8. (T \ {x}) \cup {x} \in Good
  BY <1>4, <1>5, <1>7
<1>9. (T \ {x}) \cup {x} = T
  BY <1>5
<1>10. QED
  BY <1>4, <1>8, <1>9

IsLoop(f, D, Done, out, step) ==
  /\ f = [w \in D |-> f[w]]
  /\ \A w \in D : f[w] = IF w \in Done THEN out[w] ELSE f[step[w]]

(* A loop has a value in every state of D, whether it ends there or not.   *)
LEMMA LoopExists ==
  ASSUME NEW D, NEW Done \in SUBSET D, NEW out, NEW step \in [D -> D]
  PROVE  \E f : IsLoop(f, D, Done, out, step)
<1> DEFINE Closed(X) == \A x \in X : x \notin Done => step[x] \in X
           Reach(w) == {y \in D : \A X \in SUBSET D : w \in X /\ Closed(X) => y \in X}
           g == [w \in D |-> out[CHOOSE d : d \in Reach(w) \cap Done]]
<1>1. \A w \in D : w \in Reach(w)
  OBVIOUS
<1>2. ASSUME NEW w \in Done PROVE Reach(w) \cap Done = {w}
  <2>1. {w} \in SUBSET D /\ Closed({w})
    OBVIOUS
  <2>2. Reach(w) \subseteq {w}
    BY <2>1
  <2>3. QED
    BY <1>1, <2>2
<1>3. ASSUME NEW w \in D, w \notin Done PROVE Reach(w) \cap Done = Reach(step[w]) \cap Done
  <2>1. step[w] \in D
    OBVIOUS
  <2>2. Reach(step[w]) \subseteq Reach(w)
    BY <1>3, <2>1
  <2> DEFINE X == Reach(step[w]) \cup {w}
  <2>3. X \in SUBSET D /\ w \in X
    BY <2>1
  <2>4. Closed(X)
    <3>1. ASSUME NEW x \in Reach(step[w]), x \notin Done PROVE step[x] \in Reach(step[w])
      BY <3>1
    <3>2. step[w] \in Reach(step[w])
      BY <1>1, <2>1
    <3> HIDE DEF Reach
    <3>3. QED
      BY <3>1, <3>2
  <2>5. Reach(w) \subseteq X
    <3> HIDE DEF X, Closed
    <3> QED
      BY <2>3, <2>4
  <2>6. QED
    BY <1>3, <2>2, <2>5
<1> HIDE DEF Reach
<1>4. ASSUME NEW w \in D
      PROVE  g[w] = IF w \in Done THEN out[w] ELSE g[step[w]]
  <2>1. CASE w \in Done
    <3>1. (CHOOSE d : d \in Reach(w) \cap Done) = w
      BY <1>2, <2>1
    <3>2. g[w] = out[CHOOSE d : d \in Reach(w) \cap Done]
      OBVIOUS
    <3> HIDE DEF g
    <3>3. QED
      BY <2>1, <3>1, <3>2
  <2>2. CASE w \notin Done
    <3>1. /\ g[w] = out[CHOOSE d : d \in Reach(w) \cap Done]
          /\ g[step[w]] = out[CHOOSE d : d \in Reach(step[w]) \cap Done]
      OBVIOUS
    <3> HIDE DEF g
    <3>2. g[w] = g[step[w]]
      BY <1>3, <2>2, <3>1
    <3>3. QED
      BY <2>2, <3>2
  <2>3. QED
    BY <2>1, <2>2
<1>5. g = [w \in D |-> g[w]]
  OBVIOUS
<1> HIDE DEF g
<1>6. IsLoop(g, D, Done, out, step)
  BY <1>4, <1>5 DEF IsLoop
<1>7. QED
  BY <1>6

(* Finitely many numbers have a bound. *)
LEMMA FiniteBounded ==
  ASSUME NEW S, IsFiniteSet(S), S \subseteq Nat
  PROVE  \E n \in Nat : \A s \in S : s <= n
<1> DEFINE Good == {T \in SUBSET S : \E n \in Nat : \A s \in T : s <= n}
<1>1. {} \in Good
  <2>1. 0 \in Nat /\ \A s \in {} : s <= 0
    OBVIOUS
  <2>2. QED
    BY <2>1
<1>2. ASSUME NEW T \in SUBSET S, NEW x \in S \ T, T \in Good PROVE T \cup {x} \in Good
  <2>1. PICK n \in Nat : \A s \in T : s <= n
    BY <1>2
  <2>2. x \in Nat /\ n + x \in Nat /\ \A s \in T \cup {x} : s <= n + x
    BY <2>1
  <2>3. QED
    BY <2>2
<1> HIDE DEF Good
<1>3. S \in Good
  BY <1>1, <1>2, SubsetsByOne
<1>4. QED
  BY <1>3 DEF Good

(* Finitely many numbers have a greatest one. *)
LEMMA GreatestNat ==
  ASSUME NEW S, IsFiniteSet(S), S \subseteq Nat, S # {}
  PROVE  \E m \in S : \A s \in S : m >= s
<1>1. PICK n \in Nat : \A s \in S : s <= n
  BY FiniteBounded
<1> DEFINE Up == {n - s : s \in S}
<1>2. Up \subseteq Nat /\ Up # {}
  <2>1. \A s \in S : s \in Nat
    OBVIOUS
  <2>2. \A s \in S : n - s \in Nat
    BY <1>1, <2>1
  <2>3. QED
    BY <2>2
<1>3. PICK l \in Up : \A u \in Up : l <= u
  <2> HIDE DEF Up
  <2> QED BY <1>2, LeastNat
<1>4. PICK m \in S : l = n - m
  BY <1>3
<1>5. ASSUME NEW s \in S PROVE m >= s
  <2>1. n - s \in Up /\ s \in Nat /\ m \in Nat
    OBVIOUS
  <2> HIDE DEF Up
  <2>2. n - m <= n - s
    BY <1>3, <1>4, <2>1
  <2>3. QED
    BY <2>1, <2>2
<1>6. QED
  BY <1>5

(* The image of a finite set is finite. *)
LEMMA ImageFinite ==
  ASSUME NEW S, IsFiniteSet(S), NEW f
  PROVE  IsFiniteSet({f[x] : x \in S})
<1> DEFINE T == {f[x] : x \in S}
           g == [x \in S |-> f[x]]
<1>1. g \in Surjection(S, T)
  BY DEF Surjection
<1> HIDE DEF T, g
<1>2. IsFiniteSet(T)
  BY <1>1, FS_Surjection
<1>3. QED
  BY <1>2 DEF T

(* Of vectors of natural numbers there is one that no other undercuts at   *)
(* one place without exceeding it at a higher one.                         *)
LEMMA LeastVector ==
  ASSUME NEW B \in Nat, NEW V, V \subseteq [0..B -> Nat], V # {}
  PROVE  \E a \in V : \A v \in V, p \in 0..B :
           ~(v[p] < a[p] /\ \A q \in 0..B : q > p => v[q] <= a[q])
<1> DEFINE Under(v, a, p) == v[p] < a[p] /\ \A q \in 0..B : q > p => v[q] <= a[q]
           Least(k) == \E a \in V : \A v \in V, p \in 0..B : p > B - k => ~Under(v, a, p)
           Good == {k \in Nat : k <= B + 1 => Least(k)}
<1>1. 0 \in Good
  <2>1. \A p \in 0..B : ~(p > B - 0)
    OBVIOUS
  <2>2. Least(0)
    BY <2>1
  <2>3. QED
    BY <2>2
<1>2. ASSUME NEW k \in Nat, k \in Good PROVE k + 1 \in Good
  <2> SUFFICES ASSUME k + 1 <= B + 1 PROVE Least(k + 1)
    OBVIOUS
  <2>1. PICK a \in V : \A v \in V, p \in 0..B : p > B - k => ~Under(v, a, p)
    BY <1>2
  <2> DEFINE m == B - k
             W == {v \in V : \A q \in 0..B : q > m => v[q] <= a[q]}
             Low == {v[m] : v \in W}
  <2>2. m \in 0..B /\ a \in W
    OBVIOUS
  <2>3. Low \subseteq Nat /\ Low # {}
    BY <2>2
  <2>4. PICK b \in W : \A v \in W : b[m] <= v[m]
    <3> HIDE DEF Low
    <3>1. PICK n \in Low : \A l \in Low : n <= l
      BY <2>3, LeastNat
    <3> USE DEF Low
    <3>2. PICK b \in W : b[m] = n
      BY <3>1
    <3>3. \A v \in W : v[m] \in Low
      OBVIOUS
    <3> HIDE DEF Low, W
    <3>4. QED
      BY <3>1, <3>2, <3>3
  <2>5. \A q \in 0..B : q > m => b[q] = a[q]
    <3>1. b \in V /\ \A q \in 0..B : q > m => b[q] <= a[q]
      BY <2>4
    <3>2. \A q \in 0..B : q > m => ~(b[q] < a[q])
      BY <2>1, <3>1
    <3>3. \A q \in 0..B : b[q] \in Nat /\ a[q] \in Nat
      BY <3>1
    <3>4. QED
      BY <3>1, <3>2, <3>3
  <2>6. ASSUME NEW v \in V, NEW p \in 0..B, p > B - (k + 1), Under(v, b, p) PROVE FALSE
    <3>1. CASE p > m
      BY <2>1, <2>5, <2>6, <3>1
    <3>2. CASE p = m
      <4>1. v \in W
        BY <2>5, <2>6, <3>2
      <4>2. v[m] \in Nat /\ b[m] \in Nat
        BY <2>2, <2>4
      <4>3. b[m] <= v[m] /\ v[m] < b[m]
        <5> HIDE DEF m, W
        <5>1. b[m] <= v[m]
          BY <2>4, <4>1
        <5>2. v[m] < b[m]
          BY <2>6, <3>2
        <5>3. QED
          BY <5>1, <5>2
      <4> HIDE DEF m
      <4>4. QED
        BY <4>2, <4>3
    <3>3. QED
      BY <2>6, <3>1, <3>2
  <2>7. QED
    BY <2>6
<1> HIDE DEF Good
<1>3. B + 1 \in Good
  BY <1>1, <1>2, NatByOne
<1>4. Least(B + 1)
  BY <1>3 DEF Good
<1>5. \A p \in 0..B : p > B - (B + 1)
  OBVIOUS
<1>6. QED
  BY <1>4, <1>5

-----------------------------------------------------------------------------
(* The cells of one row. *)
LEMMA ColumnCells ==
  ASSUME NEW x, NEW n \in Nat
  PROVE  /\ IsFiniteSet({x} \X (1..n))
         /\ Cardinality({x} \X (1..n)) = n
<1>1. IsFiniteSet({x}) /\ Cardinality({x}) = 1
  BY FS_Singleton
<1>2. IsFiniteSet(1..n)
  BY FS_Interval
<1>3. Cardinality(1..n) = n
  BY FS_Interval
<1>4. /\ IsFiniteSet({x} \X (1..n))
      /\ Cardinality({x} \X (1..n)) = Cardinality({x}) * Cardinality(1..n)
  BY <1>1, <1>2, FS_Product
<1> QED BY <1>1, <1>3, <1>4

(* A query that sums over finitely many rows (sumActiveBalanceReservations) *)
(* looks at finitely many cells.                                            *)
LEMMA CellsFinite ==
  ASSUME NEW S, IsFiniteSet(S), NEW f, \A x \in S : f[x] \in Nat
  PROVE  IsFiniteSet(Cells(S, f))
<1> DEFINE Column(x) == {x} \X (1..f[x])
           Columns   == { Column(x) : x \in S }
           pick      == [x \in S |-> Column(x)]
<1>1. pick \in Surjection(S, Columns)
  BY DEF Surjection
<1>2. IsFiniteSet(Columns)
  <2> HIDE DEF pick, Columns
  <2> QED BY <1>1, FS_Surjection
<1>3. ASSUME NEW C \in Columns PROVE IsFiniteSet(C)
  <2>1. PICK x \in S : C = {x} \X (1..f[x])
    OBVIOUS
  <2> QED BY <2>1, ColumnCells
<1>4. IsFiniteSet(UNION Columns)
  <2> HIDE DEF Columns
  <2> QED BY <1>2, <1>3, FS_UNION
<1> QED BY <1>4 DEF Cells

(* COALESCE(SUM(...), 0) is a natural number. *)
LEMMA TotalNat ==
  ASSUME NEW S, IsFiniteSet(S), NEW f, \A x \in S : f[x] \in Nat
  PROVE  Total(S, f) \in Nat
BY CellsFinite, FS_CardinalityType DEF Total

(* The sum over no rows is zero. *)
LEMMA TotalEmpty ==
  ASSUME NEW f
  PROVE  Total({}, f) = 0
<1>1. Cells({}, f) = {}
  BY DEF Cells
<1> QED BY <1>1, FS_EmptySet DEF Total

(* Columns of rows that are not selected do not matter. *)
LEMMA TotalSame ==
  ASSUME NEW S, NEW f, NEW g, \A x \in S : f[x] = g[x]
  PROVE  Total(S, f) = Total(S, g)
<1>1. ASSUME NEW x \in S PROVE {x} \X (1..f[x]) = {x} \X (1..g[x])
  OBVIOUS
<1>2. Cells(S, f) = Cells(S, g)
  BY <1>1 DEF Cells
<1> QED BY <1>2 DEF Total

(* Selecting fewer rows does not raise the sum. *)
LEMMA TotalSubset ==
  ASSUME NEW T, IsFiniteSet(T), NEW f, \A x \in T : f[x] \in Nat,
         NEW S \in SUBSET T
  PROVE  Total(S, f) <= Total(T, f)
<1>1. Cells(S, f) \subseteq Cells(T, f)
  BY DEF Cells
<1> QED BY <1>1, CellsFinite, FS_Subset DEF Total

(* A column that is nowhere larger has no larger sum. *)
LEMMA TotalGrows ==
  ASSUME NEW S, IsFiniteSet(S), NEW f, NEW g,
         \A x \in S : f[x] \in Nat /\ g[x] \in Nat /\ f[x] <= g[x]
  PROVE  Total(S, f) <= Total(S, g)
<1>1. Cells(S, f) \subseteq Cells(S, g)
  <2>1. ASSUME NEW x \in S PROVE {x} \X (1..f[x]) \subseteq {x} \X (1..g[x])
    <3>1. 1..f[x] \subseteq 1..g[x]
      OBVIOUS
    <3> QED BY <3>1
  <2> QED BY <2>1 DEF Cells
<1>2. IsFiniteSet(Cells(S, g))
  BY CellsFinite
<1> QED BY <1>1, <1>2, FS_Subset DEF Total

(* One more row adds its column. *)
LEMMA TotalAdd ==
  ASSUME NEW S, IsFiniteSet(S), NEW f, NEW x, x \notin S,
         \A y \in S \cup {x} : f[y] \in Nat
  PROVE  Total(S \cup {x}, f) = Total(S, f) + f[x]
<1> DEFINE column == {x} \X (1..f[x])
<1>1. f[x] \in Nat /\ \A y \in S : f[y] \in Nat
  OBVIOUS
<1>2. IsFiniteSet(Cells(S, f))
  BY <1>1, CellsFinite
<1>3. IsFiniteSet(column) /\ Cardinality(column) = f[x]
  BY <1>1, ColumnCells
<1>4. Cells(S \cup {x}, f) = Cells(S, f) \cup column
  BY DEF Cells
<1>5. Cells(S, f) \cap column = {}
  BY DEF Cells
<1>6. Cardinality(Cells(S, f) \cap column) = 0
  BY <1>5, FS_EmptySet
<1>7. Cardinality(Cells(S, f)) \in Nat
  BY <1>2, FS_CardinalityType
<1> HIDE DEF column
<1>8. Cardinality(Cells(S, f) \cup column) =
        Cardinality(Cells(S, f)) + Cardinality(column) - Cardinality(Cells(S, f) \cap column)
  BY <1>2, <1>3, FS_Union
<1>9. Cardinality(Cells(S, f) \cup column) = Cardinality(Cells(S, f)) + f[x]
  BY <1>1, <1>3, <1>6, <1>7, <1>8
<1> QED BY <1>4, <1>9 DEF Total

(* One row less takes its column away. *)
LEMMA TotalRemove ==
  ASSUME NEW S, IsFiniteSet(S), NEW f, NEW x \in S, \A y \in S : f[y] \in Nat
  PROVE  Total(S, f) = Total(S \ {x}, f) + f[x]
<1>1. (S \ {x}) \cup {x} = S
  OBVIOUS
<1>2. IsFiniteSet(S \ {x})
  BY FS_RemoveElement
<1>3. Total((S \ {x}) \cup {x}, f) = Total(S \ {x}, f) + f[x]
  BY <1>2, TotalAdd
<1> QED BY <1>1, <1>3

(* What a map without collisions carries into another total is in it.      *)
LEMMA TotalInto ==
  ASSUME NEW S, NEW T, IsFiniteSet(T), NEW f, NEW g, NEW h \in Injection(S, T),
         \A x \in S : f[x] \in Nat, \A y \in T : g[y] \in Nat,
         \A x \in S : f[x] <= g[h[x]]
  PROVE  Total(S, f) <= Total(T, g)
<1> DEFINE move == [c \in Cells(S, f) |-> <<h[c[1]], c[2]>>]
<1>1. h \in [S -> T] /\ \A x, y \in S : h[x] = h[y] => x = y
  BY DEF Injection, IsInjective
<1>2. ASSUME NEW c \in Cells(S, f)
      PROVE  c[1] \in S /\ c[2] \in 1..f[c[1]] /\ c = <<c[1], c[2]>>
  BY DEF Cells
<1>3. ASSUME NEW c \in Cells(S, f) PROVE move[c] \in Cells(T, g)
  <2>1. h[c[1]] \in T /\ c[2] \in 1..g[h[c[1]]]
    BY <1>1, <1>2
  <2>2. <<h[c[1]], c[2]>> \in {h[c[1]]} \X (1..g[h[c[1]]])
    BY <2>1
  <2>3. QED
    BY <2>1, <2>2 DEF Cells
<1>4. ASSUME NEW c \in Cells(S, f), NEW d \in Cells(S, f), move[c] = move[d] PROVE c = d
  <2>1. h[c[1]] = h[d[1]] /\ c[2] = d[2]
    BY <1>4
  <2>2. QED
    BY <1>1, <1>2, <2>1
<1>5. move \in Injection(Cells(S, f), Cells(T, g))
  <2> HIDE DEF move
  <2>1. move \in [Cells(S, f) -> Cells(T, g)]
    <3>1. move = [c \in Cells(S, f) |-> move[c]]
      BY DEF move
    <3>2. QED
      BY <1>3, <3>1
  <2>2. QED
    BY <1>4, <2>1 DEF Injection, IsInjective
<1>6. IsFiniteSet(Cells(T, g))
  BY CellsFinite
<1> HIDE DEF move
<1>7. QED
  BY <1>5, <1>6, FS_Injection DEF Total

(* The sum over the rows of two queries is at most that of each. *)
LEMMA TotalCup ==
  ASSUME NEW S, IsFiniteSet(S), NEW T, IsFiniteSet(T), NEW f, \A x \in S \cup T : f[x] \in Nat
  PROVE  Total(S \cup T, f) <= Total(S, f) + Total(T, f)
<1>1. Cells(S \cup T, f) = Cells(S, f) \cup Cells(T, f)
  BY DEF Cells
<1>2. IsFiniteSet(Cells(S, f)) /\ IsFiniteSet(Cells(T, f))
  BY CellsFinite
<1>3. /\ Cardinality(Cells(S, f) \cup Cells(T, f)) = Cardinality(Cells(S, f))
           + Cardinality(Cells(T, f)) - Cardinality(Cells(S, f) \cap Cells(T, f))
      /\ Cardinality(Cells(S, f)) \in Nat /\ Cardinality(Cells(T, f)) \in Nat
  BY <1>2, FS_Union, FS_CardinalityType
<1>4. Cardinality(Cells(S, f) \cap Cells(T, f)) \in Nat
  BY <1>2, FS_Subset, FS_CardinalityType
<1>5. QED
  <2> DEFINE a == Cardinality(Cells(S, f))
             b == Cardinality(Cells(T, f))
             c == Cardinality(Cells(S, f) \cup Cells(T, f))
             d == Cardinality(Cells(S, f) \cap Cells(T, f))
  <2>1. c = a + b - d /\ a \in Nat /\ b \in Nat /\ d \in Nat
    BY <1>3, <1>4
  <2>2. Total(S \cup T, f) = c /\ Total(S, f) = a /\ Total(T, f) = b
    BY <1>1 DEF Total
  <2> HIDE DEF a, b, c, d
  <2>3. QED
    BY <2>1, <2>2

(* A column that adds two others. *)
LEMMA TotalPlus ==
  ASSUME NEW S, IsFiniteSet(S), NEW f, NEW g, NEW h,
         \A x \in S : f[x] \in Nat /\ g[x] \in Nat /\ h[x] = f[x] + g[x]
  PROVE  Total(S, h) = Total(S, f) + Total(S, g)
<1> DEFINE Good == {T \in SUBSET S : Total(T, h) = Total(T, f) + Total(T, g)}
<1>1. {} \in Good
  BY TotalEmpty
<1>2. ASSUME NEW T \in SUBSET S, NEW x \in S \ T, T \in Good PROVE T \cup {x} \in Good
  <2>1. IsFiniteSet(T) /\ Total(T, f) \in Nat /\ Total(T, g) \in Nat
    BY FS_Subset, TotalNat
  <2>2. /\ Total(T \cup {x}, h) = Total(T, h) + h[x]
        /\ Total(T \cup {x}, f) = Total(T, f) + f[x]
        /\ Total(T \cup {x}, g) = Total(T, g) + g[x]
    <3>1. /\ \A y \in T \cup {x} : f[y] \in Nat
          /\ \A y \in T \cup {x} : g[y] \in Nat
          /\ \A y \in T \cup {x} : h[y] \in Nat
          /\ x \notin T
      OBVIOUS
    <3> HIDE DEF Good
    <3>2. Total(T \cup {x}, h) = Total(T, h) + h[x]
      BY ONLY <2>1, <3>1, TotalAdd
    <3>3. Total(T \cup {x}, f) = Total(T, f) + f[x]
      BY ONLY <2>1, <3>1, TotalAdd
    <3>4. Total(T \cup {x}, g) = Total(T, g) + g[x]
      BY ONLY <2>1, <3>1, TotalAdd
    <3>5. QED
      BY <3>2, <3>3, <3>4
  <2>3. QED
    BY <1>2, <2>1, <2>2
<1> HIDE DEF Good
<1>3. S \in Good
  BY <1>1, <1>2, SubsetsByOne
<1>4. QED
  BY <1>3 DEF Good

(* The parts of a whole, part by part.                                     *)
LEMMA TotalParts ==
  ASSUME NEW S, IsFiniteSet(S), NEW part, NEW f, NEW g,
         \A x \in S : /\ IsFiniteSet(part[x]) /\ \A y \in part[x] : f[y] \in Nat
                      /\ g[x] \in Nat /\ Total(part[x], f) <= g[x]
  PROVE  /\ IsFiniteSet(UNION {part[x] : x \in S})
         /\ Total(UNION {part[x] : x \in S}, f) <= Total(S, g)
<1> DEFINE All(T) == UNION {part[x] : x \in T}
           Good == {T \in SUBSET S : IsFiniteSet(All(T)) /\ Total(All(T), f) <= Total(T, g)}
<1>1. {} \in Good
  <2>1. All({}) = {}
    OBVIOUS
  <2>2. QED
    BY <2>1, TotalEmpty, FS_EmptySet
<1>2. ASSUME NEW T \in SUBSET S, NEW x \in S \ T, T \in Good PROVE T \cup {x} \in Good
  <2>1. All(T \cup {x}) = All(T) \cup part[x]
    OBVIOUS
  <2>2. \A y \in All(T) : f[y] \in Nat
    OBVIOUS
  <2> HIDE DEF All
  <2>3. IsFiniteSet(T) /\ IsFiniteSet(All(T)) /\ Total(All(T), f) <= Total(T, g)
    BY <1>2, FS_Subset
  <2>4. /\ IsFiniteSet(All(T) \cup part[x])
        /\ Total(All(T) \cup part[x], f) <= Total(All(T), f) + Total(part[x], f)
    BY <2>2, <2>3, FS_Union, TotalCup
  <2>5. Total(T \cup {x}, g) = Total(T, g) + g[x] /\ Total(T, g) \in Nat
    BY <2>3, TotalAdd, TotalNat
  <2>6. /\ Total(All(T), f) \in Nat /\ Total(part[x], f) \in Nat
        /\ Total(All(T) \cup part[x], f) \in Nat
    BY <2>2, <2>3, <2>4, TotalNat
  <2>7. Total(part[x], f) <= g[x] /\ g[x] \in Nat
    OBVIOUS
  <2>8. Total(All(T) \cup part[x], f) <= Total(T \cup {x}, g)
    BY <2>3, <2>4, <2>5, <2>6, <2>7
  <2>9. QED
    BY <2>1, <2>4, <2>8
<1> HIDE DEF Good
<1>3. S \in Good
  BY <1>1, <1>2, SubsetsByOne
<1>4. QED
  BY <1>3 DEF Good

(* The sum over one row. *)
LEMMA TotalOne ==
  ASSUME NEW x, NEW f, f[x] \in Nat
  PROVE  Total({x}, f) = f[x]
<1>1. {x} = {} \cup {x} /\ x \notin {}
  OBVIOUS
<1>2. Total({} \cup {x}, f) = Total({}, f) + f[x]
  BY FS_EmptySet, TotalAdd
<1>3. QED
  BY <1>1, <1>2, TotalEmpty
(* Rows that add nothing may be left out. *)
LEMMA TotalOutside ==
  ASSUME NEW T, NEW S \in SUBSET T, NEW f, \A x \in T \ S : f[x] = 0
  PROVE  Total(T, f) = Total(S, f)
<1>1. ASSUME NEW x \in T \ S PROVE {x} \X (1..f[x]) = {}
  <2>1. 1..f[x] = {}
    OBVIOUS
  <2>2. QED
    BY <2>1
<1>2. Cells(T, f) = Cells(S, f)
  BY <1>1 DEF Cells
<1>3. QED
  BY <1>2 DEF Total

(* Rows that are selected and the others. *)
LEMMA TotalSplit ==
  ASSUME NEW S, IsFiniteSet(S), NEW T \in SUBSET S, NEW f, \A x \in S : f[x] \in Nat
  PROVE  Total(S, f) = Total(T, f) + Total(S \ T, f)
<1> DEFINE g == [x \in S |-> IF x \in T THEN f[x] ELSE 0]
           h == [x \in S |-> IF x \in T THEN 0 ELSE f[x]]
<1>1. \A x \in S : g[x] \in Nat /\ h[x] \in Nat /\ f[x] = g[x] + h[x]
  OBVIOUS
<1>2. /\ \A x \in S \ T : g[x] = 0
      /\ \A x \in S \ (S \ T) : h[x] = 0
      /\ \A x \in T : g[x] = f[x]
      /\ \A x \in S \ T : h[x] = f[x]
  OBVIOUS
<1> HIDE DEF g, h
<1>3. Total(S, f) = Total(S, g) + Total(S, h)
  BY <1>1, TotalPlus
<1>4. Total(S, g) = Total(T, g) /\ Total(S, h) = Total(S \ T, h)
  BY <1>2, TotalOutside
<1>5. Total(T, g) = Total(T, f) /\ Total(S \ T, h) = Total(S \ T, f)
  BY <1>2, TotalSame
<1>6. QED
  BY <1>3, <1>4, <1>5

(* One sequence after another. *)
LEMMA TotalConcat ==
  ASSUME NEW m \in Nat, NEW n \in Nat, NEW f, NEW g, NEW h,
         \A i \in 1..m : g[i] \in Nat /\ f[i] = g[i],
         \A i \in 1..n : h[i] \in Nat /\ f[m + i] = h[i]
  PROVE  Total(1..(m + n), f) = Total(1..m, g) + Total(1..n, h)
<1> DEFINE B == (m + 1)..(m + n)
           shift == [i \in 1..n |-> m + i]
           back == [i \in B |-> i - m]
<1>1. /\ 1..m \subseteq 1..(m + n) /\ (1..(m + n)) \ (1..m) = B
      /\ IsFiniteSet(1..(m + n)) /\ IsFiniteSet(1..m) /\ IsFiniteSet(B) /\ IsFiniteSet(1..n)
  <2>1. 1 \in Int /\ m \in Int /\ n \in Int /\ m + 1 \in Int /\ m + n \in Int
    OBVIOUS
  <2>2. /\ IsFiniteSet(1..m) /\ IsFiniteSet((m + 1)..(m + n)) /\ IsFiniteSet(1..n)
        /\ IsFiniteSet(1..(m + n))
    BY ONLY <2>1, FS_Interval
  <2>3. 1..m \subseteq 1..(m + n) /\ (1..(m + n)) \ (1..m) = B
    OBVIOUS
  <2>4. QED
    BY <2>2, <2>3
<1>2. ASSUME NEW i \in B PROVE i - m \in 1..n /\ back[i] = i - m /\ f[i] = h[i - m] /\ f[i] \in Nat
  <2>1. i - m \in 1..n /\ back[i] = i - m /\ m + (i - m) = i
    OBVIOUS
  <2> HIDE DEF B
  <2>2. QED
    BY <2>1
<1>3. back \in Injection(B, 1..n) /\ shift \in Injection(1..n, B)
  <2>1. back \in [B -> 1..n] /\ shift \in [1..n -> B]
    BY <1>2
  <2>2. /\ \A i, j \in B : back[i] = back[j] => i = j
        /\ \A i, j \in 1..n : shift[i] = shift[j] => i = j
    OBVIOUS
  <2> HIDE DEF back, shift, B
  <2>3. QED
    BY <2>1, <2>2 DEF Injection, IsInjective
<1>4. \A i \in 1..n : shift[i] \in B /\ f[shift[i]] = h[i]
  OBVIOUS
<1> HIDE DEF back, shift, B
<1>5. \A i \in 1..(m + n) : f[i] \in Nat
  <2> TAKE i \in 1..(m + n)
  <2>1. CASE i \in 1..m
    BY <2>1
  <2>2. CASE i \in B
    BY <1>2, <2>2
  <2>3. QED
    BY <1>1, <2>1, <2>2
<1>6. Total(1..(m + n), f) = Total(1..m, f) + Total(B, f)
  <2>1. PICK A, C : A = 1..(m + n) /\ C = 1..m
    OBVIOUS
  <2>2. IsFiniteSet(A) /\ C \in SUBSET A /\ (\A i \in A : f[i] \in Nat) /\ A \ C = B
    BY <1>1, <1>5, <2>1
  <2>3. Total(A, f) = Total(C, f) + Total(A \ C, f)
    BY ONLY <2>2, TotalSplit
  <2>4. QED
    BY <2>1, <2>2, <2>3
<1>7. Total(1..m, f) = Total(1..m, g)
  BY TotalSame
<1>8. Total(B, f) <= Total(1..n, h) /\ Total(1..n, h) <= Total(B, f)
  <2>1. \A i \in B : f[i] \in Nat /\ f[i] <= h[back[i]]
    BY <1>2
  <2>2. \A i \in 1..n : h[i] \in Nat /\ h[i] <= f[shift[i]]
    BY <1>2, <1>4
  <2>3. Total(B, f) <= Total(1..n, h)
    BY ONLY <1>1, <1>3, <2>1, <2>2, TotalInto
  <2>4. Total(1..n, h) <= Total(B, f)
    BY ONLY <1>1, <1>3, <2>1, <2>2, TotalInto
  <2>5. QED
    BY <2>3, <2>4
<1>9. Total(B, f) \in Nat /\ Total(1..n, h) \in Nat
  <2>1. \A i \in B : f[i] \in Nat
    BY <1>2
  <2>2. QED
    BY <1>1, <2>1, TotalNat
<1>10. Total(B, f) = Total(1..n, h)
  BY <1>8, <1>9
<1>11. QED
  BY <1>6, <1>7, <1>10

(* Numbers that lie in some of the intervals base[x] .. base[x] + f[x] - 1 *)
(* are no more than these are long. *)
LEMMA TotalCovers ==
  ASSUME NEW S, IsFiniteSet(S), NEW f, NEW base, NEW T,
         \A x \in S : f[x] \in Nat /\ base[x] \in Nat,
         \A t \in T : t \in Nat /\ \E x \in S : base[x] <= t /\ t < base[x] + f[x]
  PROVE  IsFiniteSet(T) /\ Cardinality(T) \in Nat /\ Cardinality(T) <= Total(S, f)
<1> DEFINE in(t) == CHOOSE x \in S : base[x] <= t /\ t < base[x] + f[x]
           move == [t \in T |-> <<in(t), t - base[in(t)] + 1>>]
           cells == Cells(S, f)
<1>1. ASSUME NEW t \in T
      PROVE  in(t) \in S /\ base[in(t)] <= t /\ t < base[in(t)] + f[in(t)]
  <2>1. \E x \in S : base[x] <= t /\ t < base[x] + f[x]
    OBVIOUS
  <2>2. QED
    BY <2>1
<1> HIDE DEF in
<1>2. ASSUME NEW t \in T PROVE move[t] \in cells /\ t \in Nat
  <2>1. PICK x, n : x = in(t) /\ n = t - base[x] + 1
    OBVIOUS
  <2>2. x \in S /\ t \in Nat /\ base[x] \in Nat /\ f[x] \in Nat /\ base[x] <= t /\ t < base[x] + f[x]
    BY <1>1, <2>1
  <2>3. n \in 1..f[x]
    BY <2>1, <2>2
  <2>4. move[t] = <<x, n>>
    BY <2>1
  <2> HIDE DEF move
  <2>5. move[t] \in {x} \X (1..f[x])
    BY <2>3, <2>4
  <2>6. QED
    BY <2>2, <2>5 DEF Cells
<1>3. ASSUME NEW s \in T, NEW t \in T, move[s] = move[t] PROVE s = t
  <2>1. in(s) = in(t) /\ s - base[in(s)] + 1 = t - base[in(t)] + 1
    BY <1>3
  <2>2. s \in Nat /\ t \in Nat /\ base[in(s)] \in Nat
    BY <1>1
  <2>3. QED
    BY <2>1, <2>2
<1>4. move \in Injection(T, cells)
  <2>1. move = [t \in T |-> move[t]]
    OBVIOUS
  <2> HIDE DEF move, cells
  <2>2. QED
    BY <1>2, <1>3, <2>1 DEF Injection, IsInjective
<1>5. IsFiniteSet(cells)
  BY CellsFinite
<1> HIDE DEF move
<1>6. IsFiniteSet(T) /\ Cardinality(T) <= Cardinality(cells)
  <2> HIDE DEF cells
  <2> QED BY <1>4, <1>5, FS_Injection
<1>7. QED
  BY <1>6, FS_CardinalityType DEF Total

(* Intervals that share nothing are no longer than the numbers in them. *)
LEMMA TotalFits ==
  ASSUME NEW S, NEW f, NEW base, NEW T, IsFiniteSet(T),
         \A x \in S : f[x] \in Nat /\ base[x] \in Nat,
         \A x \in S, t \in Nat : base[x] <= t /\ t < base[x] + f[x] => t \in T,
         \A x, y \in S, t \in Nat :
           base[x] <= t /\ t < base[x] + f[x] /\ base[y] <= t /\ t < base[y] + f[y] => x = y
  PROVE  Total(S, f) <= Cardinality(T)
<1> DEFINE cells == Cells(S, f)
           move == [c \in cells |-> base[c[1]] + c[2] - 1]
<1>1. ASSUME NEW c \in cells
      PROVE  /\ c[1] \in S /\ c = <<c[1], c[2]>> /\ c[2] \in Nat /\ base[c[1]] \in Nat
             /\ move[c] \in Nat /\ move[c] = base[c[1]] + c[2] - 1
             /\ base[c[1]] <= move[c] /\ move[c] < base[c[1]] + f[c[1]]
  <2>1. PICK x \in S : c \in {x} \X (1..f[x])
    BY DEF Cells
  <2>2. c[1] = x /\ c = <<c[1], c[2]>> /\ c[2] \in 1..f[x]
    BY <2>1
  <2>3. move[c] = base[c[1]] + c[2] - 1
    OBVIOUS
  <2> HIDE DEF move
  <2>4. QED
    BY <2>2, <2>3
<1> HIDE DEF move, cells
<1>2. ASSUME NEW c \in cells, NEW d \in cells, move[c] = move[d] PROVE c = d
  <2>1. c[1] = d[1]
    <3>1. PICK x, y, t : x = c[1] /\ y = d[1] /\ t = move[c]
      OBVIOUS
    <3>2. /\ x \in S /\ y \in S /\ t \in Nat
          /\ base[x] <= t /\ t < base[x] + f[x] /\ base[y] <= t /\ t < base[y] + f[y]
      BY <1>1, <1>2, <3>1
    <3> DEFINE Holds(z) == base[z] <= t /\ t < base[z] + f[z]
    <3>3. Holds(x) /\ Holds(y) /\ (Holds(x) /\ Holds(y) => x = y)
      BY <3>2
    <3> HIDE DEF Holds
    <3>5. x = y
      BY <3>3
    <3>4. QED
      BY <3>1, <3>5
  <2>2. c[2] = d[2]
    <3>1. /\ base[c[1]] \in Nat /\ c[2] \in Nat /\ d[2] \in Nat
          /\ base[c[1]] + c[2] - 1 = base[c[1]] + d[2] - 1
      BY <1>1, <1>2, <2>1
    <3>2. PICK b, m, n : b = base[c[1]] /\ m = c[2] /\ n = d[2]
      OBVIOUS
    <3>3. b \in Nat /\ m \in Nat /\ n \in Nat /\ b + m - 1 = b + n - 1
      BY <3>1, <3>2
    <3>4. m = n
      BY ONLY <3>3
    <3>5. QED
      BY <3>2, <3>4
  <2>3. QED
    BY <1>1, <2>1, <2>2
<1>3. move \in Injection(cells, T)
  <2>1. move = [c \in cells |-> move[c]]
    BY DEF move
  <2>2. \A c \in cells : move[c] \in T
    BY <1>1
  <2>3. QED
    BY <1>2, <2>1, <2>2 DEF Injection, IsInjective
<1>4. QED
  BY <1>3, FS_Injection DEF Total, cells
=============================================================================
