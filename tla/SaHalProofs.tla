----------------------------- MODULE SaHalProofs ------------------------------
(***************************************************************************)
(* Theorems about the HAL driver for every set of dispatches and exports,  *)
(* every capacity of the batch and of its range sets, every size of the    *)
(* arena and every environment: the batch that becomes a list (SaBatch),   *)
(* the arena (SaArena), and the order of the commands (SaHal).             *)
(***************************************************************************)
EXTENDS SaHal, WellFoundedInduction, SequenceTheorems, FiniteSetTheorems, TLAPS

-----------------------------------------------------------------------------
(* Induction over the numbers, and functions defined by recursion. *)

Below == OpToRel(<, Nat)

\* Any nonempty set of numbers has a least one.
LEMMA Least ==
    ASSUME NEW T \in SUBSET Nat, T # {}
    PROVE  \E x \in T : \A y \in T : x <= y
<1>1. IsWellFoundedOn(Below, Nat)
  BY NatLessThanWellFounded, Zenon DEF Below
<1>2. PICK x \in T : \A y \in T : ~(<<y, x>> \in Below)
  BY <1>1, WFMin, Zenon
<1>3. \A y \in T : ~(y < x)
  BY <1>2 DEF Below, OpToRel
<1> QED BY <1>3

\* A set that holds 0 and the successor of each of its members.
LEMMA Induct ==
    ASSUME NEW S \in SUBSET Nat, 0 \in S, \A n \in S : n + 1 \in S
    PROVE  S = Nat
<1>1. SUFFICES ASSUME Nat \ S # {} PROVE FALSE
  OBVIOUS
<1>2. PICK x \in Nat \ S : \A y \in Nat \ S : x <= y
  BY <1>1, Least
<1>3. x - 1 \in Nat /\ ~(x <= x - 1) /\ (x - 1) + 1 = x
  BY <1>2
<1> QED BY <1>2, <1>3

\* The same up to a number.
LEMMA InductTo ==
    ASSUME NEW n \in Nat, NEW S, 0 \in S, \A k \in 0 .. n - 1 : k \in S => k + 1 \in S
    PROVE  \A k \in 0 .. n : k \in S
<1> DEFINE T == {k \in Nat : k > n \/ k \in S}
<1>1. 0 \in T
  OBVIOUS
<1>2. ASSUME NEW k \in T PROVE k + 1 \in T
  <2>1. CASE k \in 0 .. n - 1
    BY <2>1
  <2>2. CASE ~(k \in 0 .. n - 1)
    BY <2>2
  <2> QED BY <2>1, <2>2
<1>3. T = Nat
  <2>1. T \in SUBSET Nat
    OBVIOUS
  <2> HIDE DEF T
  <2> QED BY <1>1, <1>2, <2>1, Induct
<1> QED BY <1>3

\* f is given at 0 and from each number to the next.
Recurs(f, n, base, step) == f[0] = base /\ \A k \in 1 .. n : f[k] = step[k][f[k - 1]]

\* There is such a function.
LEMMA Recursion ==
    ASSUME NEW S, NEW base \in S, NEW n \in Nat, NEW step \in [1 .. n -> [S -> S]]
    PROVE  \E f \in [0 .. n -> S] : Recurs(f, n, base, step)
<1> DEFINE Upto(m, f) == f[0] = base /\ \A k \in 1 .. m : f[k] = step[k][f[k - 1]]
           Good == {m \in Nat : m > n \/ \E f \in [0 .. m -> S] : Upto(m, f)}
<1>1. 0 \in Good
  <2>1. [k \in 0 .. 0 |-> base] \in [0 .. 0 -> S] /\ Upto(0, [k \in 0 .. 0 |-> base])
    OBVIOUS
  <2> QED BY <2>1
<1>2. ASSUME NEW m \in Good PROVE m + 1 \in Good
  <2>1. SUFFICES ASSUME m + 1 <= n PROVE \E f \in [0 .. m + 1 -> S] : Upto(m + 1, f)
    <3> HIDE DEF Upto
    <3> QED OBVIOUS
  <2>2. PICK f \in [0 .. m -> S] : Upto(m, f)
    BY <2>1
  <2> DEFINE g == [k \in 0 .. m + 1 |-> IF k = m + 1 THEN step[m + 1][f[m]] ELSE f[k]]
  <2>3. f[m] \in S /\ m + 1 \in 1 .. n /\ step[m + 1][f[m]] \in S
    BY <2>1
  <2>4. g \in [0 .. m + 1 -> S]
    BY <2>3
  <2>5. g[0] = base
    BY <2>2
  <2>6. ASSUME NEW k \in 1 .. m + 1 PROVE g[k] = step[k][g[k - 1]]
    <3>1. CASE k = m + 1
      <4>1. g[m + 1] = step[m + 1][f[m]] /\ g[m] = f[m] /\ (m + 1) - 1 = m
        BY <2>1
      <4> QED BY <3>1, <4>1
    <3>2. CASE k # m + 1
      <4>1. k \in 1 .. m /\ g[k] = f[k] /\ g[k - 1] = f[k - 1]
        BY <3>2
      <4> QED BY <4>1, <2>2
    <3> QED BY <3>1, <3>2
  <2> QED BY <2>4, <2>5, <2>6
<1>3. n \in Good
  <2> HIDE DEF Good
  <2>1. Good \in SUBSET Nat
    BY DEF Good
  <2> QED BY <1>1, <1>2, <2>1, Induct
<1>4. PICK f \in [0 .. n -> S] : Upto(n, f)
  BY <1>3
<1> QED BY <1>4 DEF Recurs

-----------------------------------------------------------------------------
(* How many descriptors a list has. *)

Sized == [size : Nat]

\* The sum of Descriptors, from the first part to the last.
LEMMA DescriptorsSum ==
    ASSUME NEW P, \A x \in P : x.size \in Nat, NEW l \in Seq(P)
    PROVE  \E s \in [0 .. Len(l) -> Nat] :
              /\ s[0] = 0
              /\ \A k \in 1 .. Len(l) : s[k] = s[k - 1] + l[k].size
              /\ Descriptors(l) = s[Len(l)]
<1> DEFINE step == [k \in 1 .. Len(l) |-> [x \in Nat |-> x + l[k].size]]
           sum == CHOOSE f : f = [k \in 0 .. Len(l) |->
                                    IF k = 0 THEN 0 ELSE f[k - 1] + l[k].size]
<1>1. 0 \in Nat /\ Len(l) \in Nat /\ step \in [1 .. Len(l) -> [Nat -> Nat]]
  OBVIOUS
<1>2. \E f \in [0 .. Len(l) -> Nat] : Recurs(f, Len(l), 0, step)
  <2> HIDE DEF step, sum
  <2> QED BY <1>1, Recursion, Zenon
<1>3. PICK f \in [0 .. Len(l) -> Nat] :
         f[0] = 0 /\ \A k \in 1 .. Len(l) : f[k] = step[k][f[k - 1]]
  BY <1>2 DEF Recurs
<1>4. f = [k \in 0 .. Len(l) |-> IF k = 0 THEN 0 ELSE f[k - 1] + l[k].size]
  <2>1. ASSUME NEW k \in 1 .. Len(l) PROVE f[k] = f[k - 1] + l[k].size
    <3>1. k - 1 \in 0 .. Len(l) /\ f[k - 1] \in Nat
      <4>1. k - 1 \in 0 .. Len(l)
        BY <1>1
      <4> QED BY <4>1
    <3> QED BY <1>3, <3>1
  <2> QED BY <1>1, <1>3, <2>1
<1>5. sum = [k \in 0 .. Len(l) |-> IF k = 0 THEN 0 ELSE sum[k - 1] + l[k].size]
  BY <1>4
<1>6. Descriptors(l) = sum[Len(l)]
  BY DEF Descriptors
<1> HIDE DEF sum, step
<1>7. /\ sum[0] = 0
      /\ \A k \in 1 .. Len(l) : sum[k] = sum[k - 1] + l[k].size
      /\ DOMAIN sum = 0 .. Len(l)
  BY <1>5
<1>8. \A k \in 0 .. Len(l) : sum[k] \in Nat
  <2> DEFINE T == {k \in Nat : k > Len(l) \/ sum[k] \in Nat}
  <2>1. 0 \in T
    BY <1>7
  <2>2. ASSUME NEW k \in T PROVE k + 1 \in T
    BY <1>7
  <2> HIDE DEF T
  <2>3. T \in SUBSET Nat
    BY DEF T
  <2>4. T = Nat
    BY <2>1, <2>2, <2>3, Induct
  <2> QED BY <2>4 DEF T
<1>9. sum \in [0 .. Len(l) -> Nat]
  BY <1>5, <1>7, <1>8
<1> QED BY <1>6, <1>7, <1>9

\* An empty list has no descriptors.
LEMMA DescriptorsEmpty == Descriptors(<<>>) = 0
<1>1. <<>> \in Seq(Sized) /\ Len(<<>>) = 0 /\ \A x \in Sized : x.size \in Nat
  BY DEF Sized
<1>2. PICK s \in [0 .. Len(<<>>) -> Nat] : s[0] = 0 /\ Descriptors(<<>>) = s[Len(<<>>)]
  BY <1>1, DescriptorsSum
<1> QED BY <1>1, <1>2

\* One more part.
LEMMA DescriptorsAppend ==
    ASSUME NEW P, \A x \in P : x.size \in Nat, NEW l \in Seq(P), NEW y \in P
    PROVE  /\ Descriptors(l) \in Nat
           /\ Descriptors(Append(l, y)) = Descriptors(l) + y.size
<1> DEFINE m == Append(l, y)
           n == Len(l)
<1>1. /\ n \in Nat /\ m \in Seq(P) /\ Len(m) = n + 1
      /\ \A k \in 1 .. n : m[k] = l[k]
      /\ m[n + 1] = y
  OBVIOUS
<1>2. PICK s \in [0 .. n -> Nat] :
         /\ s[0] = 0
         /\ \A k \in 1 .. n : s[k] = s[k - 1] + l[k].size
         /\ Descriptors(l) = s[n]
  BY DescriptorsSum
<1> HIDE DEF m
<1>3. \E t \in [0 .. Len(m) -> Nat] :
         /\ t[0] = 0
         /\ \A k \in 1 .. Len(m) : t[k] = t[k - 1] + m[k].size
         /\ Descriptors(m) = t[Len(m)]
  BY <1>1, DescriptorsSum
<1>4. PICK t \in [0 .. n + 1 -> Nat] :
         /\ t[0] = 0
         /\ \A k \in 1 .. n + 1 : t[k] = t[k - 1] + m[k].size
         /\ Descriptors(m) = t[n + 1]
  BY <1>1, <1>3
<1> HIDE DEF n
<1> DEFINE T == {k \in Nat : k > n \/ t[k] = s[k]}
<1>5. 0 \in T
  BY <1>2, <1>4
<1>6. ASSUME NEW k \in T PROVE k + 1 \in T
  <2>1. SUFFICES ASSUME k + 1 <= n PROVE t[k + 1] = s[k + 1]
    BY <1>1
  <2>2. k + 1 \in 1 .. n /\ k + 1 \in 1 .. n + 1 /\ (k + 1) - 1 = k /\ t[k] = s[k]
    BY <1>1, <2>1
  <2>3. t[k + 1] = t[k] + m[k + 1].size /\ s[k + 1] = s[k] + l[k + 1].size
    BY <1>2, <1>4, <2>2
  <2> QED BY <1>1, <2>2, <2>3
<1>7. T = Nat
  <2>1. T \in SUBSET Nat
    OBVIOUS
  <2> HIDE DEF T
  <2> QED BY <1>5, <1>6, <2>1, Induct
<1>8. t[n] = s[n]
  <2> HIDE DEF T
  <2>1. n \in T
    BY <1>1, <1>7
  <2> QED BY <1>1, <2>1 DEF T
<1>9. n + 1 \in 1 .. n + 1 /\ (n + 1) - 1 = n /\ s[n] \in Nat
  BY <1>1, <1>2
<1>10. t[n + 1] = t[n] + y.size
  BY <1>1, <1>4, <1>9
<1> QED BY <1>2, <1>4, <1>8, <1>9, <1>10 DEF m, n

-----------------------------------------------------------------------------
(* Range sets. *)

Spans == UNION {d.reads \cup d.writes : d \in Dispatch}
RangeSets == [r : SUBSET Spans, n : Nat, all : BOOLEAN]

\* The range set s stands for every range of R.
Covers(s, R) == s.all \/ R \subseteq s.r

\* What a dispatch may touch.
LEMMA RangesOf ==
    ASSUME NEW d \in Dispatch
    PROVE  /\ d.reads \subseteq Spans /\ d.writes \subseteq Spans
           /\ d.prefixReads \subseteq Spans /\ d.prefixReads \subseteq d.reads
           /\ Cardinality(d.reads) \in Nat /\ Cardinality(d.writes) \in Nat
           /\ Cardinality(d.prefixReads) \in Nat
<1>1. /\ IsFiniteSet(d.reads) /\ IsFiniteSet(d.writes)
      /\ d.prefixReads \subseteq d.reads
  BY DispatchAssumption
<1>2. IsFiniteSet(d.prefixReads)
  BY <1>1, FS_Subset
<1>3. d.reads \subseteq Spans /\ d.writes \subseteq Spans
  BY DEF Spans
<1> QED BY <1>1, <1>2, <1>3, FS_CardinalityType

\* Adding to a range set, also when it overflows, forgets nothing.
LEMMA SetAddCovers ==
    ASSUME NEW s \in RangeSets, NEW R \in SUBSET Spans, Cardinality(R) \in Nat
    PROVE  /\ SetAdd(s, R) \in RangeSets
           /\ Covers(SetAdd(s, R), R)
           /\ \A Q : Covers(s, Q) => Covers(SetAdd(s, R), Q)
<1> DEFINE t == SetAdd(s, R)
<1>1. CASE s.all \/ s.n + Cardinality(R) > SetCap
  <2>1. t = [s EXCEPT !.all = TRUE]
    BY <1>1 DEF SetAdd
  <2> QED BY <2>1 DEF RangeSets, Covers
<1>2. CASE ~(s.all \/ s.n + Cardinality(R) > SetCap)
  <2>1. t = [s EXCEPT !.r = @ \cup R, !.n = s.n + Cardinality(R)]
    BY <1>2 DEF SetAdd
  <2>2. s = [r |-> s.r, n |-> s.n, all |-> s.all] /\ s.r \in SUBSET Spans /\ s.n \in Nat
    BY DEF RangeSets
  <2>3. s.all \in BOOLEAN /\ s.n + Cardinality(R) \in Nat
    BY <2>2 DEF RangeSets
  <2>4. t = [r |-> s.r \cup R, n |-> s.n + Cardinality(R), all |-> s.all]
    BY <2>1, <2>2
  <2>5. s.r \cup R \in SUBSET Spans
    BY <2>2
  <2> HIDE DEF t
  <2>6. t \in RangeSets
    BY <2>3, <2>4, <2>5 DEF RangeSets
  <2>7. t.all = s.all /\ t.r = s.r \cup R
    BY <2>4
  <2>8. Covers(t, R) /\ \A Q : Covers(s, Q) => Covers(t, Q)
    BY <2>7 DEF Covers
  <2> QED BY <2>6, <2>8 DEF t
<1> QED BY <1>1, <1>2

\* The empty range set.
LEMMA NoRangesType == NoRanges \in RangeSets
  BY DEF NoRanges, RangeSets

\* The test for an overlap does not miss a collision.
LEMMA OverlapSeen ==
    ASSUME NEW s, NEW Q, NEW R, Covers(s, Q), Collides(Q, R)
    PROVE  SetOverlaps(s, R)
  BY DEF Covers, Collides, SetOverlaps

\* A recorded entry is a dispatch with its flag.
LEMMA EntryType ==
    ASSUME NEW e \in Seq(Entry), NEW i \in 1 .. Len(e)
    PROVE  e[i].d \in Dispatch /\ e[i].barrier \in BOOLEAN
<1>1. e[i] \in Entry
  OBVIOUS
<1> QED BY <1>1 DEF Entry

\* WrittenAll covers what each dispatch of the list writes.
LEMMA WrittenCovers ==
    ASSUME NEW e \in Seq(Entry)
    PROVE  \A i \in 1 .. Len(e) : Covers(WrittenAll(e), e[i].d.writes)
<1> DEFINE n == Len(e)
           step == [k \in 1 .. Len(e) |-> [s \in RangeSets |-> SetAdd(s, e[k].d.writes)]]
           written == CHOOSE f : f = [k \in 0 .. Len(e) |->
                         IF k = 0 THEN NoRanges ELSE SetAdd(f[k - 1], e[k].d.writes)]
<1>1. ASSUME NEW k \in 1 .. Len(e)
      PROVE  e[k].d.writes \in SUBSET Spans /\ Cardinality(e[k].d.writes) \in Nat
  BY EntryType, RangesOf
<1>2. n \in Nat /\ NoRanges \in RangeSets /\ step \in [1 .. n -> [RangeSets -> RangeSets]]
  BY <1>1, SetAddCovers, NoRangesType
<1>3. \E f \in [0 .. n -> RangeSets] : Recurs(f, n, NoRanges, step)
  <2> HIDE DEF step, written, n
  <2> QED BY <1>2, Recursion, Zenon
<1>4. PICK f \in [0 .. n -> RangeSets] :
         f[0] = NoRanges /\ \A k \in 1 .. n : f[k] = step[k][f[k - 1]]
  BY <1>3 DEF Recurs
<1>5. f = [k \in 0 .. n |-> IF k = 0 THEN NoRanges ELSE SetAdd(f[k - 1], e[k].d.writes)]
  <2>1. ASSUME NEW k \in 1 .. n PROVE f[k] = SetAdd(f[k - 1], e[k].d.writes)
    <3>1. k - 1 \in 0 .. n /\ f[k - 1] \in RangeSets
      BY <1>2
    <3> QED BY <1>4, <3>1
  <2> QED BY <1>2, <1>4, <2>1
<1>6. written = [k \in 0 .. n |->
                    IF k = 0 THEN NoRanges ELSE SetAdd(written[k - 1], e[k].d.writes)]
  BY <1>5
<1>7. WrittenAll(e) = written[n]
  BY DEF WrittenAll
<1> HIDE DEF written, step
<1> DEFINE T == {k \in 0 .. n : /\ written[k] \in RangeSets
                                /\ \A i \in 1 .. k : Covers(written[k], e[i].d.writes)}
<1>8. 0 \in T
  BY <1>2, <1>6
<1>9. ASSUME NEW k \in 0 .. n - 1, k \in T PROVE k + 1 \in T
  <2>1. k + 1 \in 1 .. n /\ k + 1 \in 0 .. n /\ (k + 1) - 1 = k /\ k + 1 # 0
    BY <1>2
  <2>2. written[k + 1] = SetAdd(written[k], e[k + 1].d.writes)
    BY <1>6, <2>1
  <2>3. /\ written[k + 1] \in RangeSets
        /\ Covers(written[k + 1], e[k + 1].d.writes)
        /\ \A Q : Covers(written[k], Q) => Covers(written[k + 1], Q)
    BY <1>1, <1>9, <2>1, <2>2, SetAddCovers
  <2>4. ASSUME NEW i \in 1 .. k + 1 PROVE Covers(written[k + 1], e[i].d.writes)
    <3>1. CASE i \in 1 .. k
      BY <1>9, <2>3, <3>1
    <3>2. CASE i = k + 1
      BY <2>3, <3>2
    <3> QED BY <2>1, <3>1, <3>2
  <2> QED BY <2>1, <2>3, <2>4
<1>10. n \in T
  <2> HIDE DEF T, n
  <2>1. \A k \in 0 .. n : k \in T
    BY <1>2, <1>8, <1>9, InductTo
  <2> QED BY <1>2, <2>1
<1> QED BY <1>7, <1>10

-----------------------------------------------------------------------------
(* Where the prefixes run. *)

Hosted(e, g, i) == \E j \in DOMAIN e : g[j] = i

\* The prefixes of the first k dispatches are placed: each moved at most once,
\* into a dispatch before its own, with nothing that touches SPAD_B from there
\* on, and only if no dispatch writes what it loads.
Placed(e, g, k) ==
    /\ g \in [1 .. Len(e) -> 0 .. k]
    /\ \A j \in 1 .. Len(e) : g[j] # 0 =>
          /\ j < g[j] /\ g[j] \in 1 .. Len(e)
          /\ MayMove(e, g[j])
          /\ e[j].d.head
          /\ \A l \in j .. g[j] - 1 : ~e[l].d.spadB
    /\ \A i, j \in 1 .. Len(e) : g[i] # 0 /\ g[i] = g[j] => i = j

\* Placing the prefix of one more dispatch keeps the placement right...
LEMMA PlaceMore ==
    ASSUME NEW e \in Seq(Entry), NEW k \in 1 .. Len(e), NEW g, Placed(e, g, k - 1)
    PROVE  Placed(e, Place(e, g, k), k)
<1> DEFINE H == Hosts(e, g, k)
           n == Len(e)
<1>1. n \in Nat /\ k \in 1 .. n
  OBVIOUS
<1>2. CASE MayMove(e, k) /\ H # {}
  <2>1. H \in SUBSET Nat /\ H # {}
    BY <1>1, <1>2 DEF Hosts
  <2>2. PICK h \in H : \A y \in H : h <= y
    BY <2>1, Least
  <2>3. Min(H) \in H
    BY <2>2 DEF Min
  <2> DEFINE m == Min(H)
             f == [g EXCEPT ![m] = k]
  <2>4. /\ m \in 1 .. (k - 1) /\ e[m].d.head /\ g[m] = 0
        /\ \A l \in m .. (k - 1) : ~e[l].d.spadB
    BY <2>3 DEF Hosts
  <2>5. Place(e, g, k) = f
    BY <1>2 DEF Place
  <2> HIDE DEF m
  <2>6. /\ f \in [1 .. n -> 0 .. k]
        /\ f[m] = k /\ \A j \in 1 .. n : j # m => f[j] = g[j]
        /\ \A j \in 1 .. n : g[j] \in 0 .. k - 1
    BY <1>1, <2>4 DEF Placed
  <2> HIDE DEF f
  <2>7. ASSUME NEW j \in 1 .. n, f[j] # 0
        PROVE  /\ j < f[j] /\ f[j] \in 1 .. n
               /\ MayMove(e, f[j])
               /\ e[j].d.head
               /\ \A l \in j .. f[j] - 1 : ~e[l].d.spadB
    <3>1. CASE j = m
      BY <1>1, <1>2, <2>4, <2>6, <3>1
    <3>2. CASE j # m
      BY <2>6, <2>7, <3>2 DEF Placed
    <3> QED BY <3>1, <3>2
  <2>8. ASSUME NEW i \in 1 .. n, NEW j \in 1 .. n, f[i] # 0, f[i] = f[j]
        PROVE  i = j
    <3>1. CASE i = m \/ j = m
      BY <1>1, <2>6, <2>8, <3>1
    <3>2. CASE i # m /\ j # m
      BY <2>6, <2>8, <3>2 DEF Placed
    <3> QED BY <3>1, <3>2
  <2> QED BY <2>5, <2>6, <2>7, <2>8 DEF Placed
<1>3. CASE ~(MayMove(e, k) /\ H # {})
  <2>1. Place(e, g, k) = g
    BY <1>3 DEF Place
  <2>2. g \in [1 .. n -> 0 .. k]
    BY <1>1 DEF Placed
  <2> QED BY <2>1, <2>2 DEF Placed
<1> QED BY <1>2, <1>3

\* ...so all of it is right.
LEMMA GuestsPlaced ==
    ASSUME NEW e \in Seq(Entry)
    PROVE  Placed(e, Guests(e), Len(e))
<1> DEFINE n == Len(e)
           S == [1 .. Len(e) -> 0 .. Len(e)]
           none == [j \in 1 .. Len(e) |-> 0]
           step == [k \in 1 .. Len(e) |-> [g \in S |-> IF Placed(e, g, k - 1)
                                                       THEN Place(e, g, k) ELSE g]]
           placed == CHOOSE f : f = [k \in 0 .. Len(e) |->
                         IF k = 0 THEN [j \in 1 .. Len(e) |-> 0] ELSE Place(e, f[k - 1], k)]
<1>1. n \in Nat /\ none \in S /\ Placed(e, none, 0)
  BY DEF Placed
<1>2. ASSUME NEW k \in 1 .. n, NEW g \in S PROVE step[k][g] \in S
  <2>1. CASE Placed(e, g, k - 1)
    <3>1. Placed(e, Place(e, g, k), k)
      BY <2>1, PlaceMore
    <3>2. Place(e, g, k) \in [1 .. n -> 0 .. k] /\ 0 .. k \subseteq 0 .. n
      BY <1>1, <3>1 DEF Placed
    <3> HIDE DEF n
    <3>3. Place(e, g, k) \in [1 .. n -> 0 .. n]
      BY <3>2
    <3> QED BY <2>1, <3>3 DEF n
  <2>2. CASE ~Placed(e, g, k - 1)
    BY <2>2
  <2> QED BY <2>1, <2>2
<1>3. step \in [1 .. n -> [S -> S]]
  BY <1>2
<1>4. \E f \in [0 .. n -> S] : Recurs(f, n, none, step)
  <2> HIDE DEF step, placed, n, S, none
  <2> QED BY <1>1, <1>3, Recursion, Zenon
<1>5. PICK f \in [0 .. n -> S] :
         f[0] = none /\ \A k \in 1 .. n : f[k] = step[k][f[k - 1]]
  BY <1>4 DEF Recurs
<1>6. ASSUME NEW k \in 1 .. n, Placed(e, f[k - 1], k - 1) PROVE f[k] = Place(e, f[k - 1], k)
  <2>1. k - 1 \in 0 .. n /\ f[k - 1] \in S
    BY <1>1
  <2>2. step[k][f[k - 1]] = Place(e, f[k - 1], k)
    BY <1>6, <2>1
  <2> QED BY <1>5, <2>2
<1> HIDE DEF step, placed, S, none
<1> DEFINE T == {k \in 0 .. n : Placed(e, f[k], k)}
<1>7. 0 \in T
  BY <1>1, <1>5
<1>8. ASSUME NEW k \in 0 .. n - 1, k \in T PROVE k + 1 \in T
  <2>1. k + 1 \in 1 .. n /\ k + 1 \in 0 .. n /\ (k + 1) - 1 = k
    BY <1>1
  <2>2. f[k + 1] = Place(e, f[k], k + 1)
    BY <1>6, <1>8, <2>1
  <2>3. Placed(e, f[k + 1], k + 1)
    BY <1>8, <2>1, <2>2, PlaceMore
  <2> QED BY <2>1, <2>3
<1>9. \A k \in 0 .. n : Placed(e, f[k], k)
  <2> HIDE DEF n
  <2>1. \A k \in 0 .. n : k \in T
    <3> HIDE DEF T
    <3> QED BY <1>1, <1>7, <1>8, InductTo
  <2> QED BY <2>1
<1>10. f = [k \in 0 .. n |-> IF k = 0 THEN none ELSE Place(e, f[k - 1], k)]
  <2>1. \A k \in 1 .. n : f[k] = Place(e, f[k - 1], k)
    <3>1. ASSUME NEW k \in 1 .. n PROVE Placed(e, f[k - 1], k - 1)
      BY <1>1, <1>9
    <3> QED BY <1>6, <3>1
  <2> QED BY <1>5, <2>1
<1>11. placed = [k \in 0 .. n |-> IF k = 0 THEN none ELSE Place(e, placed[k - 1], k)]
  BY <1>10 DEF placed, none
<1>12. Guests(e) = placed[n]
  BY DEF Guests, placed
<1> DEFINE U == {k \in 0 .. n : Placed(e, placed[k], k)}
<1>13. 0 \in U
  BY <1>1, <1>11
<1>14. ASSUME NEW k \in 0 .. n - 1, k \in U PROVE k + 1 \in U
  <2>1. k + 1 \in 1 .. n /\ k + 1 \in 0 .. n /\ (k + 1) - 1 = k /\ k + 1 # 0
    BY <1>1
  <2>2. placed[k + 1] = Place(e, placed[k], k + 1)
    BY <1>11, <2>1
  <2>3. Placed(e, placed[k + 1], k + 1)
    BY <1>14, <2>1, <2>2, PlaceMore
  <2> QED BY <2>1, <2>3
<1>15. n \in U
  <2> HIDE DEF n, U
  <2>1. \A k \in 0 .. n : k \in U
    BY <1>1, <1>13, <1>14, InductTo
  <2> QED BY <1>1, <2>1
<1> QED BY <1>12, <1>15

-----------------------------------------------------------------------------
(* One dispatch appended to the list: at most seven parts, one after the   *)
(* other.                                                                  *)

Ops == {"prefix", "fence", "regs", "head", "body", "end"}
Parts == [op : Ops, of : Nat, size : Nat, mask : SUBSET {"LD", "ST"}]
Lists == [list : Seq(Parts), reads : RangeSets, writes : RangeSets]

Opt(L, c, x) == IF c THEN Append(L, x) ELSE L

MaskAt(e, s, i) == IF e[i].barrier /\ i > 1 THEN FenceMask(s, e[i].d) ELSE {}
EarlyAt(e, g, s, i) == Early(s, e[i].d, Hosted(e, g, i), MaskAt(e, s, i))
OwnAt(e, g, s, i) == e[i].d.prefix /\ ~Hosted(e, g, i) /\ ~EarlyAt(e, g, s, i)
VisitAt(e, g, i) == e[i].d.head /\ g[i] # 0

FenceOf(M) == [op |-> "fence", of |-> 0, size |-> 1, mask |-> M]

L1(e, g, s, i) == Opt(s.list, EarlyAt(e, g, s, i), Part("prefix", i, 2))
L2(e, g, s, i) == Opt(L1(e, g, s, i), MaskAt(e, s, i) # {}, FenceOf(MaskAt(e, s, i)))
L3(e, g, s, i) == Opt(L2(e, g, s, i), e[i].d.count # 0, Part("regs", i, (e[i].d.count + 2) \div 3))
L4(e, g, s, i) == Opt(L3(e, g, s, i), OwnAt(e, g, s, i), Part("prefix", i, 2))
L5(e, g, s, i) == Opt(L4(e, g, s, i), e[i].d.head, Part("head", i, 1))
L6(e, g, s, i) == Opt(L5(e, g, s, i), VisitAt(e, g, i), Part("prefix", g[i], 2))
L7(e, g, s, i) == Append(L6(e, g, s, i), Part("body", i, 1))

\* The range sets after the early prefix, after the FENCE, after the visit.
R1(e, g, s, i) == IF EarlyAt(e, g, s, i) THEN [s EXCEPT !.reads = SetAdd(@, e[i].d.prefixReads)] ELSE s
R2(e, g, s, i) == Pass(R1(e, g, s, i), MaskAt(e, s, i))
R3(e, g, s, i) == IF VisitAt(e, g, i)
                  THEN [R2(e, g, s, i) EXCEPT !.reads = SetAdd(@, e[g[i]].d.prefixReads)]
                  ELSE R2(e, g, s, i)

\* Emit, part by part.
LEMMA OptConcat ==
    ASSUME NEW L \in Seq(Parts), NEW c, NEW x \in Parts
    PROVE  /\ L \o (IF c THEN <<x>> ELSE <<>>) = Opt(L, c, x)
           /\ Opt(L, c, x) \in Seq(Parts)
<1>1. CASE c
  <2>1. <<x>> \in Seq(Parts) /\ L \o <<x>> = Append(L, x)
    OBVIOUS
  <2> QED BY <1>1, <2>1 DEF Opt
<1>2. CASE ~c
  BY <1>2 DEF Opt
<1> QED BY <1>1, <1>2

\* What Part makes is a part of a list.
LEMMA PartType ==
    ASSUME NEW op \in Ops, NEW i \in Nat, NEW size \in Nat
    PROVE  Part(op, i, size) \in Parts
  BY DEF Part, Parts

\* A FENCE names load, store or both.
LEMMA MaskType ==
    ASSUME NEW e, NEW s, NEW i
    PROVE  MaskAt(e, s, i) \subseteq {"LD", "ST"} /\ FenceOf(MaskAt(e, s, i)) \in Parts
<1>1. MaskAt(e, s, i) \subseteq {"LD", "ST"}
  BY DEF MaskAt, FenceMask
<1> DEFINE M == MaskAt(e, s, i)
<1>2. M \in SUBSET {"LD", "ST"}
  BY <1>1
<1> HIDE DEF M
<1>3. [op |-> "fence", of |-> 0, size |-> 1, mask |-> M] \in Parts
  BY <1>2 DEF Parts, Ops
<1> QED BY <1>1, <1>3 DEF FenceOf, M

\* The types of what Emit goes through.
LEMMA RegsSize ==
    ASSUME NEW c \in 0 .. 24
    PROVE  /\ (c + 2) \div 3 \in Nat /\ (c + 3) \div 3 \in Nat
           /\ (c + 2) \div 3 <= (c + 3) \div 3
  OBVIOUS

\* The stages of Emit are lists.
LEMMA EmitTypes ==
    ASSUME NEW e \in Seq(Entry), NEW g \in [1 .. Len(e) -> 0 .. Len(e)],
           NEW i \in 1 .. Len(e), NEW s \in Lists
    PROVE  /\ L1(e, g, s, i) \in Seq(Parts) /\ L2(e, g, s, i) \in Seq(Parts)
           /\ L3(e, g, s, i) \in Seq(Parts) /\ L4(e, g, s, i) \in Seq(Parts)
           /\ L5(e, g, s, i) \in Seq(Parts) /\ L6(e, g, s, i) \in Seq(Parts)
           /\ L7(e, g, s, i) \in Seq(Parts)
           /\ R1(e, g, s, i) \in Lists /\ R2(e, g, s, i) \in Lists
           /\ R3(e, g, s, i) \in Lists
           /\ Part("prefix", i, 2) \in Parts /\ Part("prefix", g[i], 2) \in Parts
           /\ Part("head", i, 1) \in Parts /\ Part("body", i, 1) \in Parts
           /\ Part("regs", i, (e[i].d.count + 2) \div 3) \in Parts
           /\ FenceOf(MaskAt(e, s, i)) \in Parts
<1>1. /\ Part("prefix", i, 2) \in Parts /\ Part("prefix", g[i], 2) \in Parts
      /\ Part("head", i, 1) \in Parts /\ Part("body", i, 1) \in Parts
      /\ Part("regs", i, (e[i].d.count + 2) \div 3) \in Parts
      /\ FenceOf(MaskAt(e, s, i)) \in Parts
  <2>1. i \in Nat /\ g[i] \in Nat
    OBVIOUS
  <2>2. e[i].d.count \in 0 .. 24
    BY EntryType, DispatchAssumption
  <2>3. (e[i].d.count + 2) \div 3 \in Nat
    BY <2>2, RegsSize
  <2>4. /\ "prefix" \in Ops /\ "head" \in Ops /\ "body" \in Ops /\ "regs" \in Ops
        /\ 1 \in Nat /\ 2 \in Nat
    BY DEF Ops
  <2>5. FenceOf(MaskAt(e, s, i)) \in Parts
    BY MaskType
  <2> HIDE DEF FenceOf, MaskAt
  <2> QED BY <2>1, <2>3, <2>4, <2>5, PartType
<1>2. s.list \in Seq(Parts) /\ s.reads \in RangeSets /\ s.writes \in RangeSets
  BY DEF Lists
<1>3. L1(e, g, s, i) \in Seq(Parts)
  BY <1>1, <1>2, OptConcat DEF L1
<1>4. L2(e, g, s, i) \in Seq(Parts)
  BY <1>1, <1>3, OptConcat DEF L2
<1>5. L3(e, g, s, i) \in Seq(Parts)
  BY <1>1, <1>4, OptConcat DEF L3
<1>6. L4(e, g, s, i) \in Seq(Parts)
  BY <1>1, <1>5, OptConcat DEF L4
<1>7. L5(e, g, s, i) \in Seq(Parts)
  BY <1>1, <1>6, OptConcat DEF L5
<1>8. L6(e, g, s, i) \in Seq(Parts)
  BY <1>1, <1>7, OptConcat DEF L6
<1>9. L7(e, g, s, i) \in Seq(Parts)
  BY <1>1, <1>8 DEF L7
<1>10. R1(e, g, s, i) \in Lists
  <2>1. SetAdd(s.reads, e[i].d.prefixReads) \in RangeSets
    BY <1>2, EntryType, RangesOf, SetAddCovers
  <2> QED BY <1>2, <2>1 DEF R1, Lists
<1>11. R2(e, g, s, i) \in Lists
  BY <1>10, NoRangesType DEF R2, Pass, Lists
<1>12. R3(e, g, s, i) \in Lists
  <2>1. CASE VisitAt(e, g, i)
    <3>1. g[i] \in 1 .. Len(e)
      BY <2>1 DEF VisitAt
    <3>2. e[g[i]].d.prefixReads \in SUBSET Spans /\ Cardinality(e[g[i]].d.prefixReads) \in Nat
      BY <3>1, EntryType, RangesOf
    <3>3. SetAdd(R2(e, g, s, i).reads, e[g[i]].d.prefixReads) \in RangeSets
      BY <1>11, <3>2, SetAddCovers DEF Lists
    <3> QED BY <1>11, <2>1, <3>3 DEF R3, Lists
  <2>2. CASE ~VisitAt(e, g, i)
    BY <1>11, <2>2 DEF R3
  <2> QED BY <2>1, <2>2
<1> QED BY <1>1, <1>3, <1>4, <1>5, <1>6, <1>7, <1>8, <1>9, <1>10, <1>11, <1>12

\* Emit appends its parts one after another.
LEMMA EmitParts ==
    ASSUME NEW e \in Seq(Entry), NEW g \in [1 .. Len(e) -> 0 .. Len(e)],
           NEW i \in 1 .. Len(e), NEW s \in Lists
    PROVE  /\ Emit(e, g, s, i) \in Lists
           /\ Emit(e, g, s, i).list = L7(e, g, s, i)
           /\ Emit(e, g, s, i).reads = SetAdd(R3(e, g, s, i).reads, e[i].d.reads)
           /\ Emit(e, g, s, i).writes = SetAdd(R3(e, g, s, i).writes, e[i].d.writes)
<1> DEFINE d == e[i].d
           M == MaskAt(e, s, i)
           P1 == IF EarlyAt(e, g, s, i) THEN <<Part("prefix", i, 2)>> ELSE <<>>
           P2 == IF M # {} THEN <<FenceOf(M)>> ELSE <<>>
           P3 == RegsPart(i, d.count)
           P4 == IF OwnAt(e, g, s, i) THEN <<Part("prefix", i, 2)>> ELSE <<>>
           P5 == IF d.head THEN <<Part("head", i, 1)>> ELSE <<>>
           P6 == IF VisitAt(e, g, i) THEN <<Part("prefix", g[i], 2)>> ELSE <<>>
           rd == SetAdd(R3(e, g, s, i).reads, d.reads)
           wr == SetAdd(R3(e, g, s, i).writes, d.writes)
<1>1. Emit(e, g, s, i) =
        [list |-> s.list \o P1 \o P2 \o P3 \o P4 \o P5 \o P6 \o <<Part("body", i, 1)>>,
         reads |-> rd, writes |-> wr]
  BY DEF Emit, EarlyAt, OwnAt, VisitAt, MaskAt, Hosted, R1, R2, R3, PrefixPart, HeadPart,
     BodyPart, FencePart, FenceOf
<1>2. s.list \o P1 = L1(e, g, s, i)
  BY EmitTypes, OptConcat DEF L1, Lists
<1>3. L1(e, g, s, i) \o P2 = L2(e, g, s, i)
  BY EmitTypes, OptConcat DEF L2
<1>4. L2(e, g, s, i) \o P3 = L3(e, g, s, i)
  <2>1. P3 = IF d.count # 0 THEN <<Part("regs", i, (d.count + 2) \div 3)>> ELSE <<>>
    BY DEF RegsPart
  <2> HIDE DEF P3
  <2> QED BY <2>1, EmitTypes, OptConcat DEF L3
<1>5. L3(e, g, s, i) \o P4 = L4(e, g, s, i)
  <2>1. /\ L3(e, g, s, i) \in Seq(Parts)
        /\ Part("prefix", i, 2) \in Parts
    BY EmitTypes
  <2> QED BY <2>1, OptConcat DEF L4
<1>6. L4(e, g, s, i) \o P5 = L5(e, g, s, i)
  <2>1. /\ L4(e, g, s, i) \in Seq(Parts)
        /\ Part("head", i, 1) \in Parts
    BY EmitTypes
  <2> QED BY <2>1, OptConcat DEF L5
<1>7. L5(e, g, s, i) \o P6 = L6(e, g, s, i)
  <2>1. /\ L5(e, g, s, i) \in Seq(Parts)
        /\ Part("prefix", g[i], 2) \in Parts
    BY EmitTypes
  <2> QED BY <2>1, OptConcat DEF L6
<1>8. L6(e, g, s, i) \o <<Part("body", i, 1)>> = L7(e, g, s, i)
  BY EmitTypes DEF L7
<1> HIDE DEF P1, P2, P3, P4, P5, P6
<1>9. Emit(e, g, s, i) = [list |-> L7(e, g, s, i), reads |-> rd, writes |-> wr]
  BY <1>1, <1>2, <1>3, <1>4, <1>5, <1>6, <1>7, <1>8
<1>10. rd \in RangeSets /\ wr \in RangeSets
  <2>1. R3(e, g, s, i).reads \in RangeSets /\ R3(e, g, s, i).writes \in RangeSets
    BY EmitTypes DEF Lists
  <2> QED BY <2>1, EntryType, RangesOf, SetAddCovers
<1>11. L7(e, g, s, i) \in Seq(Parts)
  BY EmitTypes
<1> HIDE DEF rd, wr
<1>12. Emit(e, g, s, i) \in Lists
  BY <1>9, <1>10, <1>11 DEF Lists
<1> QED BY <1>9, <1>12 DEF rd, wr

-----------------------------------------------------------------------------
(* A list as long as sa_entry_descriptors says. *)

\* An optional part counts where it is there.
LEMMA OptSize ==
    ASSUME NEW L \in Seq(Parts), NEW c, NEW x \in Parts
    PROVE  /\ Descriptors(L) \in Nat
           /\ Descriptors(Opt(L, c, x)) = Descriptors(L) + (IF c THEN x.size ELSE 0)
<1>1. \A y \in Parts : y.size \in Nat
  BY DEF Parts
<1>2. Descriptors(L) \in Nat /\ Descriptors(Append(L, x)) = Descriptors(L) + x.size
  BY <1>1, DescriptorsAppend
<1> QED BY <1>1, <1>2 DEF Opt

\* A prefix and a head are never of the same dispatch: what a dispatch puts in
\* the list fits what was counted for it, wherever its prefix runs.
LEMMA EmitSize ==
    ASSUME NEW e \in Seq(Entry), NEW g \in [1 .. Len(e) -> 0 .. Len(e)],
           NEW i \in 1 .. Len(e), NEW s \in Lists
    PROVE  /\ Descriptors(s.list) \in Nat /\ Need(e[i].d) \in Nat
           /\ Descriptors(Emit(e, g, s, i).list) \in Nat
           /\ Descriptors(Emit(e, g, s, i).list) <= Descriptors(s.list) + Need(e[i].d)
<1> DEFINE d == e[i].d
           regs == (d.count + 2) \div 3
           One(c, n) == IF c THEN n ELSE 0
<1>1. /\ d.count \in 0 .. 24 /\ d.prefix \in BOOLEAN /\ d.head \in BOOLEAN
      /\ ~(d.prefix /\ d.head)
  BY EntryType, DispatchAssumption
<1>2. regs \in Nat /\ regs <= (d.count + 3) \div 3 /\ (d.count + 3) \div 3 \in Nat
  <2> HIDE DEF d
  <2> QED BY <1>1, RegsSize
<1>3. /\ Part("prefix", i, 2).size = 2 /\ Part("prefix", g[i], 2).size = 2
      /\ Part("head", i, 1).size = 1 /\ Part("body", i, 1).size = 1
      /\ Part("regs", i, regs).size = regs
      /\ FenceOf(MaskAt(e, s, i)).size = 1
  BY DEF Part, FenceOf
<1> HIDE DEF regs
<1>4. /\ Descriptors(s.list) \in Nat
      /\ Descriptors(L1(e, g, s, i)) = Descriptors(s.list) + One(EarlyAt(e, g, s, i), 2)
  BY <1>3, EmitTypes, OptSize DEF L1, Lists
<1>5. Descriptors(L2(e, g, s, i)) =
        Descriptors(L1(e, g, s, i)) + One(MaskAt(e, s, i) # {}, 1)
  <2>1. FenceOf(MaskAt(e, s, i)) \in Parts /\ L1(e, g, s, i) \in Seq(Parts)
    BY EmitTypes
  <2> QED BY <1>3, <2>1, OptSize DEF L2
<1>6. Descriptors(L3(e, g, s, i)) = Descriptors(L2(e, g, s, i)) + One(d.count # 0, regs)
  <2>1. Part("regs", i, regs) \in Parts /\ L2(e, g, s, i) \in Seq(Parts)
    BY EmitTypes DEF regs
  <2>2. L3(e, g, s, i) = Opt(L2(e, g, s, i), d.count # 0, Part("regs", i, regs))
    BY DEF L3, regs
  <2>3. Descriptors(L3(e, g, s, i)) = Descriptors(L2(e, g, s, i)) +
           (IF d.count # 0 THEN Part("regs", i, regs).size ELSE 0)
    <3> DEFINE some == d.count # 0
    <3>1. L3(e, g, s, i) = Opt(L2(e, g, s, i), some, Part("regs", i, regs))
      BY <2>2
    <3> HIDE DEF some
    <3>2. Descriptors(L3(e, g, s, i)) = Descriptors(L2(e, g, s, i)) +
             (IF some THEN Part("regs", i, regs).size ELSE 0)
      BY <2>1, <3>1, OptSize
    <3> QED BY <3>2 DEF some
  <2> QED BY <1>3, <2>3
<1>7. Descriptors(L4(e, g, s, i)) = Descriptors(L3(e, g, s, i)) + One(OwnAt(e, g, s, i), 2)
  BY <1>3, EmitTypes, OptSize DEF L4
<1>8. Descriptors(L5(e, g, s, i)) = Descriptors(L4(e, g, s, i)) + One(d.head, 1)
  <2>1. Part("head", i, 1) \in Parts /\ L4(e, g, s, i) \in Seq(Parts)
    BY EmitTypes
  <2> QED BY <1>3, <2>1, OptSize DEF L5
<1>9. Descriptors(L6(e, g, s, i)) = Descriptors(L5(e, g, s, i)) + One(VisitAt(e, g, i), 2)
  <2>1. Part("prefix", g[i], 2) \in Parts /\ L5(e, g, s, i) \in Seq(Parts)
    BY EmitTypes
  <2> QED BY <1>3, <2>1, OptSize DEF L6
<1>10. Descriptors(L7(e, g, s, i)) = Descriptors(L6(e, g, s, i)) + 1
  <2>1. Part("body", i, 1) \in Parts /\ L6(e, g, s, i) \in Seq(Parts) /\ \A y \in Parts : y.size \in Nat
    BY EmitTypes DEF Parts
  <2> QED BY <1>3, <2>1, DescriptorsAppend DEF L7
<1>11. /\ EarlyAt(e, g, s, i) => d.prefix
       /\ OwnAt(e, g, s, i) => d.prefix /\ ~EarlyAt(e, g, s, i)
       /\ VisitAt(e, g, i) => d.head
  BY DEF EarlyAt, Early, OwnAt, VisitAt
<1>12. Need(d) = (d.count + 3) \div 3 + 6
  BY <1>2 DEF Need
<1>13. Emit(e, g, s, i).list = L7(e, g, s, i)
  BY EmitParts
<1> HIDE DEF d
<1> DEFINE A == One(EarlyAt(e, g, s, i), 2)
           B == One(MaskAt(e, s, i) # {}, 1)
           C == One(d.count # 0, regs)
           D == One(OwnAt(e, g, s, i), 2)
           E == One(d.head, 1)
           F == One(VisitAt(e, g, i), 2)
<1>14. /\ A \in 0 .. 2 /\ B \in 0 .. 1 /\ C \in 0 .. regs /\ D \in 0 .. 2 /\ E \in 0 .. 1
       /\ F \in 0 .. 2
  BY <1>2
<1>15. A + D + E + F <= 3
  <2>1. CASE d.prefix
    BY <1>1, <1>11, <2>1
  <2>2. CASE ~d.prefix
    BY <1>11, <2>2
  <2> QED BY <2>1, <2>2
<1> HIDE DEF A, B, C, D, E, F
<1>16. Descriptors(L7(e, g, s, i)) = Descriptors(s.list) + A + B + C + D + E + F + 1
  <2>1. /\ Descriptors(L1(e, g, s, i)) = Descriptors(s.list) + A
        /\ Descriptors(L2(e, g, s, i)) = Descriptors(L1(e, g, s, i)) + B
        /\ Descriptors(L3(e, g, s, i)) = Descriptors(L2(e, g, s, i)) + C
        /\ Descriptors(L4(e, g, s, i)) = Descriptors(L3(e, g, s, i)) + D
        /\ Descriptors(L5(e, g, s, i)) = Descriptors(L4(e, g, s, i)) + E
        /\ Descriptors(L6(e, g, s, i)) = Descriptors(L5(e, g, s, i)) + F
    BY <1>4, <1>5, <1>6, <1>7, <1>8, <1>9 DEF A, B, C, D, E, F
  <2>2. /\ A \in Int /\ B \in Int /\ C \in Int /\ D \in Int /\ E \in Int /\ F \in Int
    BY <1>2, <1>14
  <2> QED BY <1>4, <1>10, <2>1, <2>2
<1>17. /\ Descriptors(L7(e, g, s, i)) \in Nat
       /\ Descriptors(L7(e, g, s, i)) <= Descriptors(s.list) + Need(d)
  <2>1. /\ A \in Int /\ B \in Int /\ C \in Int /\ D \in Int /\ E \in Int /\ F \in Int
        /\ A >= 0 /\ B >= 0 /\ C >= 0 /\ D >= 0 /\ E >= 0 /\ F >= 0
        /\ B <= 1 /\ C <= regs
    BY <1>2, <1>14
  <2> DEFINE S == Descriptors(s.list)
             T == Descriptors(L7(e, g, s, i))
             q == (d.count + 3) \div 3
  <2>2. S \in Nat /\ q \in Nat /\ regs \in Nat /\ regs <= q
    BY <1>2, <1>4
  <2> HIDE DEF S, T, q
  <2>3. T = S + A + B + C + D + E + F + 1
    BY <1>16 DEF S, T
  <2>4. T \in Nat /\ T <= S + (q + 6)
    BY <1>15, <2>1, <2>2, <2>3
  <2> QED BY <1>12, <2>4 DEF S, T, q
<1> QED BY <1>2, <1>4, <1>12, <1>13, <1>17 DEF d

-----------------------------------------------------------------------------
(* Own weights: which prefixes and bodies are in the list, and where.      *)

Moving(x) == x.op \in {"prefix", "head", "body"}

\* The prefix of dispatch i is in the list: the dispatches up to h have been
\* visited, those up to o had their own prefix.
Loaded(e, g, h, o, i) ==
    /\ i \in 1 .. Len(e) /\ e[i].d.prefix
    /\ \/ \E j \in 1 .. h : g[j] = i
       \/ ~Hosted(e, g, i) /\ i <= o

\* Every part is of a dispatch the list has come to...
Whose(e, g, L, a, h, o) ==
    \A p \in 1 .. Len(L) :
        /\ L[p].op = "body" => L[p].of \in 1 .. a
        /\ L[p].op = "head" => L[p].of \in 1 .. o
        /\ L[p].op = "prefix" => Loaded(e, g, h, o, L[p].of)
\* ... every body and every prefix of those is there...
Present(e, g, L, a, h, o) ==
    /\ \A i \in 1 .. a : \E p \in 1 .. Len(L) : L[p].op = "body" /\ L[p].of = i
    /\ \A i \in 1 .. Len(e) : Loaded(e, g, h, o, i) =>
          \E p \in 1 .. Len(L) : L[p].op = "prefix" /\ L[p].of = i
\* ... once...
Once(L) ==
    \A p, q \in 1 .. Len(L) :
        L[p].op \in {"prefix", "body"} /\ L[q].op = L[p].op /\ L[q].of = L[p].of => p = q
\* ... nothing but prefixes out of order...
InTurn(L) ==
    \A p, q \in 1 .. Len(L) :
        p < q /\ L[p].op \in {"head", "body"} /\ L[q].op \in {"head", "body"}
           => L[p].of <= L[q].of
\* ... nothing that touches SPAD_B between a prefix and its body...
Untouched(e, L) ==
    \A p, q \in 1 .. Len(L) :
        /\ p < q /\ L[p].op = "prefix" /\ Moving(L[q])
        /\ \A b \in 1 .. q : L[b].op = "body" => L[b].of # L[p].of
        => L[q].op # "prefix" /\ (L[q].of = L[p].of \/ ~e[L[q].of].d.spadB)
\* ... and the prefix comes first.
First(L) ==
    \A p, b \in 1 .. Len(L) :
        L[p].op = "prefix" /\ L[b].op = "body" /\ L[b].of = L[p].of => p < b

Weights(e, g, L, a, h, o) ==
    /\ Whose(e, g, L, a, h, o) /\ Present(e, g, L, a, h, o)
    /\ Once(L) /\ InTurn(L) /\ Untouched(e, L) /\ First(L)

\* One more entry of a sequence.
LEMMA Appended ==
    ASSUME NEW L \in Seq(Parts), NEW x \in Parts
    PROVE  /\ Len(L) \in Nat /\ Len(Append(L, x)) = Len(L) + 1
           /\ \A p \in 1 .. Len(L) : Append(L, x)[p] = L[p]
           /\ Append(L, x)[Len(L) + 1] = x
           /\ Append(L, x) \in Seq(Parts)
  OBVIOUS

\* A part that neither loads nor computes.
LEMMA WeightsOther ==
    ASSUME NEW e \in Seq(Entry), NEW g, NEW L \in Seq(Parts), NEW x \in Parts, ~Moving(x),
           NEW a, NEW h, NEW o, Weights(e, g, L, a, h, o)
    PROVE  Weights(e, g, Append(L, x), a, h, o)
<1> DEFINE M == Append(L, x)
           n == Len(L)
<1>1. /\ n \in Nat /\ Len(M) = n + 1 /\ M[n + 1] = x
      /\ \A p \in 1 .. n : M[p] = L[p]
  BY Appended
<1>2. x.op # "prefix" /\ x.op # "head" /\ x.op # "body"
  BY DEF Moving
<1> HIDE DEF M, n
<1>3. \A p \in 1 .. n + 1 : M[p].op \in {"prefix", "head", "body"} => p \in 1 .. n /\ M[p] = L[p]
  BY <1>1, <1>2
<1>4. Whose(e, g, M, a, h, o)
  BY <1>1, <1>3 DEF Weights, Whose, n
<1>5. Present(e, g, M, a, h, o)
  <2>1. \A p \in 1 .. Len(L) : p \in 1 .. Len(M) /\ M[p] = L[p]
    BY <1>1 DEF n
  <2>2. ASSUME NEW i \in 1 .. a
        PROVE  \E p \in 1 .. Len(M) : M[p].op = "body" /\ M[p].of = i
    <3>1. PICK p \in 1 .. Len(L) : L[p].op = "body" /\ L[p].of = i
      BY DEF Weights, Present
    <3> QED BY <2>1, <3>1
  <2>3. ASSUME NEW i \in 1 .. Len(e), Loaded(e, g, h, o, i)
        PROVE  \E p \in 1 .. Len(M) : M[p].op = "prefix" /\ M[p].of = i
    <3>1. PICK p \in 1 .. Len(L) : L[p].op = "prefix" /\ L[p].of = i
      BY <2>3 DEF Weights, Present
    <3> QED BY <2>1, <3>1
  <2> QED BY <2>2, <2>3 DEF Present
<1>6. Once(M)
  BY <1>1, <1>3 DEF Weights, Once, n
<1>7. InTurn(M)
  BY <1>1, <1>3 DEF Weights, InTurn, n
<1>8. Untouched(e, M)
  <2>1. SUFFICES ASSUME NEW p \in 1 .. n + 1, NEW q \in 1 .. n + 1,
                        p < q, M[p].op = "prefix", Moving(M[q]),
                        \A b \in 1 .. q : M[b].op = "body" => M[b].of # M[p].of
                 PROVE  M[q].op # "prefix" /\ (M[q].of = M[p].of \/ ~e[M[q].of].d.spadB)
    BY <1>1 DEF Untouched
  <2>2. p \in 1 .. n /\ q \in 1 .. n /\ M[p] = L[p] /\ M[q] = L[q]
    BY <1>3, <2>1 DEF Moving
  <2>3. \A b \in 1 .. q : b \in 1 .. n /\ L[b] = M[b]
    BY <1>1, <2>2
  <2>4. \A b \in 1 .. q : L[b].op = "body" => L[b].of # L[p].of
    BY <2>1, <2>2, <2>3
  <2> QED BY <2>1, <2>2, <2>4 DEF Weights, Untouched, n
<1>9. First(M)
  BY <1>1, <1>3 DEF Weights, First, n
<1> QED BY <1>4, <1>5, <1>6, <1>7, <1>8, <1>9 DEF Weights, M

\* A part that loads or computes.
LEMMA WeightsMoving ==
    ASSUME NEW e \in Seq(Entry), NEW g, NEW L \in Seq(Parts), NEW x \in Parts, Moving(x),
           NEW a, NEW h, NEW o, Weights(e, g, L, a, h, o),
           NEW a1, NEW h1, NEW o1,
           x.op = "body" => x.of \in 1 .. a1,
           x.op = "head" => x.of \in 1 .. o1,
           x.op = "prefix" => Loaded(e, g, h1, o1, x.of),
           \A i \in 1 .. a : i \in 1 .. a1,
           \A i \in 1 .. o : i \in 1 .. o1,
           \A i \in 1 .. Len(e) : Loaded(e, g, h, o, i) => Loaded(e, g, h1, o1, i),
           \A i \in 1 .. a1 : i \in 1 .. a \/ (x.op = "body" /\ x.of = i),
           \A i \in 1 .. Len(e) : Loaded(e, g, h1, o1, i) =>
               Loaded(e, g, h, o, i) \/ (x.op = "prefix" /\ x.of = i),
           x.op = "body" => \A p \in 1 .. Len(L) : L[p].op = "body" => L[p].of # x.of,
           x.op = "prefix" => \A p \in 1 .. Len(L) :
               L[p].op \in {"prefix", "body"} => L[p].of # x.of,
           x.op \in {"head", "body"} => \A p \in 1 .. Len(L) :
               L[p].op \in {"head", "body"} => L[p].of <= x.of,
           \A p \in 1 .. Len(L) :
               /\ L[p].op = "prefix"
               /\ \A b \in 1 .. Len(L) : L[b].op = "body" => L[b].of # L[p].of
               /\ x.op = "body" => x.of # L[p].of
               => x.op # "prefix" /\ (x.of = L[p].of \/ ~e[x.of].d.spadB)
    PROVE  Weights(e, g, Append(L, x), a1, h1, o1)
<1> DEFINE M == Append(L, x)
           n == Len(L)
<1>1. /\ n \in Nat /\ Len(M) = n + 1 /\ M[n + 1] = x
      /\ \A p \in 1 .. n : M[p] = L[p]
  BY Appended
<1> HIDE DEF M
<1>2. \A p \in 1 .. n + 1 : p \in 1 .. n \/ p = n + 1
  BY <1>1
<1>3. Whose(e, g, M, a1, h1, o1)
  <2>1. Whose(e, g, L, a, h, o)
    BY DEF Weights
  <2>2. SUFFICES ASSUME NEW p \in 1 .. n + 1
                 PROVE  /\ M[p].op = "body" => M[p].of \in 1 .. a1
                        /\ M[p].op = "head" => M[p].of \in 1 .. o1
                        /\ M[p].op = "prefix" => Loaded(e, g, h1, o1, M[p].of)
    BY <1>1 DEF Whose
  <2>3. CASE p \in 1 .. n
    <3>1. M[p] = L[p]
      BY <1>1, <2>3
    <3>2. L[p].op = "prefix" => L[p].of \in 1 .. Len(e)
      BY <2>1, <2>3 DEF Whose, Loaded
    <3> QED BY <2>1, <2>3, <3>1, <3>2 DEF Whose
  <2>4. CASE p = n + 1
    BY <1>1, <2>4
  <2> QED BY <1>2, <2>3, <2>4
<1>4. Present(e, g, M, a1, h1, o1)
  <2>1. Present(e, g, L, a, h, o)
    BY DEF Weights
  <2>2. \A p \in 1 .. n : p \in 1 .. Len(M) /\ M[p] = L[p]
    BY <1>1
  <2>3. n + 1 \in 1 .. Len(M)
    BY <1>1
  <2>4. ASSUME NEW i \in 1 .. a1
        PROVE  \E p \in 1 .. Len(M) : M[p].op = "body" /\ M[p].of = i
    <3>1. CASE i \in 1 .. a
      BY <2>1, <2>2, <3>1 DEF Present
    <3>2. CASE x.op = "body" /\ x.of = i
      BY <1>1, <2>3, <3>2
    <3> QED BY <3>1, <3>2
  <2>5. ASSUME NEW i \in 1 .. Len(e), Loaded(e, g, h1, o1, i)
        PROVE  \E p \in 1 .. Len(M) : M[p].op = "prefix" /\ M[p].of = i
    <3>1. CASE Loaded(e, g, h, o, i)
      BY <2>1, <2>2, <3>1 DEF Present
    <3>2. CASE x.op = "prefix" /\ x.of = i
      BY <1>1, <2>3, <3>2
    <3> QED BY <2>5, <3>1, <3>2
  <2> QED BY <2>4, <2>5 DEF Present
<1>5. Once(M)
  <2>1. SUFFICES ASSUME NEW p \in 1 .. n + 1, NEW q \in 1 .. n + 1,
                        M[p].op \in {"prefix", "body"}, M[q].op = M[p].op, M[q].of = M[p].of
                 PROVE  p = q
    BY <1>1 DEF Once
  <2>2. CASE p \in 1 .. n /\ q \in 1 .. n
    BY <1>1, <2>1, <2>2 DEF Weights, Once
  <2>3. CASE p \in 1 .. n /\ q = n + 1
    BY <1>1, <2>1, <2>3
  <2>4. CASE p = n + 1 /\ q \in 1 .. n
    BY <1>1, <2>1, <2>4
  <2> QED BY <1>2, <2>2, <2>3, <2>4
<1>6. InTurn(M)
  <2>1. SUFFICES ASSUME NEW p \in 1 .. n + 1, NEW q \in 1 .. n + 1,
                        p < q, M[p].op \in {"head", "body"}, M[q].op \in {"head", "body"}
                 PROVE  M[p].of <= M[q].of
    BY <1>1 DEF InTurn
  <2>2. p \in 1 .. n
    BY <1>1, <2>1
  <2>3. CASE q \in 1 .. n
    BY <1>1, <2>1, <2>2, <2>3 DEF Weights, InTurn
  <2>4. CASE q = n + 1
    BY <1>1, <2>1, <2>2, <2>4
  <2> QED BY <1>2, <2>3, <2>4
<1>7. Untouched(e, M)
  <2>1. SUFFICES ASSUME NEW p \in 1 .. n + 1, NEW q \in 1 .. n + 1,
                        p < q, M[p].op = "prefix", Moving(M[q]),
                        \A b \in 1 .. q : M[b].op = "body" => M[b].of # M[p].of
                 PROVE  M[q].op # "prefix" /\ (M[q].of = M[p].of \/ ~e[M[q].of].d.spadB)
    BY <1>1 DEF Untouched
  <2>2. p \in 1 .. n /\ M[p] = L[p]
    BY <1>1, <2>1
  <2>3. CASE q \in 1 .. n
    <3>1. \A b \in 1 .. q : b \in 1 .. n /\ L[b] = M[b]
      BY <1>1, <2>3
    <3>2. \A b \in 1 .. q : L[b].op = "body" => L[b].of # L[p].of
      BY <2>1, <2>2, <3>1
    <3>3. M[q] = L[q]
      BY <1>1, <2>3
    <3> QED BY <2>1, <2>2, <2>3, <3>2, <3>3 DEF Weights, Untouched
  <2>4. CASE q = n + 1
    <3>1. M[q] = x
      BY <1>1, <2>4
    <3>2. \A b \in 1 .. n : b \in 1 .. q /\ L[b] = M[b]
      BY <1>1, <2>4
    <3>3. \A b \in 1 .. n : L[b].op = "body" => L[b].of # L[p].of
      BY <2>1, <2>2, <3>2
    <3>4. q \in 1 .. q
      BY <1>1, <2>4
    <3>5. x.op = "body" => x.of # L[p].of
      BY <2>1, <2>2, <3>1, <3>4
    <3> QED BY <2>1, <2>2, <3>1, <3>3, <3>5
  <2> QED BY <1>2, <2>3, <2>4
<1>8. First(M)
  <2>1. SUFFICES ASSUME NEW p \in 1 .. n + 1, NEW b \in 1 .. n + 1,
                        M[p].op = "prefix", M[b].op = "body", M[b].of = M[p].of
                 PROVE  p < b
    BY <1>1 DEF First
  <2>2. CASE p \in 1 .. n /\ b \in 1 .. n
    BY <1>1, <2>1, <2>2 DEF Weights, First
  <2>3. CASE p \in 1 .. n /\ b = n + 1
    BY <1>1, <2>3
  <2>4. CASE p = n + 1 /\ b \in 1 .. n
    BY <1>1, <2>1, <2>4
  <2>5. ~(p = n + 1 /\ b = n + 1)
    BY <2>1
  <2> QED BY <1>2, <2>2, <2>3, <2>4, <2>5
<1> QED BY <1>3, <1>4, <1>5, <1>6, <1>7, <1>8 DEF Weights, M

\* The prefix at p waits for its body.
Awaits(L, p) ==
    L[p].op = "prefix" /\ \A b \in 1 .. Len(L) : L[b].op = "body" => L[b].of # L[p].of

\* The prefix of k, a dispatch after i, runs in one of the first h.
Ahead(g, h, i, k) == k > i /\ \E j \in 1 .. h : g[j] = k

\* Where the prefixes are whose body is still to come.
LEMMA Pending ==
    ASSUME NEW e \in Seq(Entry), NEW g, NEW i \in 1 .. Len(e), NEW L \in Seq(Parts),
           NEW h, NEW o \in {i - 1, i}, Weights(e, g, L, i - 1, h, o),
           NEW p \in 1 .. Len(L), Awaits(L, p)
    PROVE  /\ Loaded(e, g, h, o, L[p].of) /\ L[p].of \in 1 .. Len(e)
           /\ L[p].of = i \/ Ahead(g, h, i, L[p].of)
<1>1. Loaded(e, g, h, o, L[p].of)
  BY DEF Weights, Whose, Awaits
<1>2. L[p].of \in 1 .. Len(e)
  BY <1>1 DEF Loaded
<1>3. ~(L[p].of \in 1 .. i - 1)
  BY DEF Weights, Present, Awaits
<1>4. L[p].of >= i
  BY <1>2, <1>3
<1>5. CASE L[p].of > i
  <2>1. ~(L[p].of <= o)
    BY <1>2, <1>5
  <2> QED BY <1>1, <1>2, <1>5, <2>1 DEF Loaded, Ahead
<1> QED BY <1>1, <1>2, <1>4, <1>5

\* What a prefix moved over.
LEMMA MovedOver ==
    ASSUME NEW e \in Seq(Entry), NEW g, Placed(e, g, Len(e)),
           NEW j \in 1 .. Len(e), NEW i \in 1 .. Len(e), j <= i, i < g[j]
    PROVE  /\ ~e[i].d.spadB /\ ~e[i].d.prefix
           /\ g[j] \in 1 .. Len(e) /\ e[g[j]].d.prefix /\ e[g[j]].d.spadB
<1>1. g[j] # 0 /\ g[j] \in Nat
  BY DEF Placed
<1>2. g[j] \in 1 .. Len(e) /\ MayMove(e, g[j]) /\ i \in j .. g[j] - 1
  BY <1>1 DEF Placed
<1>3. ~e[i].d.spadB /\ e[g[j]].d.prefix
  BY <1>1, <1>2 DEF Placed, MayMove
<1> QED BY <1>2, <1>3, EntryType, DispatchAssumption

\* The prefix of a dispatch before its body, where it was not moved.
LEMMA WeightsOwn ==
    ASSUME NEW e \in Seq(Entry), NEW g, Placed(e, g, Len(e)), NEW i \in 1 .. Len(e),
           NEW L \in Seq(Parts), Weights(e, g, L, i - 1, i - 1, i - 1),
           e[i].d.prefix, ~Hosted(e, g, i)
    PROVE  Weights(e, g, Append(L, Part("prefix", i, 2)), i - 1, i - 1, i)
<1> DEFINE x == Part("prefix", i, 2)
           n == Len(e)
<1>1. x \in Parts /\ Moving(x) /\ x.op = "prefix" /\ x.of = i
  BY DEF Part, Parts, Ops, Moving
<1> HIDE DEF x
<1>2. /\ Loaded(e, g, i - 1, i, i) /\ ~Loaded(e, g, i - 1, i - 1, i)
  <2>1. DOMAIN e = 1 .. Len(e) /\ i <= i /\ ~(i <= i - 1) /\ \A j \in 1 .. i - 1 : j \in 1 .. Len(e)
    OBVIOUS
  <2>2. \A j \in 1 .. i - 1 : g[j] # i
    BY <2>1 DEF Hosted
  <2> QED BY <2>1, <2>2 DEF Loaded
<1>3. \A k \in 1 .. n : Loaded(e, g, i - 1, i - 1, k) => Loaded(e, g, i - 1, i, k)
  BY DEF Loaded
<1>4. \A k \in 1 .. n : Loaded(e, g, i - 1, i, k) => Loaded(e, g, i - 1, i - 1, k) \/ k = i
  BY DEF Loaded
<1>5. \A p \in 1 .. Len(L) : L[p].op \in {"prefix", "body"} => L[p].of # i
  BY <1>2 DEF Weights, Whose
<1>6. ASSUME NEW p \in 1 .. Len(L), L[p].op = "prefix",
             \A b \in 1 .. Len(L) : L[b].op = "body" => L[b].of # L[p].of
      PROVE  FALSE
  <2>4. i - 1 \in {i - 1, i} /\ Awaits(L, p)
    BY <1>6 DEF Awaits
  <2>5. L[p].of = i \/ Ahead(g, i - 1, i, L[p].of)
    BY <2>4, Pending
  <2>1. L[p].of > i /\ \E j \in 1 .. i - 1 : g[j] = L[p].of
    BY <1>5, <1>6, <2>5 DEF Ahead
  <2>2. PICK j \in 1 .. i - 1 : g[j] = L[p].of
    BY <2>1
  <2>3. j \in 1 .. n /\ j <= i /\ i < g[j]
    BY <2>1, <2>2
  <2> QED BY <2>3, MovedOver
<1>7. /\ \A k \in 1 .. i - 1 : k \in 1 .. i
      /\ \A k \in 1 .. i - 1 : k \in 1 .. i - 1 \/ (x.op = "body" /\ x.of = k)
  OBVIOUS
<1>8. Weights(e, g, Append(L, x), i - 1, i - 1, i)
  BY <1>1, <1>2, <1>3, <1>4, <1>5, <1>6, <1>7, WeightsMoving
<1> QED BY <1>8 DEF x

\* The own prefixes up to i are there also when i has none to come.
LEMMA WeightsNoOwn ==
    ASSUME NEW e \in Seq(Entry), NEW g, NEW i \in 1 .. Len(e),
           NEW L \in Seq(Parts), Weights(e, g, L, i - 1, i - 1, i - 1),
           ~(e[i].d.prefix /\ ~Hosted(e, g, i))
    PROVE  Weights(e, g, L, i - 1, i - 1, i)
<1>1. \A k \in 1 .. Len(e) : Loaded(e, g, i - 1, i - 1, k) <=> Loaded(e, g, i - 1, i, k)
  BY DEF Loaded
<1>2. Whose(e, g, L, i - 1, i - 1, i)
  <2>1. \A p \in 1 .. Len(L) : L[p].op = "prefix" => L[p].of \in 1 .. Len(e)
    BY DEF Weights, Whose, Loaded
  <2>2. \A k \in 1 .. i - 1 : k \in 1 .. i
    OBVIOUS
  <2> QED BY <1>1, <2>1, <2>2 DEF Weights, Whose
<1>3. Present(e, g, L, i - 1, i - 1, i)
  BY <1>1 DEF Weights, Present
<1> QED BY <1>2, <1>3 DEF Weights

\* The head of a dispatch does not touch the weights.
LEMMA WeightsHead ==
    ASSUME NEW e \in Seq(Entry), NEW g, Placed(e, g, Len(e)), NEW i \in 1 .. Len(e),
           NEW L \in Seq(Parts), Weights(e, g, L, i - 1, i - 1, i)
    PROVE  Weights(e, g, Append(L, Part("head", i, 1)), i - 1, i - 1, i)
<1> DEFINE x == Part("head", i, 1)
<1>1. x \in Parts /\ Moving(x) /\ x.op = "head" /\ x.of = i
  BY DEF Part, Parts, Ops, Moving
<1> HIDE DEF x
<1>2. \A p \in 1 .. Len(L) : L[p].op \in {"head", "body"} => L[p].of <= i
  BY DEF Weights, Whose
<1>3. ASSUME NEW p \in 1 .. Len(L), L[p].op = "prefix",
             \A b \in 1 .. Len(L) : L[b].op = "body" => L[b].of # L[p].of
      PROVE  i = L[p].of \/ ~e[i].d.spadB
  <2>1. SUFFICES ASSUME L[p].of # i PROVE ~e[i].d.spadB
    OBVIOUS
  <2>2. i \in {i - 1, i} /\ Awaits(L, p)
    BY <1>3 DEF Awaits
  <2>6. L[p].of = i \/ Ahead(g, i - 1, i, L[p].of)
    BY <2>2, Pending
  <2>3. L[p].of = i \/ (L[p].of > i /\ \E j \in 1 .. i - 1 : g[j] = L[p].of)
    BY <2>6 DEF Ahead
  <2>4. PICK j \in 1 .. i - 1 : g[j] = L[p].of /\ L[p].of > i
    BY <2>1, <2>3
  <2>5. j \in 1 .. Len(e) /\ j <= i /\ i < g[j]
    BY <2>4
  <2> QED BY <2>5, MovedOver
<1>4. /\ \A k \in 1 .. i - 1 : k \in 1 .. i - 1 \/ (x.op = "body" /\ x.of = k)
      /\ i \in 1 .. i
  OBVIOUS
<1>5. Weights(e, g, Append(L, x), i - 1, i - 1, i)
  BY <1>1, <1>2, <1>3, <1>4, WeightsMoving
<1> QED BY <1>5 DEF x

\* The prefix that runs inside dispatch i.
LEMMA WeightsVisit ==
    ASSUME NEW e \in Seq(Entry), NEW g, Placed(e, g, Len(e)), NEW i \in 1 .. Len(e),
           NEW L \in Seq(Parts), Weights(e, g, L, i - 1, i - 1, i), g[i] # 0
    PROVE  Weights(e, g, Append(L, Part("prefix", g[i], 2)), i - 1, i, i)
<1> DEFINE x == Part("prefix", g[i], 2)
           k == g[i]
<1>1. /\ k \in 1 .. Len(e) /\ k > i /\ e[k].d.prefix /\ MayMove(e, k)
      /\ e[i].d.head
      /\ \A j \in 1 .. Len(e) : g[j] = k => j = i
  BY DEF Placed, MayMove
<1>2. x \in Parts /\ Moving(x) /\ x.op = "prefix" /\ x.of = k
  BY <1>1 DEF Part, Parts, Ops, Moving
<1>3. ~e[i].d.prefix
  BY <1>1, EntryType, DispatchAssumption
<1> HIDE DEF x, k
<1>4. Hosted(e, g, k) /\ Loaded(e, g, i, i, k) /\ ~Loaded(e, g, i - 1, i, k)
  <2>1. i \in 1 .. i /\ g[i] = k /\ i \in DOMAIN e
    BY DEF k
  <2>2. \A j \in 1 .. i - 1 : j \in 1 .. Len(e) /\ j # i
    OBVIOUS
  <2>3. Hosted(e, g, k)
    BY <2>1 DEF Hosted
  <2> QED BY <1>1, <2>1, <2>2, <2>3 DEF Loaded
<1>5. \A m \in 1 .. Len(e) : Loaded(e, g, i - 1, i, m) => Loaded(e, g, i, i, m)
  BY DEF Loaded
<1>6. \A m \in 1 .. Len(e) : Loaded(e, g, i, i, m) => Loaded(e, g, i - 1, i, m) \/ m = k
  <2>1. \A j \in 1 .. i : j \in 1 .. i - 1 \/ g[j] = k
    BY DEF k
  <2> QED BY <2>1 DEF Loaded
<1>7. \A p \in 1 .. Len(L) : L[p].op \in {"prefix", "body"} => L[p].of # k
  <2>1. ~(k \in 1 .. i - 1)
    BY <1>1
  <2> QED BY <1>4, <2>1 DEF Weights, Whose
<1>8. ASSUME NEW p \in 1 .. Len(L), L[p].op = "prefix",
             \A b \in 1 .. Len(L) : L[b].op = "body" => L[b].of # L[p].of
      PROVE  FALSE
  <2> DEFINE m == L[p].of
  <2>1. i \in {i - 1, i} /\ Awaits(L, p)
    BY <1>8 DEF Awaits
  <2>8. /\ Loaded(e, g, i - 1, i, m) /\ m \in 1 .. Len(e)
        /\ m = i \/ Ahead(g, i - 1, i, m)
    BY <2>1, Pending
  <2>2. /\ Loaded(e, g, i - 1, i, m) /\ m \in 1 .. Len(e)
        /\ m = i \/ (m > i /\ \E j \in 1 .. i - 1 : g[j] = m)
    BY <2>8 DEF Ahead
  <2>3. m # i /\ m # k
    <3>1. m # i
      BY <1>3, <2>2 DEF Loaded
    <3> QED BY <1>7, <1>8, <3>1
  <2>4. PICK j \in 1 .. i - 1 : g[j] = m /\ m > i
    BY <2>2, <2>3
  <2>5. j \in 1 .. Len(e) /\ j < i
    OBVIOUS
  <2> HIDE DEF m
  <2>6. CASE k < m
    <3>1. j <= k /\ k < g[j]
      BY <1>1, <2>4, <2>5, <2>6
    <3>2. ~e[k].d.prefix
      BY <1>1, <2>5, <3>1, MovedOver
    <3> QED BY <1>1, <3>2
  <2>7. CASE m < k
    <3>1. i <= m /\ m < g[i]
      BY <2>2, <2>4, <2>7 DEF k
    <3>2. ~e[m].d.prefix
      BY <2>2, <3>1, MovedOver
    <3> QED BY <2>2, <3>2 DEF Loaded
  <2> QED BY <1>1, <2>2, <2>3, <2>6, <2>7
<1>9. \A m \in 1 .. i - 1 : m \in 1 .. i - 1 \/ (x.op = "body" /\ x.of = m)
  OBVIOUS
<1>10. Weights(e, g, Append(L, x), i - 1, i, i)
  BY <1>1, <1>2, <1>4, <1>5, <1>6, <1>7, <1>8, <1>9, WeightsMoving
<1> QED BY <1>10 DEF x, k

\* Nothing to visit: the dispatches up to i have been.
LEMMA WeightsNoVisit ==
    ASSUME NEW e \in Seq(Entry), NEW g, Placed(e, g, Len(e)), NEW i \in 1 .. Len(e),
           NEW L \in Seq(Parts), Weights(e, g, L, i - 1, i - 1, i), g[i] = 0
    PROVE  Weights(e, g, L, i - 1, i, i)
<1>1. \A k \in 1 .. Len(e) : Loaded(e, g, i - 1, i, k) <=> Loaded(e, g, i, i, k)
  <2>1. \A j \in 1 .. i : j \in 1 .. i - 1 \/ g[j] = 0
    OBVIOUS
  <2>2. \A j \in 1 .. i - 1 : j \in 1 .. i
    OBVIOUS
  <2>3. \A k \in 1 .. Len(e) : k # 0
    OBVIOUS
  <2> QED BY <2>1, <2>2, <2>3 DEF Loaded
<1>2. Whose(e, g, L, i - 1, i, i)
  <2>1. \A p \in 1 .. Len(L) : L[p].op = "prefix" => L[p].of \in 1 .. Len(e)
    BY DEF Weights, Whose, Loaded
  <2> QED BY <1>1, <2>1 DEF Weights, Whose
<1>3. Present(e, g, L, i - 1, i, i)
  BY <1>1 DEF Weights, Present
<1> QED BY <1>2, <1>3 DEF Weights

\* The body of a dispatch finds the weights of its own prefix.
LEMMA WeightsBody ==
    ASSUME NEW e \in Seq(Entry), NEW g, Placed(e, g, Len(e)), NEW i \in 1 .. Len(e),
           NEW L \in Seq(Parts), Weights(e, g, L, i - 1, i, i)
    PROVE  Weights(e, g, Append(L, Part("body", i, 1)), i, i, i)
<1> DEFINE x == Part("body", i, 1)
<1>1. x \in Parts /\ Moving(x) /\ x.op = "body" /\ x.of = i
  BY DEF Part, Parts, Ops, Moving
<1> HIDE DEF x
<1>2. /\ \A p \in 1 .. Len(L) : L[p].op \in {"head", "body"} => L[p].of <= i
      /\ \A p \in 1 .. Len(L) : L[p].op = "body" => L[p].of # i
  BY DEF Weights, Whose
<1>3. ASSUME NEW p \in 1 .. Len(L), L[p].op = "prefix",
             \A b \in 1 .. Len(L) : L[b].op = "body" => L[b].of # L[p].of,
             i # L[p].of
      PROVE  ~e[i].d.spadB
  <2>2. i \in {i - 1, i} /\ Awaits(L, p)
    BY <1>3 DEF Awaits
  <2>6. L[p].of = i \/ Ahead(g, i, i, L[p].of)
    BY <2>2, Pending
  <2>3. L[p].of = i \/ (L[p].of > i /\ \E j \in 1 .. i : g[j] = L[p].of)
    BY <2>6 DEF Ahead
  <2>4. PICK j \in 1 .. i : g[j] = L[p].of /\ L[p].of > i
    BY <1>3, <2>3
  <2>5. j \in 1 .. Len(e) /\ j <= i /\ i < g[j]
    BY <2>4
  <2> QED BY <2>5, MovedOver
<1>4. /\ \A k \in 1 .. i - 1 : k \in 1 .. i
      /\ \A k \in 1 .. i : k \in 1 .. i - 1 \/ (x.op = "body" /\ x.of = k)
      /\ i \in 1 .. i
  BY <1>1
<1>5. Weights(e, g, Append(L, x), i, i, i)
  BY <1>1, <1>2, <1>3, <1>4, WeightsMoving
<1> QED BY <1>5 DEF x

\* One dispatch more.
LEMMA EmitWeights ==
    ASSUME NEW e \in Seq(Entry), NEW g, Placed(e, g, Len(e)), NEW i \in 1 .. Len(e),
           NEW s \in Lists, Weights(e, g, s.list, i - 1, i - 1, i - 1)
    PROVE  Weights(e, g, Emit(e, g, s, i).list, i, i, i)
<1> DEFINE mine == e[i].d.prefix /\ ~Hosted(e, g, i)
           early == EarlyAt(e, g, s, i)
           o1 == IF mine /\ ~early THEN i - 1 ELSE i
<1>1. g \in [1 .. Len(e) -> 0 .. Len(e)]
  BY DEF Placed
<1>2. early => mine
  BY DEF EarlyAt, Early
<1>3. s.list \in Seq(Parts)
  BY DEF Lists
<1>4. Weights(e, g, L1(e, g, s, i), i - 1, i - 1, o1)
  <2>1. CASE early
    BY <1>2, <1>3, <2>1, WeightsOwn DEF L1, Opt
  <2>2. CASE ~early /\ mine
    BY <2>2 DEF L1, Opt
  <2>3. CASE ~early /\ ~mine
    BY <1>3, <2>3, WeightsNoOwn DEF L1, Opt
  <2> QED BY <2>1, <2>2, <2>3
<1> HIDE DEF mine, early
<1>5. Weights(e, g, L2(e, g, s, i), i - 1, i - 1, o1)
  <2>1. FenceOf(MaskAt(e, s, i)) \in Parts /\ ~Moving(FenceOf(MaskAt(e, s, i)))
    BY <1>1, EmitTypes DEF FenceOf, Moving
  <2>2. L1(e, g, s, i) \in Seq(Parts)
    BY <1>1, EmitTypes
  <2> HIDE DEF o1
  <2> QED BY <1>4, <2>1, <2>2, WeightsOther DEF L2, Opt
<1>6. Weights(e, g, L3(e, g, s, i), i - 1, i - 1, o1)
  <2> DEFINE x == Part("regs", i, (e[i].d.count + 2) \div 3)
  <2>1. x \in Parts
    BY <1>1, EmitTypes
  <2>2. ~Moving(x)
    BY DEF Part, Moving
  <2>3. L2(e, g, s, i) \in Seq(Parts)
    BY <1>1, EmitTypes
  <2>4. L3(e, g, s, i) = Opt(L2(e, g, s, i), e[i].d.count # 0, x)
    BY DEF L3
  <2> HIDE DEF o1, x
  <2> QED BY <1>5, <2>1, <2>2, <2>3, <2>4, WeightsOther DEF Opt
<1>7. Weights(e, g, L4(e, g, s, i), i - 1, i - 1, i)
  <2>1. L3(e, g, s, i) \in Seq(Parts)
    BY <1>1, EmitTypes
  <2>2. OwnAt(e, g, s, i) <=> mine /\ ~early
    BY DEF OwnAt, mine, early
  <2>3. CASE mine /\ ~early
    BY <1>6, <2>1, <2>2, <2>3, WeightsOwn DEF L4, Opt, mine
  <2>4. CASE ~(mine /\ ~early)
    BY <1>6, <2>2, <2>4 DEF L4, Opt
  <2> QED BY <2>3, <2>4
<1>8. Weights(e, g, L5(e, g, s, i), i - 1, i - 1, i)
  <2>1. L4(e, g, s, i) \in Seq(Parts)
    BY <1>1, EmitTypes
  <2> QED BY <1>7, <2>1, WeightsHead DEF L5, Opt
<1>9. Weights(e, g, L6(e, g, s, i), i - 1, i, i)
  <2>1. L5(e, g, s, i) \in Seq(Parts)
    BY <1>1, EmitTypes
  <2>2. CASE g[i] # 0
    <3>1. VisitAt(e, g, i)
      BY <2>2 DEF VisitAt, Placed
    <3> QED BY <1>8, <2>1, <2>2, <3>1, WeightsVisit DEF L6, Opt
  <2>3. CASE g[i] = 0
    <3>1. ~VisitAt(e, g, i)
      BY <2>3 DEF VisitAt
    <3> QED BY <1>8, <2>1, <2>3, <3>1, WeightsNoVisit DEF L6, Opt
  <2> QED BY <2>2, <2>3
<1>10. Weights(e, g, L7(e, g, s, i), i, i, i)
  <2>1. L6(e, g, s, i) \in Seq(Parts)
    BY <1>1, EmitTypes
  <2> QED BY <1>9, <2>1, WeightsBody DEF L7
<1>11. Emit(e, g, s, i).list = L7(e, g, s, i)
  BY <1>1, EmitParts
<1> QED BY <1>10, <1>11

-----------------------------------------------------------------------------
(* The order in DDR: what the range sets of Emit stand for. *)

StoresOf(e, x) == IF x.op = "body" THEN e[x.of].d.writes ELSE {}
LoadsOf(e, x) == IF x.op = "prefix" THEN e[x.of].d.prefixReads ELSE e[x.of].d.reads

\* A FENCE for an engine after part p.
Behind(L, p, eng) == \E f \in p + 1 .. Len(L) : L[f].op = "fence" /\ eng \in L[f].mask
\* ... and before part q.
FencedIn(L, p, q, eng) == \E f \in p + 1 .. q - 1 : L[f].op = "fence" /\ eng \in L[f].mask

\* Every access since the last FENCE for its engine is in the range sets, but
\* for those of the dispatch i, which is being appended.
Tracked(e, L, rd, wr, i) ==
    \A p \in 1 .. Len(L) : Moving(L[p]) =>
        /\ Covers(rd, LoadsOf(e, L[p])) \/ Behind(L, p, "LD") \/ L[p].of = i
        /\ Covers(wr, StoresOf(e, L[p])) \/ Behind(L, p, "ST") \/ L[p].of = i

\* Only prefixes that may move are ahead of their dispatch.
Known(e, L, i) ==
    \A p \in 1 .. Len(L) : Moving(L[p]) =>
        /\ L[p].of \in 1 .. Len(e)
        /\ L[p].of > i => L[p].op = "prefix" /\ MayMove(e, L[p].of)

\* Conflicting accesses of a dispatch and an earlier one are apart.
Apart(e, L) ==
    \A p, q \in 1 .. Len(L) :
        Moving(L[p]) /\ Moving(L[q]) /\ L[p].of < L[q].of /\ e[L[q].of].barrier =>
            /\ Collides(StoresOf(e, L[p]), LoadsOf(e, L[q]) \cup StoresOf(e, L[q]))
                  => FencedIn(L, p, q, "ST")
            /\ Collides(LoadsOf(e, L[p]), StoresOf(e, L[q])) => FencedIn(L, p, q, "LD")

\* The part x may follow part p in the list L.
MayFollow(e, L, p, x) ==
    /\ Collides(StoresOf(e, L[p]), LoadsOf(e, x) \cup StoresOf(e, x)) => Behind(L, p, "ST")
    /\ Collides(LoadsOf(e, L[p]), StoresOf(e, x)) => Behind(L, p, "LD")

\* What is behind a FENCE stays behind it.
LEMMA BehindStays ==
    ASSUME NEW L \in Seq(Parts), NEW x \in Parts
    PROVE  \A p \in 1 .. Len(L), eng \in {"LD", "ST"} :
              /\ Behind(L, p, eng) => Behind(Append(L, x), p, eng)
              /\ Behind(L, p, eng) => FencedIn(Append(L, x), p, Len(L) + 1, eng)
              /\ x.op = "fence" /\ eng \in x.mask => Behind(Append(L, x), p, eng)
<1> DEFINE M == Append(L, x)
           n == Len(L)
<1>1. /\ n \in Nat /\ Len(M) = n + 1 /\ M[n + 1] = x
      /\ \A p \in 1 .. n : M[p] = L[p]
  BY Appended
<1> HIDE DEF M
<1>2. SUFFICES ASSUME NEW p \in 1 .. n, NEW eng \in {"LD", "ST"}
               PROVE  /\ Behind(L, p, eng) => Behind(M, p, eng)
                      /\ Behind(L, p, eng) => FencedIn(M, p, n + 1, eng)
                      /\ x.op = "fence" /\ eng \in x.mask => Behind(M, p, eng)
  BY DEF M
<1>3. ASSUME Behind(L, p, eng) PROVE Behind(M, p, eng) /\ FencedIn(M, p, n + 1, eng)
  <2>1. PICK f \in p + 1 .. n : L[f].op = "fence" /\ eng \in L[f].mask
    BY <1>3 DEF Behind
  <2>2. f \in 1 .. n /\ f \in p + 1 .. n + 1 /\ f \in p + 1 .. (n + 1) - 1
    BY <1>1, <2>1
  <2>3. M[f] = L[f]
    BY <1>1, <2>2
  <2> QED BY <1>1, <2>1, <2>2, <2>3 DEF Behind, FencedIn
<1>4. ASSUME x.op = "fence", eng \in x.mask PROVE Behind(M, p, eng)
  <2>1. n + 1 \in p + 1 .. n + 1
    BY <1>1
  <2> QED BY <1>1, <1>4, <2>1 DEF Behind
<1> QED BY <1>3, <1>4

\* A FENCE between two parts stays between them.
LEMMA FencedStays ==
    ASSUME NEW L \in Seq(Parts), NEW x \in Parts, NEW p \in 1 .. Len(L), NEW q \in 1 .. Len(L),
           NEW eng, FencedIn(L, p, q, eng)
    PROVE  FencedIn(Append(L, x), p, q, eng)
<1>1. PICK f \in p + 1 .. q - 1 : L[f].op = "fence" /\ eng \in L[f].mask
  BY DEF FencedIn
<1>2. f \in 1 .. Len(L)
  OBVIOUS
<1>3. Append(L, x)[f] = L[f]
  BY <1>2
<1> QED BY <1>1, <1>3 DEF FencedIn

\* No store of the list meets what a prefix that may move loads.
LEMMA MoveSafe ==
    ASSUME NEW e \in Seq(Entry), NEW k \in 1 .. Len(e), MayMove(e, k),
           NEW i \in 1 .. Len(e)
    PROVE  ~Collides(e[i].d.writes, e[k].d.prefixReads)
<1>1. Covers(WrittenAll(e), e[i].d.writes)
  BY WrittenCovers
<1>2. ~SetOverlaps(WrittenAll(e), e[k].d.prefixReads)
  BY DEF MayMove
<1> QED BY <1>1, <1>2, OverlapSeen

\* A part appended where it may follow.
LEMMA ApartMoving ==
    ASSUME NEW e \in Seq(Entry), NEW i \in 1 .. Len(e), NEW L \in Seq(Parts),
           NEW x \in Parts, Moving(x),
           x.of = i \/ (x.op = "prefix" /\ x.of \in 1 .. Len(e) /\ x.of > i /\ MayMove(e, x.of)),
           Known(e, L, i), Apart(e, L),
           \A p \in 1 .. Len(L) : Moving(L[p]) /\ L[p].of < x.of /\ e[x.of].barrier
               => MayFollow(e, L, p, x)
    PROVE  Known(e, Append(L, x), i) /\ Apart(e, Append(L, x))
<1> DEFINE M == Append(L, x)
           n == Len(L)
<1>1. /\ n \in Nat /\ Len(M) = n + 1 /\ M[n + 1] = x
      /\ \A p \in 1 .. n : M[p] = L[p]
  BY Appended
<1>2. \A p \in 1 .. n, eng \in {"LD", "ST"} : Behind(L, p, eng) => FencedIn(M, p, n + 1, eng)
  BY BehindStays
<1>3. \A p, q \in 1 .. n : \A eng : FencedIn(L, p, q, eng) => FencedIn(M, p, q, eng)
  BY FencedStays
<1> HIDE DEF M
<1>4. \A p \in 1 .. n + 1 : p \in 1 .. n \/ p = n + 1
  BY <1>1
<1>5. Known(e, M, i)
  BY <1>1, <1>4 DEF Known
<1>6. Apart(e, M)
  <2>1. SUFFICES ASSUME NEW p \in 1 .. n + 1, NEW q \in 1 .. n + 1,
                        Moving(M[p]), Moving(M[q]), M[p].of < M[q].of, e[M[q].of].barrier
                 PROVE  /\ Collides(StoresOf(e, M[p]), LoadsOf(e, M[q]) \cup StoresOf(e, M[q]))
                               => FencedIn(M, p, q, "ST")
                        /\ Collides(LoadsOf(e, M[p]), StoresOf(e, M[q]))
                               => FencedIn(M, p, q, "LD")
    BY <1>1 DEF Apart
  <2>2. CASE p \in 1 .. n /\ q \in 1 .. n
    <3>1. M[p] = L[p] /\ M[q] = L[q]
      BY <1>1, <2>2
    <3>2. /\ Collides(StoresOf(e, L[p]), LoadsOf(e, L[q]) \cup StoresOf(e, L[q]))
                => FencedIn(L, p, q, "ST")
          /\ Collides(LoadsOf(e, L[p]), StoresOf(e, L[q])) => FencedIn(L, p, q, "LD")
      BY <2>1, <2>2, <3>1 DEF Apart
    <3> QED BY <1>3, <2>2, <3>1, <3>2
  <2>3. CASE p \in 1 .. n /\ q = n + 1
    <3>1. M[p] = L[p] /\ M[q] = x
      BY <1>1, <2>3
    <3>2. MayFollow(e, L, p, x)
      BY <2>1, <2>3, <3>1
    <3> QED BY <1>2, <2>3, <3>1, <3>2 DEF MayFollow
  <2>4. CASE p = n + 1 /\ q \in 1 .. n
    <3>1. M[q] = L[q] /\ M[p] = x
      BY <1>1, <2>4
    <3>2. L[q].of \in 1 .. Len(e)
      BY <2>1, <2>4, <3>1 DEF Known
    <3>3. L[q].of > i
      BY <2>1, <3>1, <3>2
    <3>4. L[q].op = "prefix" /\ MayMove(e, L[q].of)
      BY <2>1, <2>4, <3>1, <3>3 DEF Known
    <3>5. StoresOf(e, L[q]) = {} /\ LoadsOf(e, L[q]) = e[L[q].of].d.prefixReads
      BY <3>4 DEF StoresOf, LoadsOf
    <3>6. ~Collides(StoresOf(e, x), LoadsOf(e, L[q]))
      <4>1. CASE x.op = "body"
        <5>1. x.of \in 1 .. Len(e) /\ StoresOf(e, x) = e[x.of].d.writes
          BY <4>1 DEF StoresOf
        <5> QED BY <3>2, <3>4, <3>5, <5>1, MoveSafe
      <4>2. CASE x.op # "body"
        BY <4>2 DEF StoresOf, Collides
      <4> QED BY <4>1, <4>2
    <3>7. ~Collides(LoadsOf(e, x), StoresOf(e, L[q]))
      BY <3>5 DEF Collides
    <3>8. LoadsOf(e, L[q]) \cup StoresOf(e, L[q]) = LoadsOf(e, L[q])
      BY <3>5
    <3> QED BY <3>1, <3>6, <3>7, <3>8
  <2>5. ~(p = n + 1 /\ q = n + 1)
    <3>1. x.of \in Nat
      OBVIOUS
    <3> QED BY <1>1, <2>1, <3>1
  <2> QED BY <1>4, <2>2, <2>3, <2>4, <2>5
<1> QED BY <1>5, <1>6 DEF M

\* A part that neither loads nor stores.
LEMMA ApartOther ==
    ASSUME NEW e \in Seq(Entry), NEW i \in 1 .. Len(e), NEW L \in Seq(Parts),
           NEW x \in Parts, ~Moving(x), Known(e, L, i), Apart(e, L)
    PROVE  Known(e, Append(L, x), i) /\ Apart(e, Append(L, x))
<1> DEFINE M == Append(L, x)
           n == Len(L)
<1>1. /\ n \in Nat /\ Len(M) = n + 1 /\ M[n + 1] = x
      /\ \A p \in 1 .. n : M[p] = L[p]
  BY Appended
<1>2. \A p, q \in 1 .. n : \A eng : FencedIn(L, p, q, eng) => FencedIn(M, p, q, eng)
  BY FencedStays
<1> HIDE DEF M
<1>3. \A p \in 1 .. n + 1 : Moving(M[p]) => p \in 1 .. n /\ M[p] = L[p]
  BY <1>1
<1>4. Known(e, M, i)
  BY <1>1, <1>3 DEF Known
<1>5. Apart(e, M)
  <2>1. SUFFICES ASSUME NEW p \in 1 .. n + 1, NEW q \in 1 .. n + 1,
                        Moving(M[p]), Moving(M[q]), M[p].of < M[q].of, e[M[q].of].barrier
                 PROVE  /\ Collides(StoresOf(e, M[p]), LoadsOf(e, M[q]) \cup StoresOf(e, M[q]))
                               => FencedIn(M, p, q, "ST")
                        /\ Collides(LoadsOf(e, M[p]), StoresOf(e, M[q]))
                               => FencedIn(M, p, q, "LD")
    BY <1>1 DEF Apart
  <2>2. p \in 1 .. n /\ q \in 1 .. n /\ M[p] = L[p] /\ M[q] = L[q]
    BY <1>3, <2>1
  <2>3. /\ Collides(StoresOf(e, L[p]), LoadsOf(e, L[q]) \cup StoresOf(e, L[q]))
              => FencedIn(L, p, q, "ST")
        /\ Collides(LoadsOf(e, L[p]), StoresOf(e, L[q])) => FencedIn(L, p, q, "LD")
    BY <2>1, <2>2 DEF Apart
  <2> QED BY <1>2, <2>2, <2>3
<1> QED BY <1>4, <1>5 DEF M

\* Dispatch i, after its FENCE, conflicts with no earlier access in flight.
Settled(e, L, i) ==
    \A p \in 1 .. Len(L) : Moving(L[p]) /\ L[p].of < i /\ e[i].barrier =>
        /\ Collides(StoresOf(e, L[p]), e[i].d.reads \cup e[i].d.writes) => Behind(L, p, "ST")
        /\ Collides(LoadsOf(e, L[p]), e[i].d.writes) => Behind(L, p, "LD")

\* What is settled in a list stays settled when a part of a later dispatch is
\* appended.
LEMMA RunAppend ==
    ASSUME NEW e \in Seq(Entry), NEW i \in 1 .. Len(e), NEW L \in Seq(Parts), NEW x \in Parts,
           Moving(x) => ~(x.of < i), Settled(e, L, i)
    PROVE  Settled(e, Append(L, x), i)
<1> DEFINE M == Append(L, x)
           n == Len(L)
<1>1. /\ n \in Nat /\ Len(M) = n + 1 /\ M[n + 1] = x
      /\ \A p \in 1 .. n : M[p] = L[p]
  BY Appended
<1>2. \A p \in 1 .. n, eng \in {"LD", "ST"} : Behind(L, p, eng) => Behind(M, p, eng)
  BY BehindStays
<1> HIDE DEF M
<1>3. ASSUME NEW p \in 1 .. n + 1, Moving(M[p]), M[p].of < i
      PROVE  p \in 1 .. n /\ M[p] = L[p]
  BY <1>1, <1>3
<1>4. \A p \in 1 .. n :
         /\ Behind(L, p, "ST") => Behind(M, p, "ST")
         /\ Behind(L, p, "LD") => Behind(M, p, "LD")
  BY <1>2
<1>5. Settled(e, M, i)
  BY <1>1, <1>3, <1>4 DEF Settled
<1> QED BY <1>5 DEF M

\* A part keeps the accesses tracked where the range sets already hold them or
\* it is the part of this dispatch.
LEMMA TrackedAppend ==
    ASSUME NEW e \in Seq(Entry), NEW i, NEW L \in Seq(Parts), NEW x \in Parts, NEW rd, NEW wr,
           Tracked(e, L, rd, wr, i),
           Moving(x) => /\ Covers(rd, LoadsOf(e, x)) \/ x.of = i
                        /\ Covers(wr, StoresOf(e, x)) \/ x.of = i
    PROVE  Tracked(e, Append(L, x), rd, wr, i)
<1> DEFINE M == Append(L, x)
           n == Len(L)
<1>1. /\ n \in Nat /\ Len(M) = n + 1 /\ M[n + 1] = x
      /\ \A p \in 1 .. n : M[p] = L[p]
  BY Appended
<1>2. \A p \in 1 .. n, eng \in {"LD", "ST"} : Behind(L, p, eng) => Behind(M, p, eng)
  BY BehindStays
<1> HIDE DEF M
<1>3. \A p \in 1 .. n :
         /\ Behind(L, p, "ST") => Behind(M, p, "ST")
         /\ Behind(L, p, "LD") => Behind(M, p, "LD")
  BY <1>2
<1>4. ASSUME NEW p \in 1 .. n + 1, Moving(M[p])
      PROVE  /\ Covers(rd, LoadsOf(e, M[p])) \/ Behind(M, p, "LD") \/ M[p].of = i
             /\ Covers(wr, StoresOf(e, M[p])) \/ Behind(M, p, "ST") \/ M[p].of = i
  <2>1. CASE p \in 1 .. n
    BY <1>1, <1>3, <1>4, <2>1 DEF Tracked
  <2>2. CASE p = n + 1
    BY <1>1, <1>4, <2>2
  <2> QED BY <1>1, <2>1, <2>2
<1>5. Tracked(e, M, rd, wr, i)
  BY <1>1, <1>4 DEF Tracked
<1> QED BY <1>5 DEF M

\* A part of the dispatch that is being appended.
LEMMA OrderOwn ==
    ASSUME NEW e \in Seq(Entry), NEW i \in 1 .. Len(e), NEW L \in Seq(Parts),
           NEW x \in Parts, Moving(x), x.of = i, NEW rd, NEW wr,
           Known(e, L, i), Apart(e, L), Tracked(e, L, rd, wr, i), Settled(e, L, i)
    PROVE  LET M == Append(L, x) IN
           /\ Known(e, M, i) /\ Apart(e, M) /\ Tracked(e, M, rd, wr, i) /\ Settled(e, M, i)
<1>1. /\ LoadsOf(e, x) \subseteq e[i].d.reads
      /\ StoresOf(e, x) \subseteq e[i].d.writes
  <2>1. e[i].d.prefixReads \subseteq e[i].d.reads
    BY EntryType, RangesOf
  <2> QED BY <2>1 DEF LoadsOf, StoresOf
<1>2. ASSUME NEW p \in 1 .. Len(L), Moving(L[p]), L[p].of < x.of, e[x.of].barrier
      PROVE  MayFollow(e, L, p, x)
  <2>1. /\ Collides(StoresOf(e, L[p]), e[i].d.reads \cup e[i].d.writes) => Behind(L, p, "ST")
        /\ Collides(LoadsOf(e, L[p]), e[i].d.writes) => Behind(L, p, "LD")
    BY <1>2 DEF Settled
  <2>2. /\ Collides(StoresOf(e, L[p]), LoadsOf(e, x) \cup StoresOf(e, x))
              => Collides(StoresOf(e, L[p]), e[i].d.reads \cup e[i].d.writes)
        /\ Collides(LoadsOf(e, L[p]), StoresOf(e, x)) => Collides(LoadsOf(e, L[p]), e[i].d.writes)
    BY <1>1 DEF Collides
  <2> QED BY <2>1, <2>2 DEF MayFollow
<1>3. Known(e, Append(L, x), i) /\ Apart(e, Append(L, x))
  BY <1>2, ApartMoving
<1>4. Tracked(e, Append(L, x), rd, wr, i)
  BY TrackedAppend
<1>5. Settled(e, Append(L, x), i)
  BY RunAppend
<1> QED BY <1>3, <1>4, <1>5

\* The prefix that goes before the FENCE of its dispatch.
LEMMA OrderEarly ==
    ASSUME NEW e \in Seq(Entry), NEW g \in [1 .. Len(e) -> 0 .. Len(e)], NEW i \in 1 .. Len(e),
           NEW s \in Lists, Known(e, s.list, i), Apart(e, s.list),
           Tracked(e, s.list, s.reads, s.writes, 0)
    PROVE  LET L == L1(e, g, s, i)
               r == R1(e, g, s, i)
           IN  Known(e, L, i) /\ Apart(e, L) /\ Tracked(e, L, r.reads, r.writes, 0)
<1> DEFINE x == Part("prefix", i, 2)
           d == e[i].d
<1>1. CASE EarlyAt(e, g, s, i)
  <2>1. /\ x \in Parts /\ x.op = "prefix" /\ x.of = i /\ Moving(x)
        /\ s.list \in Seq(Parts) /\ s.reads \in RangeSets
    BY EmitTypes DEF Part, Moving, Lists
  <2> HIDE DEF x
  <2>2. LoadsOf(e, x) = d.prefixReads /\ StoresOf(e, x) = {}
    BY <2>1 DEF LoadsOf, StoresOf
  <2>3. ~SetOverlaps(s.writes, d.prefixReads)
    BY <1>1 DEF EarlyAt, Early
  <2>4. ASSUME NEW p \in 1 .. Len(s.list), Moving(s.list[p])
        PROVE  MayFollow(e, s.list, p, x)
    <3>1. Covers(s.writes, StoresOf(e, s.list[p])) \/ Behind(s.list, p, "ST")
      <4>1. s.list[p].of # 0
        BY <2>4 DEF Known
      <4> QED BY <2>4, <4>1 DEF Tracked
    <3>2. Covers(s.writes, StoresOf(e, s.list[p]))
             => ~Collides(StoresOf(e, s.list[p]), d.prefixReads)
      BY <2>3, OverlapSeen
    <3>3. /\ ~Collides(LoadsOf(e, s.list[p]), StoresOf(e, x))
          /\ LoadsOf(e, x) \cup StoresOf(e, x) = d.prefixReads
      BY <2>2 DEF Collides
    <3> QED BY <3>1, <3>2, <3>3 DEF MayFollow
  <2>5. Known(e, Append(s.list, x), i) /\ Apart(e, Append(s.list, x))
    BY <2>1, <2>4, ApartMoving
  <2> DEFINE rd == SetAdd(s.reads, d.prefixReads)
  <2>6. /\ Covers(rd, d.prefixReads)
        /\ \A Q : Covers(s.reads, Q) => Covers(rd, Q)
    <3>1. d.prefixReads \in SUBSET Spans /\ Cardinality(d.prefixReads) \in Nat
      BY EntryType, RangesOf
    <3> QED BY <2>1, <3>1, SetAddCovers
  <2> HIDE DEF rd
  <2>7. Tracked(e, s.list, rd, s.writes, 0)
    BY <2>6 DEF Tracked
  <2>8. Covers(rd, LoadsOf(e, x)) /\ Covers(s.writes, StoresOf(e, x))
    BY <2>2, <2>6 DEF Covers
  <2>9. Tracked(e, Append(s.list, x), rd, s.writes, 0)
    BY <2>1, <2>7, <2>8, TrackedAppend
  <2>10. /\ L1(e, g, s, i) = Append(s.list, x)
         /\ R1(e, g, s, i).reads = rd /\ R1(e, g, s, i).writes = s.writes
    BY <1>1 DEF L1, Opt, R1, rd, x, Lists
  <2> QED BY <2>5, <2>9, <2>10
<1>2. CASE ~EarlyAt(e, g, s, i)
  BY <1>2 DEF L1, Opt, R1
<1> QED BY <1>1, <1>2

\* The FENCE of dispatch i waits for every engine with a conflicting access.
LEMMA OrderFence ==
    ASSUME NEW e \in Seq(Entry), NEW g \in [1 .. Len(e) -> 0 .. Len(e)], NEW i \in 1 .. Len(e),
           NEW s \in Lists, Known(e, s.list, i), Apart(e, s.list),
           Tracked(e, s.list, s.reads, s.writes, 0)
    PROVE  LET L == L2(e, g, s, i)
               r == R2(e, g, s, i)
           IN  /\ Known(e, L, i) /\ Apart(e, L) /\ Tracked(e, L, r.reads, r.writes, 0)
               /\ Settled(e, L, i)
<1> DEFINE A == L1(e, g, s, i)
           L == L2(e, g, s, i)
           q == R1(e, g, s, i)
           r == R2(e, g, s, i)
           M == MaskAt(e, s, i)
           x == FenceOf(M)
           d == e[i].d
           n == Len(s.list)
<1>1. /\ Known(e, A, i) /\ Apart(e, A) /\ Tracked(e, A, q.reads, q.writes, 0)
      /\ A \in Seq(Parts) /\ x \in Parts /\ s.list \in Seq(Parts)
      /\ Part("prefix", i, 2) \in Parts
  <2>1. Known(e, A, i) /\ Apart(e, A) /\ Tracked(e, A, q.reads, q.writes, 0)
    BY OrderEarly
  <2>2. A \in Seq(Parts) /\ x \in Parts /\ Part("prefix", i, 2) \in Parts
    BY EmitTypes
  <2>3. s.list \in Seq(Parts)
    BY DEF Lists
  <2> QED BY <2>1, <2>2, <2>3
<1>2. /\ x.op = "fence" /\ x.mask = M /\ ~Moving(x) /\ M \subseteq {"LD", "ST"}
      /\ L = Opt(A, M # {}, x)
  BY MaskType DEF FenceOf, Moving, L2
<1>3. /\ r.reads = (IF "LD" \in M THEN NoRanges ELSE q.reads)
      /\ r.writes = (IF "ST" \in M THEN NoRanges ELSE q.writes)
  <2>1. q \in Lists
    BY EmitTypes
  <2> QED BY <2>1 DEF R2, Pass, Lists
<1> HIDE DEF A, q, r, x, M, L
<1>4. Known(e, L, i) /\ Apart(e, L)
  BY <1>1, <1>2, ApartOther DEF Opt
\* Nothing is in flight past the FENCE on an engine it names.
<1>5. /\ Len(L) >= Len(A) /\ L \in Seq(Parts)
      /\ \A p \in 1 .. Len(L) : Moving(L[p]) => p \in 1 .. Len(A) /\ L[p] = A[p]
      /\ \A p \in 1 .. Len(A) : \A eng \in {"LD", "ST"} :
            Behind(A, p, eng) \/ eng \in M => Behind(L, p, eng)
  <2>1. CASE M = {}
    <3>1. L = A
      BY <1>2, <2>1 DEF Opt
    <3> QED BY <1>1, <2>1, <3>1
  <2>2. CASE M # {}
    <3>1. L = Append(A, x)
      BY <1>2, <2>2 DEF Opt
    <3>2. /\ Len(A) \in Nat /\ Len(L) = Len(A) + 1 /\ L[Len(A) + 1] = x /\ L \in Seq(Parts)
          /\ \A p \in 1 .. Len(A) : L[p] = A[p]
      BY <1>1, <3>1, Appended
    <3>3. \A p \in 1 .. Len(A) : \A eng \in {"LD", "ST"} :
             /\ Behind(A, p, eng) => Behind(L, p, eng)
             /\ x.op = "fence" /\ eng \in x.mask => Behind(L, p, eng)
      BY <1>1, <3>1, BehindStays
    <3>4. ASSUME NEW p \in 1 .. Len(L), Moving(L[p]) PROVE p \in 1 .. Len(A) /\ L[p] = A[p]
      BY <1>2, <3>2, <3>4
    <3> QED BY <1>2, <3>2, <3>3, <3>4
  <2> QED BY <2>1, <2>2
<1>6. Tracked(e, L, r.reads, r.writes, 0)
  <2>1. SUFFICES ASSUME NEW p \in 1 .. Len(L), Moving(L[p])
                 PROVE  /\ Covers(r.reads, LoadsOf(e, L[p])) \/ Behind(L, p, "LD")
                        /\ Covers(r.writes, StoresOf(e, L[p])) \/ Behind(L, p, "ST")
    BY DEF Tracked
  <2>2. p \in 1 .. Len(A) /\ L[p] = A[p] /\ L[p].of # 0
    <3>1. p \in 1 .. Len(A) /\ L[p] = A[p]
      BY <1>5, <2>1
    <3>2. L[p].of \in 1 .. Len(e)
      BY <1>4, <2>1 DEF Known
    <3> QED BY <3>1, <3>2
  <2>3. /\ Covers(q.reads, LoadsOf(e, L[p])) \/ Behind(A, p, "LD")
        /\ Covers(q.writes, StoresOf(e, L[p])) \/ Behind(A, p, "ST")
    BY <1>1, <2>1, <2>2 DEF Tracked
  <2>4. \A eng \in {"LD", "ST"} : Behind(A, p, eng) \/ eng \in M => Behind(L, p, eng)
    BY <1>5, <2>2
  <2>5. /\ Behind(A, p, "LD") \/ "LD" \in M => Behind(L, p, "LD")
        /\ Behind(A, p, "ST") \/ "ST" \in M => Behind(L, p, "ST")
    BY <2>4
  <2> QED BY <1>3, <2>3, <2>5
<1>7. Settled(e, L, i)
  <2>1. SUFFICES ASSUME NEW p \in 1 .. Len(L), Moving(L[p]), L[p].of < i, e[i].barrier
                 PROVE  /\ Collides(StoresOf(e, L[p]), d.reads \cup d.writes) => Behind(L, p, "ST")
                        /\ Collides(LoadsOf(e, L[p]), d.writes) => Behind(L, p, "LD")
    BY DEF Settled
  <2>2. p \in 1 .. Len(A) /\ L[p] = A[p] /\ L[p].of \in 1 .. Len(e)
    <3>1. p \in 1 .. Len(A) /\ L[p] = A[p]
      BY <1>5, <2>1
    <3>2. L[p].of \in 1 .. Len(e)
      BY <1>4, <2>1 DEF Known
    <3> QED BY <3>1, <3>2
  <2>3. M = FenceMask(s, d) /\ i > 1
    BY <2>1, <2>2 DEF M, MaskAt
  <2>4. p \in 1 .. n /\ L[p] = s.list[p]
    <3>1. CASE EarlyAt(e, g, s, i)
      <4>1. A = Append(s.list, Part("prefix", i, 2))
        BY <3>1 DEF A, L1, Opt
      <4>2. /\ n \in Nat /\ Len(A) = n + 1 /\ A[n + 1] = Part("prefix", i, 2)
            /\ \A k \in 1 .. n : A[k] = s.list[k]
        BY <1>1, <4>1, Appended
      <4>3. Part("prefix", i, 2).of = i
        BY DEF Part
      <4>4. p # n + 1
        BY <2>1, <2>2, <4>2, <4>3
      <4> QED BY <2>2, <4>2, <4>4
    <3>2. CASE ~EarlyAt(e, g, s, i)
      <4>1. A = s.list
        BY <3>2 DEF A, L1, Opt
      <4> QED BY <2>2, <4>1
    <3> QED BY <3>1, <3>2
  <2>5. /\ Covers(s.reads, LoadsOf(e, L[p])) \/ Behind(s.list, p, "LD")
        /\ Covers(s.writes, StoresOf(e, L[p])) \/ Behind(s.list, p, "ST")
    <3>1. L[p].of # 0
      BY <2>2
    <3> QED BY <2>1, <2>4, <3>1 DEF Tracked
  <2>6. /\ Behind(s.list, p, "LD") \/ "LD" \in M => Behind(L, p, "LD")
        /\ Behind(s.list, p, "ST") \/ "ST" \in M => Behind(L, p, "ST")
    <3>1. \A eng \in {"LD", "ST"} : Behind(s.list, p, eng) => Behind(A, p, eng)
      <4>1. CASE EarlyAt(e, g, s, i)
        <5>1. A = Append(s.list, Part("prefix", i, 2))
          BY <4>1 DEF A, L1, Opt
        <5> QED BY <1>1, <2>4, <5>1, BehindStays
      <4>2. CASE ~EarlyAt(e, g, s, i)
        BY <4>2 DEF A, L1, Opt
      <4> QED BY <4>1, <4>2
    <3>2. \A eng \in {"LD", "ST"} : Behind(A, p, eng) \/ eng \in M => Behind(L, p, eng)
      BY <1>5, <2>2
    <3> QED BY <3>1, <3>2
  <2>7. ASSUME Collides(StoresOf(e, L[p]), d.reads \cup d.writes) PROVE Behind(L, p, "ST")
    <3>1. Collides(StoresOf(e, L[p]), d.reads) \/ Collides(StoresOf(e, L[p]), d.writes)
      BY <2>7 DEF Collides
    <3>2. Covers(s.writes, StoresOf(e, L[p])) =>
             SetOverlaps(s.writes, d.reads) \/ SetOverlaps(s.writes, d.writes)
      BY <3>1, OverlapSeen
    <3>3. Covers(s.writes, StoresOf(e, L[p])) => "ST" \in M
      BY <2>3, <3>2 DEF FenceMask
    <3> QED BY <2>5, <2>6, <3>3
  <2>8. ASSUME Collides(LoadsOf(e, L[p]), d.writes) PROVE Behind(L, p, "LD")
    <3>1. Covers(s.reads, LoadsOf(e, L[p])) => SetOverlaps(s.reads, d.writes)
      BY <2>8, OverlapSeen
    <3>2. Covers(s.reads, LoadsOf(e, L[p])) => "LD" \in M
      BY <2>3, <3>1 DEF FenceMask
    <3> QED BY <2>5, <2>6, <3>2
  <2> QED BY <2>7, <2>8
<1> QED BY <1>4, <1>6, <1>7 DEF L, r

\* The prefix of a later dispatch, which no dispatch of the list writes to.
LEMMA OrderVisit ==
    ASSUME NEW e \in Seq(Entry), NEW i \in 1 .. Len(e), NEW k \in 1 .. Len(e), k > i,
           MayMove(e, k), NEW L \in Seq(Parts), NEW rd \in RangeSets, NEW wr,
           Known(e, L, i), Apart(e, L), Tracked(e, L, rd, wr, i), Settled(e, L, i)
    PROVE  LET M == Append(L, Part("prefix", k, 2))
               r == SetAdd(rd, e[k].d.prefixReads)
           IN  /\ r \in RangeSets
               /\ Known(e, M, i) /\ Apart(e, M) /\ Tracked(e, M, r, wr, i) /\ Settled(e, M, i)
<1> DEFINE x == Part("prefix", k, 2)
           r == SetAdd(rd, e[k].d.prefixReads)
<1>1. x \in Parts /\ x.op = "prefix" /\ x.of = k /\ Moving(x)
  <2>1. "prefix" \in Ops /\ k \in Nat /\ 2 \in Nat
    BY DEF Ops
  <2> QED BY <2>1, PartType DEF Part, Moving
<1> HIDE DEF x
<1>2. LoadsOf(e, x) = e[k].d.prefixReads /\ StoresOf(e, x) = {}
  BY <1>1 DEF LoadsOf, StoresOf
<1>3. /\ r \in RangeSets /\ Covers(r, e[k].d.prefixReads)
      /\ \A Q : Covers(rd, Q) => Covers(r, Q)
  <2>1. e[k].d.prefixReads \in SUBSET Spans /\ Cardinality(e[k].d.prefixReads) \in Nat
    BY EntryType, RangesOf
  <2> QED BY <2>1, SetAddCovers
<1> HIDE DEF r
<1>4. ASSUME NEW p \in 1 .. Len(L), Moving(L[p])
      PROVE  MayFollow(e, L, p, x)
  <2>1. L[p].of \in 1 .. Len(e)
    BY <1>4 DEF Known
  <2>2. ~Collides(StoresOf(e, L[p]), e[k].d.prefixReads)
    <3>1. CASE L[p].op = "body"
      BY <2>1, <3>1, MoveSafe DEF StoresOf
    <3>2. CASE L[p].op # "body"
      BY <3>2 DEF StoresOf, Collides
    <3> QED BY <3>1, <3>2
  <2>3. /\ ~Collides(LoadsOf(e, L[p]), StoresOf(e, x))
        /\ LoadsOf(e, x) \cup StoresOf(e, x) = e[k].d.prefixReads
    BY <1>2 DEF Collides
  <2> QED BY <2>2, <2>3 DEF MayFollow
<1>5. Known(e, Append(L, x), i) /\ Apart(e, Append(L, x))
  BY <1>1, <1>4, ApartMoving
<1>6. Tracked(e, L, r, wr, i)
  BY <1>3 DEF Tracked
<1>7. Covers(r, LoadsOf(e, x)) /\ Covers(wr, StoresOf(e, x))
  BY <1>2, <1>3 DEF Covers
<1>8. Tracked(e, Append(L, x), r, wr, i)
  BY <1>1, <1>6, <1>7, TrackedAppend
<1>9. Settled(e, Append(L, x), i)
  BY <1>1, RunAppend
<1> QED BY <1>3, <1>5, <1>8, <1>9 DEF x, r

\* One dispatch more: the list is still in order.
LEMMA EmitOrder ==
    ASSUME NEW e \in Seq(Entry), NEW g, Placed(e, g, Len(e)), NEW i \in 1 .. Len(e),
           NEW s \in Lists, Known(e, s.list, i - 1), Apart(e, s.list),
           Tracked(e, s.list, s.reads, s.writes, 0)
    PROVE  LET t == Emit(e, g, s, i) IN
           Known(e, t.list, i) /\ Apart(e, t.list) /\ Tracked(e, t.list, t.reads, t.writes, 0)
<1> DEFINE InOrder(L, r) == /\ Known(e, L, i) /\ Apart(e, L)
                            /\ Tracked(e, L, r.reads, r.writes, i) /\ Settled(e, L, i)
           q == R2(e, g, s, i)
           r == R3(e, g, s, i)
           d == e[i].d
<1>1. g \in [1 .. Len(e) -> 0 .. Len(e)]
  BY DEF Placed
<1>2. Known(e, s.list, i)
  <2>1. ASSUME NEW p \in 1 .. Len(s.list), Moving(s.list[p]), s.list[p].of > i
        PROVE  s.list[p].op = "prefix" /\ MayMove(e, s.list[p].of)
    <3>1. s.list[p].of \in 1 .. Len(e)
      BY <2>1 DEF Known
    <3>2. s.list[p].of > i - 1
      BY <2>1, <3>1
    <3> QED BY <2>1, <3>2 DEF Known
  <2> QED BY <2>1 DEF Known
<1>3. InOrder(L2(e, g, s, i), q)
  <2>1. LET L == L2(e, g, s, i) IN
        Known(e, L, i) /\ Apart(e, L) /\ Tracked(e, L, q.reads, q.writes, 0) /\ Settled(e, L, i)
    BY <1>1, <1>2, OrderFence
  <2> HIDE DEF q
  <2>2. ASSUME NEW p \in 1 .. Len(L2(e, g, s, i)), Moving(L2(e, g, s, i)[p])
        PROVE  L2(e, g, s, i)[p].of # 0
    BY <2>1, <2>2 DEF Known
  <2>3. Tracked(e, L2(e, g, s, i), q.reads, q.writes, i)
    BY <2>1, <2>2 DEF Tracked
  <2> QED BY <2>1, <2>3
<1> HIDE DEF q, r
<1>4. InOrder(L3(e, g, s, i), q)
  <2> DEFINE x == Part("regs", i, (e[i].d.count + 2) \div 3)
             A == L2(e, g, s, i)
             c == e[i].d.count # 0
  <2>1. x \in Parts /\ A \in Seq(Parts)
    BY <1>1, EmitTypes
  <2>2. ~Moving(x)
    BY DEF Part, Moving
  <2>3. L3(e, g, s, i) = Opt(A, c, x)
    BY DEF L3
  <2> HIDE DEF x, A, c
  <2>4. InOrder(A, q)
    BY <1>3 DEF A
  <2>5. Known(e, Append(A, x), i) /\ Apart(e, Append(A, x))
    BY <2>1, <2>2, <2>4, ApartOther
  <2>6. Tracked(e, Append(A, x), q.reads, q.writes, i)
    BY <2>1, <2>2, <2>4, TrackedAppend
  <2>7. Settled(e, Append(A, x), i)
    BY <2>1, <2>2, <2>4, RunAppend
  <2> QED BY <2>3, <2>4, <2>5, <2>6, <2>7 DEF Opt
<1>5. ASSUME NEW L \in Seq(Parts), NEW x \in Parts, Moving(x), x.of = i, InOrder(L, q)
      PROVE  InOrder(Append(L, x), q)
  BY <1>5, OrderOwn
<1>6. /\ Part("prefix", i, 2) \in Parts /\ Moving(Part("prefix", i, 2))
      /\ Part("prefix", i, 2).of = i
      /\ Part("head", i, 1) \in Parts /\ Moving(Part("head", i, 1)) /\ Part("head", i, 1).of = i
      /\ Part("body", i, 1) \in Parts /\ Moving(Part("body", i, 1)) /\ Part("body", i, 1).of = i
  BY <1>1, EmitTypes DEF Part, Moving
<1>7. InOrder(L4(e, g, s, i), q)
  <2>1. L3(e, g, s, i) \in Seq(Parts)
    BY <1>1, EmitTypes
  <2> HIDE DEF InOrder
  <2> QED BY <1>4, <1>5, <1>6, <2>1 DEF L4, Opt
<1>8. InOrder(L5(e, g, s, i), q)
  <2>1. L4(e, g, s, i) \in Seq(Parts)
    BY <1>1, EmitTypes
  <2> HIDE DEF InOrder
  <2> QED BY <1>5, <1>6, <1>7, <2>1 DEF L5, Opt
<1>9. InOrder(L6(e, g, s, i), r)
  <2>1. L5(e, g, s, i) \in Seq(Parts) /\ q \in Lists
    BY <1>1, EmitTypes DEF q
  <2>2. CASE VisitAt(e, g, i)
    <3> DEFINE k == g[i]
    <3>1. k \in 1 .. Len(e) /\ k > i /\ MayMove(e, k)
      BY <1>1, <2>2 DEF VisitAt, Placed
    <3>2. L6(e, g, s, i) = Append(L5(e, g, s, i), Part("prefix", k, 2))
      BY <2>2 DEF L6, Opt
    <3>3. q.reads \in RangeSets
      BY <2>1 DEF Lists
    <3>4. r.reads = SetAdd(q.reads, e[k].d.prefixReads) /\ r.writes = q.writes
      BY <2>1, <2>2 DEF r, R3, q, Lists
    <3> HIDE DEF k
    <3> QED BY <1>8, <2>1, <3>1, <3>2, <3>3, <3>4, OrderVisit
  <2>3. CASE ~VisitAt(e, g, i)
    BY <1>8, <2>3 DEF L6, Opt, r, R3, q
  <2> QED BY <2>2, <2>3
<1>10. LET L == Append(L6(e, g, s, i), Part("body", i, 1)) IN
       Known(e, L, i) /\ Apart(e, L) /\ Tracked(e, L, r.reads, r.writes, i)
  <2>1. L6(e, g, s, i) \in Seq(Parts)
    BY <1>1, EmitTypes
  <2> QED BY <1>6, <1>9, <2>1, OrderOwn
<1> DEFINE L == L7(e, g, s, i)
           rd == SetAdd(r.reads, d.reads)
           wr == SetAdd(r.writes, d.writes)
<1>11. Known(e, L, i) /\ Apart(e, L) /\ Tracked(e, L, r.reads, r.writes, i)
  BY <1>10 DEF L7
<1>12. /\ Covers(rd, d.reads) /\ \A Q : Covers(r.reads, Q) => Covers(rd, Q)
       /\ Covers(wr, d.writes) /\ \A Q : Covers(r.writes, Q) => Covers(wr, Q)
  <2>1. r.reads \in RangeSets /\ r.writes \in RangeSets
    BY <1>1, EmitTypes DEF r, Lists
  <2>2. /\ d.reads \in SUBSET Spans /\ Cardinality(d.reads) \in Nat
        /\ d.writes \in SUBSET Spans /\ Cardinality(d.writes) \in Nat
    BY EntryType, RangesOf
  <2> HIDE DEF d
  <2> QED BY <2>1, <2>2, SetAddCovers
<1>13. d.prefixReads \subseteq d.reads
  BY EntryType, RangesOf
<1>14. Emit(e, g, s, i).list = L /\ Emit(e, g, s, i).reads = rd /\ Emit(e, g, s, i).writes = wr
  BY <1>1, EmitParts DEF r
<1> HIDE DEF L, rd, wr
<1>15. Tracked(e, L, rd, wr, 0)
  <2>1. SUFFICES ASSUME NEW p \in 1 .. Len(L), Moving(L[p])
                 PROVE  /\ Covers(rd, LoadsOf(e, L[p])) \/ Behind(L, p, "LD")
                        /\ Covers(wr, StoresOf(e, L[p])) \/ Behind(L, p, "ST")
    BY DEF Tracked
  <2>2. CASE L[p].of = i
    <3>1. LoadsOf(e, L[p]) \subseteq d.reads /\ StoresOf(e, L[p]) \subseteq d.writes
      BY <1>13, <2>2 DEF LoadsOf, StoresOf
    <3> QED BY <1>12, <3>1 DEF Covers
  <2>3. CASE L[p].of # i
    BY <1>11, <1>12, <2>1, <2>3 DEF Tracked
  <2> QED BY <2>2, <2>3
<1> QED BY <1>11, <1>14, <1>15

-----------------------------------------------------------------------------
(* The list of a whole batch. *)

\* What sa_context_batch_add counted for the batch.
Needs(e) == Descriptors([i \in 1 .. Len(e) |-> [size |-> Need(e[i].d)]])

\* What the dispatches may need is a sequence of sizes.
LEMMA NeedType ==
    ASSUME NEW e \in Seq(Entry)
    PROVE  [i \in 1 .. Len(e) |-> [size |-> Need(e[i].d)]] \in Seq(Sized)
<1>1. ASSUME NEW i \in 1 .. Len(e) PROVE Need(e[i].d) \in Nat
  <2>1. e[i].d.count \in 0 .. 24
    BY EntryType, DispatchAssumption
  <2>2. (e[i].d.count + 3) \div 3 \in Nat
    BY <2>1, RegsSize
  <2> QED BY <2>2 DEF Need
<1>2. \A i \in 1 .. Len(e) : [size |-> Need(e[i].d)] \in Sized
  BY <1>1 DEF Sized
<1>3. Len(e) \in Nat
  OBVIOUS
<1> QED BY <1>2, <1>3

\* One dispatch more needs what it needs.
LEMMA NeedsAppend ==
    ASSUME NEW e \in Seq(Entry), NEW x \in Entry
    PROVE  /\ Needs(e) \in Nat /\ Need(x.d) \in Nat
           /\ Needs(Append(e, x)) = Needs(e) + Need(x.d)
<1> DEFINE A == [i \in 1 .. Len(e) |-> [size |-> Need(e[i].d)]]
           m == Append(e, x)
           B == [i \in 1 .. Len(m) |-> [size |-> Need(m[i].d)]]
           y == [size |-> Need(x.d)]
<1>1. /\ m \in Seq(Entry) /\ Len(e) \in Nat /\ Len(m) = Len(e) + 1 /\ m[Len(e) + 1] = x
      /\ \A i \in 1 .. Len(e) : m[i] = e[i]
  OBVIOUS
<1> HIDE DEF m
<1>2. A \in Seq(Sized) /\ B \in Seq(Sized)
  BY <1>1, NeedType
<1>3. Len(e) + 1 \in 1 .. Len(m) /\ Len(B) = Len(m)
  BY <1>1
<1>4. y \in Sized /\ Need(x.d) \in Nat
  <2>1. B[Len(e) + 1] \in Sized
    BY <1>2, <1>3
  <2>2. B[Len(e) + 1] = y
    BY <1>1, <1>3
  <2> QED BY <2>1, <2>2 DEF Sized
<1>5. B = Append(A, y)
  <2>1. Append(A, y) \in Seq(Sized) /\ Len(A) = Len(e) /\ Len(Append(A, y)) = Len(e) + 1
    BY <1>1, <1>2, <1>4
  <2>2. ASSUME NEW i \in 1 .. Len(e) + 1 PROVE B[i] = Append(A, y)[i]
    <3>1. CASE i = Len(e) + 1
      BY <1>1, <2>1, <3>1
    <3>2. CASE i # Len(e) + 1
      <4>1. i \in 1 .. Len(e) /\ i \in 1 .. Len(m)
        BY <1>1, <3>2
      <4>2. Append(A, y)[i] = A[i]
        BY <2>1, <4>1
      <4>3. A[i] = [size |-> Need(e[i].d)] /\ B[i] = [size |-> Need(m[i].d)]
        BY <4>1
      <4> HIDE DEF A, B
      <4> QED BY <1>1, <4>1, <4>2, <4>3
    <3> QED BY <3>1, <3>2
  <2>3. Len(B) = Len(e) + 1
    BY <1>1, <1>3
  <2> HIDE DEF A, B, y
  <2> QED BY <1>1, <1>2, <2>1, <2>2, <2>3, SeqEqual
<1> HIDE DEF A, B
<1>6. \A z \in Sized : z.size \in Nat
  BY DEF Sized
<1>7. Descriptors(A) \in Nat /\ Descriptors(B) = Descriptors(A) + y.size
  BY <1>2, <1>4, <1>5, <1>6, DescriptorsAppend
<1> QED BY <1>4, <1>7 DEF Needs, A, B, m

\* What the proofs say of the list L of a batch e.
Right(e, L) ==
    /\ L \in Seq(Parts)
    /\ Weights(e, Guests(e), L, Len(e), Len(e), Len(e))
    /\ Apart(e, L)
    /\ Descriptors(L) <= Needs(e) + 1

\* The list that is built is right, for every sequence of entries.
LEMMA BuildRight ==
    ASSUME NEW e \in Seq(Entry)
    PROVE  Right(e, Build(e)) /\ Build(e) # <<>>
<1> DEFINE n == Len(e)
           g == Guests(e)
           start == [list |-> <<>>, reads |-> NoRanges, writes |-> NoRanges]
           step == [k \in 1 .. Len(e) |-> [s \in Lists |-> Emit(e, Guests(e), s, k)]]
           A == [i \in 1 .. Len(e) |-> [size |-> Need(e[i].d)]]
           built == CHOOSE f : f = [k \in 0 .. Len(e) |->
                       IF k = 0 THEN [list |-> <<>>, reads |-> NoRanges, writes |-> NoRanges]
                       ELSE Emit(e, Guests(e), f[k - 1], k)]
<1>1. n \in Nat /\ Placed(e, g, n)
  BY GuestsPlaced
<1>2. g \in [1 .. n -> 0 .. n]
  BY <1>1 DEF Placed
<1> HIDE DEF g
<1>3. start \in Lists
  <2>1. <<>> \in Seq(Parts)
    OBVIOUS
  <2> QED BY <2>1, NoRangesType DEF Lists
<1>4. \A k \in 1 .. n : \A s \in Lists : Emit(e, g, s, k) \in Lists
  BY <1>2, EmitParts
<1>5. step \in [1 .. n -> [Lists -> Lists]]
  BY <1>4 DEF g
<1>6. \E f \in [0 .. n -> Lists] : Recurs(f, n, start, step)
  <2> HIDE DEF step, built, n, start
  <2> QED BY <1>1, <1>3, <1>5, Recursion, Zenon
<1>7. PICK f \in [0 .. n -> Lists] :
         f[0] = start /\ \A k \in 1 .. n : f[k] = step[k][f[k - 1]]
  BY <1>6 DEF Recurs
<1>8. f = [k \in 0 .. n |-> IF k = 0 THEN start ELSE Emit(e, Guests(e), f[k - 1], k)]
  <2>1. ASSUME NEW k \in 1 .. n PROVE f[k] = Emit(e, Guests(e), f[k - 1], k)
    <3>1. k - 1 \in 0 .. n /\ f[k - 1] \in Lists
      BY <1>1
    <3> HIDE DEF start
    <3>2. step[k][f[k - 1]] = Emit(e, Guests(e), f[k - 1], k)
      BY <3>1
    <3> QED BY <1>7, <3>2
  <2> HIDE DEF start, step
  <2> QED BY <1>1, <1>7, <2>1
<1>9. built = [k \in 0 .. n |-> IF k = 0 THEN start ELSE Emit(e, g, built[k - 1], k)]
  BY <1>8 DEF g
<1>10. Build(e) = built[n].list \o EndPart
  BY DEF Build
<1> HIDE DEF built, step, start
<1>11. PICK sum \in [0 .. n -> Nat] :
          /\ sum[0] = 0
          /\ \A k \in 1 .. n : sum[k] = sum[k - 1] + Need(e[k].d)
          /\ Needs(e) = sum[n]
  <2>1. A \in Seq(Sized) /\ Len(A) = n /\ \A x \in Sized : x.size \in Nat
    BY NeedType DEF Sized
  <2>2. \A k \in 1 .. n : A[k].size = Need(e[k].d)
    OBVIOUS
  <2> HIDE DEF A
  <2>3. \E s \in [0 .. Len(A) -> Nat] :
           /\ s[0] = 0
           /\ \A k \in 1 .. Len(A) : s[k] = s[k - 1] + A[k].size
           /\ Descriptors(A) = s[Len(A)]
    BY <2>1, DescriptorsSum
  <2>4. Needs(e) = Descriptors(A)
    BY DEF Needs, A
  <2> HIDE DEF n
  <2> QED BY <2>1, <2>2, <2>3, <2>4
<1> DEFINE Good(s, k) ==
             /\ s \in Lists
             /\ Weights(e, g, s.list, k, k, k)
             /\ Known(e, s.list, k) /\ Apart(e, s.list)
             /\ Tracked(e, s.list, s.reads, s.writes, 0)
             /\ Descriptors(s.list) <= sum[k]
           T == {k \in 0 .. n : Good(built[k], k)}
<1>12. 0 \in T
  <2>1. built[0] = start /\ start.list = <<>> /\ Len(<<>>) = 0
    BY <1>1, <1>9 DEF start
  <2>2. Weights(e, g, <<>>, 0, 0, 0)
    <3>1. \A i \in 1 .. Len(e) : ~Loaded(e, g, 0, 0, i)
      BY DEF Loaded
    <3> QED BY <3>1 DEF Weights, Whose, Present, Once, InTurn, Untouched, First
  <2>3. Known(e, <<>>, 0) /\ Apart(e, <<>>) /\ Tracked(e, <<>>, start.reads, start.writes, 0)
    BY DEF Known, Apart, Tracked
  <2>4. Descriptors(<<>>) <= sum[0]
    BY <1>11, DescriptorsEmpty
  <2> QED BY <1>1, <1>3, <2>1, <2>2, <2>3, <2>4
<1>13. ASSUME NEW k \in 0 .. n - 1, k \in T PROVE k + 1 \in T
  <2> DEFINE s == built[k]
             t == built[k + 1]
             m == k + 1
  <2>1. m \in 1 .. n /\ m \in 0 .. n /\ m - 1 = k /\ m # 0
    BY <1>1
  <2>2. t = Emit(e, g, s, m)
    BY <1>9, <2>1
  <2>3. Good(s, k)
    BY <1>13
  <2> HIDE DEF s, t, T, built
  <2>4. t \in Lists
    BY <1>4, <2>1, <2>2, <2>3
  <2>5. Weights(e, g, t.list, m, m, m)
    <3>1. s \in Lists /\ Weights(e, g, s.list, m - 1, m - 1, m - 1)
      BY <2>1, <2>3
    <3> HIDE DEF m
    <3> QED BY <1>1, <2>1, <2>2, <3>1, EmitWeights
  <2>6. Known(e, t.list, m) /\ Apart(e, t.list) /\ Tracked(e, t.list, t.reads, t.writes, 0)
    <3>1. /\ s \in Lists /\ Known(e, s.list, m - 1) /\ Apart(e, s.list)
          /\ Tracked(e, s.list, s.reads, s.writes, 0)
      BY <2>1, <2>3
    <3> HIDE DEF m
    <3> QED BY <1>1, <2>1, <2>2, <3>1, EmitOrder
  <2>7. Descriptors(t.list) <= sum[m]
    <3>1. /\ Descriptors(s.list) \in Nat /\ Need(e[m].d) \in Nat
          /\ Descriptors(t.list) \in Nat
          /\ Descriptors(t.list) <= Descriptors(s.list) + Need(e[m].d)
      <4>1. s \in Lists
        BY <2>3
      <4> HIDE DEF m
      <4> QED BY <1>2, <2>1, <2>2, <4>1, EmitSize
    <3>2. sum[m] = sum[k] + Need(e[m].d) /\ sum[k] \in Nat /\ Descriptors(s.list) <= sum[k]
      <4>1. sum[m] = sum[m - 1] + Need(e[m].d) /\ k \in 0 .. n
        BY <1>11, <2>1
      <4> QED BY <2>1, <2>3, <4>1
    <3> QED BY <3>1, <3>2
  <2>8. Good(t, m)
    BY <2>4, <2>5, <2>6, <2>7
  <2> QED BY <2>1, <2>8 DEF T, t
<1>14. Good(built[n], n)
  <2> HIDE DEF n, Good
  <2>1. \A k \in 0 .. n : k \in T
    <3> HIDE DEF T
    <3> QED BY <1>1, <1>12, <1>13, InductTo
  <2>2. n \in 0 .. n
    BY <1>1
  <2> QED BY <2>1, <2>2
<1> HIDE DEF T
<1> DEFINE L == built[n].list
           x == Part("end", 0, 1)
<1>15. x \in Parts /\ ~Moving(x) /\ x.size = 1
  BY DEF Part, Parts, Ops, Moving
<1>16. L \in Seq(Parts)
  BY <1>14 DEF Lists
<1>17. Build(e) = Append(L, x) /\ EndPart = <<x>>
  BY <1>10, <1>16 DEF EndPart
<1>18. Weights(e, g, L, n, n, n) /\ Apart(e, L) /\ Known(e, L, n) /\ Descriptors(L) <= Needs(e)
  BY <1>11, <1>14
<1> HIDE DEF L, x
<1>19. Weights(e, g, Append(L, x), n, n, n)
  BY <1>15, <1>16, <1>18, WeightsOther
<1>20. Apart(e, Append(L, x))
  <2>1. CASE n = 0
    <3>1. \A p \in 1 .. Len(L) : ~Moving(L[p])
      BY <1>18, <2>1 DEF Known
    <3>2. Append(L, x) \in Seq(Parts) /\ Len(Append(L, x)) = Len(L) + 1
          /\ Append(L, x)[Len(L) + 1] = x /\ Len(L) \in Nat
          /\ \A p \in 1 .. Len(L) : Append(L, x)[p] = L[p]
      BY <1>15, <1>16, Appended
    <3>3. \A p \in 1 .. Len(Append(L, x)) : ~Moving(Append(L, x)[p])
      BY <1>15, <3>1, <3>2
    <3> QED BY <3>3 DEF Apart
  <2>2. CASE n # 0
    <3>1. n \in 1 .. Len(e)
      BY <1>1, <2>2
    <3> HIDE DEF n
    <3> QED BY <1>15, <1>16, <1>18, <3>1, ApartOther
  <2> QED BY <2>1, <2>2
<1>21. Descriptors(Append(L, x)) <= Needs(e) + 1
  <2>1. \A y \in Parts : y.size \in Nat
    BY DEF Parts
  <2>2. Descriptors(L) \in Nat /\ Descriptors(Append(L, x)) = Descriptors(L) + 1
    BY <1>15, <1>16, <2>1, DescriptorsAppend
  <2>3. Needs(e) \in Nat
    BY <1>1, <1>11
  <2> QED BY <1>18, <2>2, <2>3
<1>22. Append(L, x) \in Seq(Parts) /\ Append(L, x) # <<>>
  <2>1. /\ Append(L, x) \in Seq(Parts) /\ Len(L) \in Nat /\ Len(Append(L, x)) = Len(L) + 1
        /\ Len(<<>>) = 0
    BY <1>15, <1>16, Appended
  <2> QED BY <2>1
<1> QED BY <1>17, <1>19, <1>20, <1>21, <1>22 DEF Right, g, n

-----------------------------------------------------------------------------
(* The types of the driver's state. *)

CmdSet == {[op |-> o] : o \in {"none", "begin", "end", "barrier", "host"}}
             \cup {[op |-> "dispatch", x |-> x] : x \in Export}
CbSet == [state : {"none", "apply", "done", "failed"}, cmd : CmdSet, n : Nat, count : Nat, first : Nat]
Item == [kind : {"list", "call"}, of : Seq(Nat)]
RecSet == [on : BOOLEAN, items : Seq(Item), dropped : Nat, from : Nat,
           verdict : {"none", "kept", "refused"}]
Fate == {"ran", "failed", "recorded", "host"}

HalTypeOK ==
    /\ entries \in Seq(Entry) /\ fence \in BOOLEAN
    /\ world \in World
    /\ cb \in CbSet
    /\ rec \in RecSet
    /\ ids \in Seq(Nat)
    /\ seen \in Seq(Nat \X Fate)

\* What took effect is numbers with their fates.
LEMMA FatesType ==
    ASSUME NEW S \in Seq(Nat), NEW a \in Fate
    PROVE  Fates(S, a) \in Seq(Nat \X Fate)
<1>1. Len(S) \in Nat /\ DOMAIN S = 1 .. Len(S) /\ \A i \in 1 .. Len(S) : S[i] \in Nat
  OBVIOUS
<1>2. \A i \in 1 .. Len(S) : <<S[i], a>> \in Nat \X Fate
  BY <1>1
<1>3. Fates(S, a) = [i \in 1 .. Len(S) |-> <<S[i], a>>]
  BY <1>1 DEF Fates
<1> QED BY <1>1, <1>2, <1>3

\* A recording stays one.
LEMMA RecordAddType ==
    ASSUME NEW r \in RecSet, NEW x \in Item, NEW mem \in BOOLEAN
    PROVE  RecordAdd(r, x, mem) \in RecSet
<1>1. Append(r.items, x) \in Seq(Item) /\ r.dropped + 1 \in Nat
  BY DEF RecSet
<1> QED BY <1>1 DEF RecordAdd, RecSet

\* What a call may answer.
LEMMA AnswersType ==
    ASSUME NEW k
    PROVE  Answers(k) \subseteq {"ran", "failed", "recorded"} /\ Memory \subseteq BOOLEAN
  BY DEF Answers, Memory

\* The types hold at first...
LEMMA HalTypeInit == HalInit => HalTypeOK
<1> SUFFICES ASSUME HalInit PROVE HalTypeOK
  OBVIOUS
<1>1. /\ <<>> \in Seq(Entry) /\ <<>> \in Seq(Nat) /\ <<>> \in Seq(Nat \X Fate) /\ <<>> \in Seq(Item)
  OBVIOUS
<1>2. NoRecord \in RecSet
  BY <1>1 DEF NoRecord, RecSet
<1>3. [op |-> "none"] \in CmdSet
  BY DEF CmdSet
<1>4. [state |-> "none", cmd |-> [op |-> "none"], n |-> 0, count |-> 0, first |-> 1] \in CbSet
  BY <1>3 DEF CbSet
<1> QED BY <1>1, <1>2, <1>4 DEF HalInit, BatchInit, HalTypeOK, NoCmdYet

\* A command that is over, or failed.
LEMMA OverType ==
    ASSUME HalTypeOK, Fail \/ Over
    PROVE  /\ cb' \in CbSet
           /\ cb'.cmd = NoCmdYet /\ cb'.first = cb.first
           /\ cb'.state \in {"apply", "done", "failed"}
           /\ Fail => cb'.state = "failed"
           /\ cb'.state = "done" => cb.cmd.op = "end"
<1>1. NoCmdYet \in CmdSet
  BY DEF CmdSet, NoCmdYet
<1>2. cb \in CbSet
  BY DEF HalTypeOK
<1>3. CASE Fail
  BY <1>1, <1>2, <1>3 DEF Fail, CbSet
<1>4. CASE Over
  <2>1. cb' = [cb EXCEPT !.state = (IF cb.cmd.op = "end" THEN "done" ELSE "apply"), !.cmd = NoCmdYet]
    BY <1>4 DEF Over
  <2>2. CASE Fail
    BY <1>1, <1>2, <2>2 DEF Fail, CbSet
  <2>3. CASE ~Fail
    BY <1>1, <1>2, <2>1, <2>3 DEF CbSet
  <2> QED BY <2>2, <2>3
<1> QED BY <1>3, <1>4

\* What a step leaves of the batch.
BatchKept == entries' \in Seq(Entry) /\ fence' \in BOOLEAN

\* ...the batch's steps keep theirs...
LEMMA FlushedType ==
    ASSUME HalTypeOK, Flushed \/ FlushEmpty \/ Barrier \/ Submit \/ Return \/ UNCHANGED vars
    PROVE  BatchKept
<1>1. <<>> \in Seq(Entry)
  OBVIOUS
<1> QED BY <1>1 DEF HalTypeOK, BatchKept, Flushed, FlushEmpty, Barrier, Submit, Return, vars

\* ...and every step keeps them.
LEMMA HalTypeNext ==
    ASSUME HalTypeOK, [HalNext]_<<vars, halVars, arenaVars>>
    PROVE  HalTypeOK'
<1>1. Issued \in Nat /\ Issued + 1 \in Nat
  BY DEF HalTypeOK, Issued
<1>2. ASSUME Execute PROVE HalTypeOK'
  <2>1. [op |-> "begin"] \in CmdSet /\ cb.count + 1 \in Nat
    BY DEF CmdSet, HalTypeOK, CbSet
  <2>2. cb' \in CbSet
    BY <1>1, <1>2, <2>1 DEF Execute, CbSet
  <2> QED BY <1>2, <2>2 DEF Execute, HalTypeOK, vars
<1>3. ASSUME NEW c \in Commands, Command(c) PROVE HalTypeOK'
  <2>1. world.exports \subseteq Export
    BY HalAssumption DEF HalTypeOK
  <2>2. c \in CmdSet
    BY <2>1 DEF Commands, CmdSet
  <2>3. cb \in CbSet /\ cb' = [cb EXCEPT !.cmd = c, !.n = @ + 1]
    BY <1>3 DEF Command, HalTypeOK
  <2>4. cb' \in CbSet
    <3>1. cb.n + 1 \in Nat
      BY <2>3 DEF CbSet
    <3> DEFINE m == cb.n + 1
    <3> HIDE DEF m
    <3>2. m \in Nat /\ cb' = [cb EXCEPT !.cmd = c, !.n = m]
      BY <2>3, <3>1 DEF m
    <3> QED BY <2>2, <2>3, <3>2 DEF CbSet
  <2> QED BY <1>3, <2>4 DEF Command, HalTypeOK, vars
<1>4. ASSUME \E fail \in BOOLEAN : LookUp(fail) PROVE HalTypeOK'
  <2>1. UNCHANGED cb \/ Fail
    BY <1>4 DEF LookUp
  <2>2. cb' \in CbSet
    BY <2>1, OverType DEF HalTypeOK
  <2>3. UNCHANGED <<vars, world, rec, ids, seen>>
    BY <1>4 DEF LookUp
  <2> QED BY <2>2, <2>3 DEF HalTypeOK, vars
<1>5. ASSUME Refuse PROVE HalTypeOK'
  <2>1. cb' \in CbSet
    BY <1>5, OverType DEF Refuse
  <2> QED BY <1>5, <2>1 DEF Refuse, HalTypeOK, vars
<1>6. ASSUME NEW mem \in Memory, FlushList(mem) PROVE HalTypeOK'
  <2>1. mem \in BOOLEAN
    BY AnswersType
  <2>2. [kind |-> "list", of |-> ids] \in Item
    BY DEF Item, HalTypeOK
  <2>3. rec' \in RecSet
    BY <1>6, <2>1, <2>2, RecordAddType DEF FlushList, HalTypeOK
  <2>4. BatchKept
    BY <1>6, FlushedType DEF FlushList
  <2> QED BY <1>6, <2>3, <2>4 DEF FlushList, HalTypeOK, BatchKept
<1>7. ASSUME NEW a \in Answers("list"), FlushDone(a) PROVE HalTypeOK'
  <2>1. a \in Fate
    BY AnswersType DEF Fate
  <2>2. Fates(ids, a) \in Seq(Nat \X Fate)
    BY <2>1, FatesType DEF HalTypeOK
  <2>3. seen' \in Seq(Nat \X Fate)
    BY <1>7, <2>2 DEF FlushDone, HalTypeOK
  <2>4. cb' \in CbSet
    BY <1>7, OverType DEF FlushDone, HalTypeOK
  <2>5. BatchKept
    BY <1>7, FlushedType DEF FlushDone
  <2>6. ids' \in Seq(Nat)
    BY <1>7 DEF FlushDone
  <2> QED BY <1>7, <2>3, <2>4, <2>5, <2>6 DEF FlushDone, HalTypeOK, BatchKept
<1>8. ASSUME Bracket \/ BarrierCmd PROVE HalTypeOK'
  <2>1. cb' \in CbSet
    BY <1>8, OverType DEF Bracket, BarrierCmd
  <2>2. BatchKept
    BY <1>8, FlushedType DEF Bracket, BarrierCmd
  <2> QED BY <1>8, <2>1, <2>2 DEF Bracket, BarrierCmd, HalTypeOK, BatchKept
<1>9. ASSUME NEW a \in Fate
      PROVE  Append(seen, <<Issued + 1, a>>) \in Seq(Nat \X Fate)
  <2>1. <<Issued + 1, a>> \in Nat \X Fate
    BY <1>1
  <2> HIDE DEF Issued
  <2> QED BY <2>1 DEF HalTypeOK
<1>10. ASSUME NEW ok \in BOOLEAN, HostCmd(ok) PROVE HalTypeOK'
  <2>1. cb' \in CbSet
    BY <1>10, OverType DEF HostCmd
  <2>2. BatchKept
    BY <1>10, FlushedType DEF HostCmd
  <2>3. (IF ok THEN "host" ELSE "failed") \in Fate
    BY DEF Fate
  <2>4. seen' \in Seq(Nat \X Fate)
    BY <1>9, <1>10, <2>3 DEF HostCmd
  <2> QED BY <1>10, <2>1, <2>2, <2>4 DEF HostCmd, HalTypeOK, BatchKept
<1>11. ASSUME NEW mem \in Memory, NEW k \in {"list", "call"},
              rec' = RecordAdd(rec, [kind |-> k, of |-> <<Issued + 1>>], mem)
       PROVE  rec' \in RecSet
  <2>1. mem \in BOOLEAN
    BY AnswersType
  <2>2. <<Issued + 1>> \in Seq(Nat)
    BY <1>1
  <2>3. [kind |-> k, of |-> <<Issued + 1>>] \in Item
    BY <2>2 DEF Item
  <2> QED BY <1>11, <2>1, <2>3, RecordAddType DEF HalTypeOK
<1>12. ASSUME NEW mem \in Memory, NEW a \in Answers("call"), Call(a, mem) PROVE HalTypeOK'
  <2>1. cb' \in CbSet
    BY <1>12, OverType DEF Call
  <2>2. BatchKept
    BY <1>12, FlushedType DEF Call
  <2>3. a \in Fate
    BY AnswersType DEF Fate
  <2>4. seen' \in Seq(Nat \X Fate)
    BY <1>9, <1>12, <2>3 DEF Call
  <2>5. rec' \in RecSet
    BY <1>11, <1>12 DEF Call
  <2> QED BY <1>12, <2>1, <2>2, <2>4, <2>5 DEF Call, HalTypeOK, BatchKept
<1>13. ASSUME NEW mem \in Memory, NEW a \in Answers("list"), RunNow(a, mem) PROVE HalTypeOK'
  <2>1. cb' \in CbSet
    BY <1>13, OverType DEF RunNow
  <2>2. BatchKept
    BY <1>13, FlushedType DEF RunNow
  <2>3. a \in Fate
    BY AnswersType DEF Fate
  <2>4. seen' \in Seq(Nat \X Fate)
    BY <1>9, <1>13, <2>3 DEF RunNow
  <2>5. rec' \in RecSet
    BY <1>11, <1>13 DEF RunNow
  <2> QED BY <1>13, <2>1, <2>2, <2>4, <2>5 DEF RunNow, HalTypeOK, BatchKept
<1>14. ASSUME AddCmd PROVE HalTypeOK'
  <2>1. cb' \in CbSet
    BY <1>14, OverType DEF AddCmd
  <2>2. cb.cmd.x \in Export
    <3>1. cb.cmd \in CmdSet /\ cb.cmd.op = "dispatch"
      BY <1>14 DEF HalTypeOK, CbSet, AddCmd, Ready
    <3> QED BY <3>1 DEF CmdSet
  <2>3. [d |-> cb.cmd.x.d, barrier |-> fence] \in Entry
    BY <2>2, HalAssumption DEF Entry, HalTypeOK
  <2>4. BatchKept
    <3> DEFINE x == [d |-> cb.cmd.x.d, barrier |-> fence]
    <3>1. entries' = Append(entries, x) /\ fence' = FALSE
      BY <1>14 DEF AddCmd, Add
    <3>2. entries \in Seq(Entry) /\ x \in Entry
      BY <2>3 DEF HalTypeOK
    <3> HIDE DEF x
    <3>3. entries' \in Seq(Entry)
      BY <3>1, <3>2
    <3>4. fence' \in BOOLEAN
      BY <3>1, Zenon
    <3> QED BY <3>3, <3>4 DEF BatchKept
  <2>5. ids' \in Seq(Nat)
    BY <1>1, <1>14 DEF AddCmd, HalTypeOK
  <2> QED BY <1>14, <2>1, <2>4, <2>5 DEF AddCmd, HalTypeOK, BatchKept
<1>15. ASSUME RecordBegin PROVE HalTypeOK'
  <2>1. rec' \in RecSet
    <3>1. NoRecord \in RecSet
      BY DEF NoRecord, RecSet
    <3> HIDE DEF Issued
    <3> QED BY <1>1, <1>15, <3>1 DEF RecordBegin, RecSet
  <2> QED BY <1>15, <2>1 DEF RecordBegin, HalTypeOK, vars
<1>16. ASSUME RecordEnd PROVE HalTypeOK'
  <2>1. rec' \in RecSet
    BY <1>16 DEF RecordEnd, HalTypeOK, RecSet
  <2> QED BY <1>16, <2>1 DEF RecordEnd, HalTypeOK, vars
<1>17. ASSUME DispatchNext PROVE HalTypeOK'
  BY <1>17, <1>2, <1>3, <1>4, <1>5, <1>6, <1>7, <1>8, <1>10, <1>12, <1>13, <1>14, <1>15, <1>16
     DEF DispatchNext
<1>18. ASSUME UNCHANGED <<vars, halVars>> PROVE HalTypeOK'
  BY <1>18 DEF vars, halVars, HalTypeOK
<1> QED BY <1>17, <1>18 DEF HalNext

-----------------------------------------------------------------------------
(***************************************************************************)
(* The batch.  Whatever the driver does, descs is what its entries may     *)
(* need, there is room for them, and the list that runs, if any, is the    *)
(* one built from them.                                                    *)
(***************************************************************************)
BatchInv ==
    /\ HalTypeOK
    /\ descs = Needs(entries) /\ descs + 1 <= DescCap
    /\ list = <<>> \/ list = Build(entries)

\* No dispatch needs nothing.
LEMMA NeedsEmpty == Needs(<<>>) = 0
<1>1. [i \in 1 .. Len(<<>>) |-> [size |-> Need(<<>>[i].d)]] = <<>>
  OBVIOUS
<1> QED BY <1>1, DescriptorsEmpty DEF Needs

\* What the steps of the driver do to the batch.
LEMMA BatchSteps ==
    ASSUME BatchInv, [HalNext]_<<vars, halVars, arenaVars>>
    PROVE  \/ UNCHANGED vars
           \/ \E d \in Dispatch : Add(d)
           \/ Barrier \/ Submit \/ Return \/ FlushEmpty
<1>1. ASSUME AddCmd PROVE \E d \in Dispatch : Add(d)
  <2>1. cb.cmd.x \in Export
    <3>1. cb.cmd \in CmdSet /\ cb.cmd.op = "dispatch"
      BY <1>1 DEF BatchInv, HalTypeOK, CbSet, AddCmd, Ready
    <3> QED BY <3>1 DEF CmdSet
  <2>2. cb.cmd.x.d \in Dispatch
    BY <2>1, HalAssumption
  <2> QED BY <1>1, <2>2 DEF AddCmd
<1>2. ASSUME DispatchNext
      PROVE  \/ UNCHANGED vars
             \/ \E d \in Dispatch : Add(d)
             \/ Barrier \/ Submit \/ Return \/ FlushEmpty
  <2>1. ASSUME \/ Execute \/ Refuse \/ RecordBegin \/ RecordEnd
               \/ \E c \in Commands : Command(c)
               \/ \E fail \in BOOLEAN : LookUp(fail)
        PROVE  UNCHANGED vars
    BY <2>1 DEF Execute, Refuse, RecordBegin, RecordEnd, Command, LookUp
  <2>2. ASSUME Flushed PROVE UNCHANGED vars \/ FlushEmpty
    BY <2>2 DEF Flushed
  <2>3. ASSUME \/ Bracket \/ \E ok \in BOOLEAN : HostCmd(ok)
               \/ \E mem \in Memory : \E a \in Answers("call") : Call(a, mem)
        PROVE  Flushed
    BY <2>3 DEF Bracket, HostCmd, Call
  <2>4. ASSUME BarrierCmd PROVE Barrier
    BY <2>4 DEF BarrierCmd
  <2>5. ASSUME NEW a \in Answers("list"), FlushDone(a) PROVE Return
    BY <2>5 DEF FlushDone
  <2>6. ASSUME NEW mem \in Memory, FlushList(mem) PROVE Submit
    BY <2>6 DEF FlushList
  <2>7. ASSUME NEW mem \in Memory, NEW a \in Answers("list"), RunNow(a, mem)
        PROVE  UNCHANGED vars
    BY <2>7 DEF RunNow
  <2> QED BY <1>1, <1>2, <2>1, <2>2, <2>3, <2>4, <2>5, <2>6, <2>7 DEF DispatchNext
<1>3. CASE HalNext
  BY <1>2, <1>3 DEF HalNext
<1>4. CASE UNCHANGED <<vars, halVars, arenaVars>>
  BY <1>4
<1> QED BY <1>3, <1>4

\* The batch's invariant holds at first...
LEMMA BatchStart == HalInit => BatchInv
<1> SUFFICES ASSUME HalInit PROVE BatchInv
  OBVIOUS
<1>1. entries = <<>> /\ descs = 0 /\ list = <<>> /\ 1 <= DescCap
  BY CapAssumption DEF HalInit, BatchInit
<1>2. descs = Needs(entries) /\ descs + 1 <= DescCap
  BY <1>1, NeedsEmpty
<1> QED BY <1>1, <1>2, HalTypeInit DEF BatchInv

\* ...and every step keeps it.
LEMMA BatchNext ==
    ASSUME BatchInv, [HalNext]_<<vars, halVars, arenaVars>>
    PROVE  BatchInv'
<1>1. HalTypeOK'
  BY HalTypeNext DEF BatchInv
<1> DEFINE Kept == /\ descs' = Needs(entries') /\ descs' + 1 <= DescCap
                   /\ list' = <<>> \/ list' = Build(entries')
<1>2. ASSUME UNCHANGED vars PROVE Kept
  BY <1>2 DEF vars, BatchInv
<1>3. ASSUME \E d \in Dispatch : Add(d) PROVE Kept
  <2>1. PICK d \in Dispatch : Add(d)
    BY <1>3
  <2> DEFINE x == [d |-> d, barrier |-> fence]
  <2>2. x \in Entry /\ entries \in Seq(Entry)
    BY DEF BatchInv, HalTypeOK, Entry
  <2>3. x.d = d /\ entries' = Append(entries, x) /\ descs' = descs + Need(d) /\ fence' = FALSE
        /\ list' = <<>>
    BY <2>1 DEF Add
  <2> HIDE DEF x
  <2>4. Needs(entries) \in Nat /\ Need(d) \in Nat /\ Needs(entries') = Needs(entries) + Need(d)
    BY <2>2, <2>3, NeedsAppend
  <2>5. ~(descs + Need(d) + 1 > DescCap)
    BY <2>1 DEF Add, Full
  <2>6. descs = Needs(entries)
    BY DEF BatchInv
  <2>7. descs' = Needs(entries') /\ descs' + 1 <= DescCap
    BY <2>3, <2>4, <2>5, <2>6, CapAssumption
  <2> QED BY <2>3, <2>7
<1>4. ASSUME Barrier PROVE Kept
  BY <1>4 DEF Barrier, BatchInv
<1>5. ASSUME Submit PROVE Kept
  BY <1>5 DEF Submit, BatchInv
<1>6. ASSUME Return PROVE Kept
  <2>1. entries' = <<>> /\ descs' = 0 /\ list' = <<>> /\ 1 <= DescCap
    BY <1>6, CapAssumption DEF Return
  <2>2. Needs(entries') = 0
    BY <2>1, NeedsEmpty
  <2> QED BY <2>1, <2>2
<1>7. ASSUME FlushEmpty PROVE Kept
  BY <1>7 DEF FlushEmpty, BatchInv
<1>8. Kept
  <2> HIDE DEF Kept
  <2> QED BY <1>2, <1>3, <1>4, <1>5, <1>6, <1>7, BatchSteps
<1> QED BY <1>1, <1>8 DEF BatchInv

\* The list that runs, as the properties read it.
LEMMA ListRight ==
    ASSUME BatchInv, list # <<>>
    PROVE  /\ Right(entries, list) /\ entries \in Seq(Entry)
           /\ DOMAIN list = 1 .. Len(list) /\ Len(list) \in Nat
           /\ \A p \in 1 .. Len(list) : Runs(p) <=> Moving(list[p])
           /\ \A p \in 1 .. Len(list) : Loads(p) = LoadsOf(entries, list[p])
           /\ \A p \in 1 .. Len(list) : Stores(p) = StoresOf(entries, list[p])
           /\ \A p, q, eng : Fenced(p, q, eng) <=> FencedIn(list, p, q, eng)
<1>1. entries \in Seq(Entry) /\ list = Build(entries)
  BY DEF BatchInv, HalTypeOK
<1>2. Right(entries, list)
  BY <1>1, BuildRight
<1>3. DOMAIN list = 1 .. Len(list) /\ Len(list) \in Nat
  BY <1>2 DEF Right
<1>4. \A p \in 1 .. Len(list) : Runs(p) <=> Moving(list[p])
  BY DEF Runs, Moving
<1>5. /\ \A p \in 1 .. Len(list) : Loads(p) = LoadsOf(entries, list[p])
      /\ \A p \in 1 .. Len(list) : Stores(p) = StoresOf(entries, list[p])
  BY DEF Loads, LoadsOf, Stores, StoresOf
<1>6. \A p, q, eng : Fenced(p, q, eng) <=> FencedIn(list, p, q, eng)
  BY DEF Fenced, FencedIn
<1> QED BY <1>1, <1>2, <1>3, <1>4, <1>5, <1>6

\* A right list is no longer than what was counted...
LEMMA RightFits == BatchInv => ListFits
<1> SUFFICES ASSUME BatchInv PROVE ListFits
  OBVIOUS
<1>1. CASE list = <<>>
  BY <1>1, DescriptorsEmpty, CapAssumption DEF ListFits
<1>2. CASE list # <<>>
  <2>1. Descriptors(list) <= Needs(entries) + 1 /\ list \in Seq(Parts)
    BY <1>2, ListRight DEF Right
  <2>2. Descriptors(list) \in Nat
    <3>1. \A y \in Parts : y.size \in Nat
      BY DEF Parts
    <3>2. Part("end", 0, 1) \in Parts
      BY DEF Part, Parts, Ops
    <3> QED BY <2>1, <3>1, <3>2, DescriptorsAppend
  <2>3. descs = Needs(entries) /\ descs + 1 <= DescCap
    BY DEF BatchInv
  <2>5. Needs(entries) \in Nat
    <3> DEFINE x == [size |-> 0]
               A == [i \in 1 .. Len(entries) |-> [size |-> Need(entries[i].d)]]
    <3>1. entries \in Seq(Entry)
      BY DEF BatchInv, HalTypeOK
    <3>2. A \in Seq(Sized)
      BY <3>1, NeedType
    <3>3. x \in Sized /\ \A y \in Sized : y.size \in Nat
      BY DEF Sized
    <3>4. Needs(entries) = Descriptors(A)
      BY DEF Needs
    <3> HIDE DEF A, x
    <3> QED BY <3>2, <3>3, <3>4, DescriptorsAppend
  <2>4. DescCap \in Nat
    BY CapAssumption
  <2> QED BY <2>1, <2>2, <2>3, <2>4, <2>5 DEF ListFits
<1> QED BY <1>1, <1>2

\* ...orders conflicting dispatches...
LEMMA RightOrder == BatchInv => NextInOrder
<1> SUFFICES ASSUME BatchInv, list # <<>>, NEW k \in DOMAIN entries, entries[k].barrier,
                    NEW i \in 1 .. (k - 1), NEW p \in PartsOf(i), NEW q \in PartsOf(k)
             PROVE  /\ Collides(Stores(p), Loads(q) \cup Stores(q)) => Fenced(p, q, "ST")
                    /\ Collides(Loads(p), Stores(q)) => Fenced(p, q, "LD")
  BY DEF NextInOrder, InDdrOrder
<1>1. /\ p \in 1 .. Len(list) /\ q \in 1 .. Len(list) /\ Runs(p) /\ Runs(q)
      /\ list[p].of = i /\ list[q].of = k
  BY ListRight DEF PartsOf
<1>2. Moving(list[p]) /\ Moving(list[q])
  BY <1>1, ListRight
<1>3. i < k
  <2>1. k \in Nat
    BY ListRight
  <2> QED BY <2>1
<1>4. Apart(entries, list)
  BY ListRight DEF Right
<1>5. /\ Collides(StoresOf(entries, list[p]), LoadsOf(entries, list[q]) \cup StoresOf(entries, list[q]))
            => FencedIn(list, p, q, "ST")
      /\ Collides(LoadsOf(entries, list[p]), StoresOf(entries, list[q])) => FencedIn(list, p, q, "LD")
  BY <1>1, <1>2, <1>3, <1>4 DEF Apart
<1>6. /\ Stores(p) = StoresOf(entries, list[p]) /\ Loads(p) = LoadsOf(entries, list[p])
      /\ Stores(q) = StoresOf(entries, list[q]) /\ Loads(q) = LoadsOf(entries, list[q])
  BY <1>1, ListRight
<1>7. /\ Fenced(p, q, "ST") <=> FencedIn(list, p, q, "ST")
      /\ Fenced(p, q, "LD") <=> FencedIn(list, p, q, "LD")
  BY ListRight
<1> QED BY <1>5, <1>6, <1>7

\* ...and gives each its own weights.
LEMMA RightWeights == BatchInv => OwnWeights
<1> SUFFICES ASSUME BatchInv, list # <<>> PROVE OwnWeights
  BY DEF OwnWeights
<1> DEFINE n == Len(entries)
           g == Guests(entries)
<1>1. /\ n \in Nat /\ DOMAIN entries = 1 .. n
      /\ DOMAIN list = 1 .. Len(list) /\ Len(list) \in Nat
      /\ \A p \in 1 .. Len(list) : Runs(p) <=> Moving(list[p])
      /\ Weights(entries, g, list, n, n, n) /\ list \in Seq(Parts)
  BY ListRight DEF Right
<1> HIDE DEF g, n
<1>2. ASSUME NEW k \in DOMAIN entries
      PROVE  LET pre  == {p \in PartsOf(k) : list[p].op = "prefix"}
                 body == CHOOSE p \in PartsOf(k) : list[p].op = "body"
             IN /\ Cardinality(pre) = IF entries[k].d.prefix THEN 1 ELSE 0
                /\ \A p \in pre :
                     /\ p < body
                     /\ \A q \in (p + 1)..(body - 1) :
                          Runs(q) => /\ list[q].op # "prefix"
                                     /\ list[q].of = k \/ ~entries[list[q].of].d.spadB
  <2> DEFINE pre == {p \in PartsOf(k) : list[p].op = "prefix"}
             body == CHOOSE p \in PartsOf(k) : list[p].op = "body"
  <2>1. k \in 1 .. n
    BY <1>1
  <2>2. \A p : p \in PartsOf(k) <=> p \in 1 .. Len(list) /\ Moving(list[p]) /\ list[p].of = k
    BY <1>1 DEF PartsOf
  <2>3. body \in 1 .. Len(list) /\ list[body].op = "body" /\ list[body].of = k
    <3>1. PICK p \in 1 .. Len(list) : list[p].op = "body" /\ list[p].of = k
      BY <1>1, <2>1 DEF Weights, Present
    <3>2. p \in PartsOf(k)
      BY <2>2, <3>1 DEF Moving
    <3>3. body \in PartsOf(k) /\ list[body].op = "body"
      BY <3>1, <3>2
    <3> QED BY <2>2, <3>3
  <2> HIDE DEF body
  <2>4. \A p : p \in pre <=> p \in 1 .. Len(list) /\ list[p].op = "prefix" /\ list[p].of = k
    BY <2>2 DEF Moving
  <2> HIDE DEF pre
  <2>5. Cardinality(pre) = IF entries[k].d.prefix THEN 1 ELSE 0
    <3>1. CASE entries[k].d.prefix
      <4>1. Loaded(entries, g, n, n, k)
        <5>1. Hosted(entries, g, k) => \E j \in 1 .. n : g[j] = k
          BY <1>1 DEF Hosted
        <5>2. k <= n /\ k \in 1 .. Len(entries)
          BY <1>1, <2>1 DEF n
        <5> QED BY <3>1, <5>1, <5>2 DEF Loaded
      <4>2. PICK p \in 1 .. Len(list) : list[p].op = "prefix" /\ list[p].of = k
        BY <1>1, <2>1, <4>1 DEF Weights, Present, n
      <4>3. ASSUME NEW q \in pre PROVE q = p
        <5>1. q \in 1 .. Len(list) /\ list[q].op = "prefix" /\ list[q].of = k
          BY <2>4, <4>3
        <5> QED BY <1>1, <4>2, <5>1 DEF Weights, Once
      <4>4. pre = {p}
        BY <2>4, <4>2, <4>3
      <4> QED BY <3>1, <4>4, FS_Singleton
    <3>2. CASE ~entries[k].d.prefix
      <4>1. ASSUME NEW p \in pre PROVE FALSE
        <5>1. p \in 1 .. Len(list) /\ list[p].op = "prefix" /\ list[p].of = k
          BY <2>4, <4>1
        <5>2. Loaded(entries, g, n, n, k)
          BY <1>1, <5>1 DEF Weights, Whose
        <5> QED BY <3>2, <5>2 DEF Loaded
      <4>2. pre = {}
        BY <4>1
      <4> QED BY <3>2, <4>2, FS_EmptySet
    <3> QED BY <3>1, <3>2
  <2>6. ASSUME NEW p \in pre
        PROVE  /\ p < body
               /\ \A q \in (p + 1)..(body - 1) :
                    Runs(q) => /\ list[q].op # "prefix"
                               /\ list[q].of = k \/ ~entries[list[q].of].d.spadB
    <3>1. p \in 1 .. Len(list) /\ list[p].op = "prefix" /\ list[p].of = k
      BY <2>4, <2>6
    <3>2. p < body
      BY <1>1, <2>3, <3>1 DEF Weights, First
    <3>3. ASSUME NEW q \in (p + 1)..(body - 1), Runs(q)
          PROVE  list[q].op # "prefix" /\ (list[q].of = k \/ ~entries[list[q].of].d.spadB)
      <4>1. q \in 1 .. Len(list) /\ p < q /\ q < body
        BY <1>1, <2>3, <3>1
      <4>2. Moving(list[q])
        BY <1>1, <3>3, <4>1
      <4>3. ASSUME NEW b \in 1 .. q, list[b].op = "body", list[b].of = k PROVE FALSE
        <5>1. b \in 1 .. Len(list) /\ b # body
          BY <1>1, <4>1
        <5> QED BY <1>1, <2>3, <4>3, <5>1 DEF Weights, Once
      <4> QED BY <1>1, <3>1, <4>1, <4>2, <4>3 DEF Weights, Untouched
    <3> QED BY <3>2, <3>3
  <2> QED BY <2>5, <2>6 DEF pre, body
<1>3. ASSUME NEW p \in DOMAIN list, NEW q \in DOMAIN list,
             p < q, Runs(p), Runs(q), list[p].op # "prefix", list[q].op # "prefix"
      PROVE  list[p].of <= list[q].of
  <2>1. list[p].op \in {"head", "body"} /\ list[q].op \in {"head", "body"}
    BY <1>3 DEF Runs
  <2> QED BY <1>1, <1>3, <2>1 DEF Weights, InTurn
<1> QED BY <1>2, <1>3 DEF OwnWeights

\* The entries, what was counted for them and the list that runs agree after
\* every command, flush and failure of the driver (sa_context_batch_add,
\* _barrier, _flush as sa_command_buffer.c calls them).
THEOREM BatchAlways == HalSpec => []BatchInv
<1> USE DEF HalSpec
<1>1. HalInit => BatchInv
  BY BatchStart
<1>2. BatchInv /\ [HalNext]_<<vars, halVars, arenaVars>> => BatchInv'
  BY BatchNext
<1> QED BY <1>1, <1>2, PTL

\* sa_entry_descriptors, decided when a dispatch is added, bounds what the
\* dispatch puts in the list, whichever prefixes are moved into it: a list never
\* runs over the end of the batch list (sa_context_batch_add, sa_batch_build).
THEOREM ListAlwaysFits == HalSpec => []ListFits
<1>1. BatchInv => ListFits
  BY RightFits
<1> QED BY <1>1, BatchAlways, PTL

\* Whatever the dispatches load and store, whichever have barriers, however few
\* ranges a range set holds: a dispatch with a barrier before it starts after
\* every earlier access of the list it conflicts with, also when its prefix was
\* moved before the FENCE or into an earlier dispatch (sa_batch_build).
THEOREM DependsInOrder == HalSpec => []NextInOrder
<1>1. BatchInv => NextInOrder
  BY RightOrder
<1> QED BY <1>1, BatchAlways, PTL

\* Every dispatch multiplies with what its own prefix put in SPAD_B, wherever
\* sa_batch_build moved it ("where the prefixes run").
THEOREM WeightsAreOwn == HalSpec => []OwnWeights
<1>1. BatchInv => OwnWeights
  BY RightWeights
<1> QED BY <1>1, BatchAlways, PTL

-----------------------------------------------------------------------------
(* The numbers of a sequence of recorded items. *)

\* The items of a recording, concatenated one by one.
LEMMA FlatSum ==
    ASSUME NEW l \in Seq(Item)
    PROVE  \E s \in [0 .. Len(l) -> Seq(Nat)] :
              /\ s[0] = <<>>
              /\ \A k \in 1 .. Len(l) : s[k] = s[k - 1] \o l[k].of
              /\ Flat(l) = s[Len(l)]
<1> DEFINE n == Len(l)
           S == Seq(Nat)
           step == [k \in 1 .. Len(l) |-> [x \in S |-> x \o l[k].of]]
           flat == CHOOSE f : f = [k \in 0 .. Len(l) |->
                                     IF k = 0 THEN <<>> ELSE f[k - 1] \o l[k].of]
<1>1. ASSUME NEW k \in 1 .. n PROVE l[k].of \in S
  <2>1. l[k] \in Item
    OBVIOUS
  <2> QED BY <2>1 DEF Item
<1>2. n \in Nat /\ <<>> \in S
  OBVIOUS
<1>3. step \in [1 .. n -> [S -> S]]
  <2>1. \A k \in 1 .. n : \A x \in S : x \o l[k].of \in S
    BY <1>1
  <2> HIDE DEF S, n
  <2> QED BY <2>1 DEF n
<1>4. \E f \in [0 .. n -> S] : Recurs(f, n, <<>>, step)
  <2> HIDE DEF step, flat, S, n
  <2> QED BY <1>2, <1>3, Recursion, Zenon
<1>5. PICK f \in [0 .. n -> S] :
         f[0] = <<>> /\ \A k \in 1 .. n : f[k] = step[k][f[k - 1]]
  BY <1>4 DEF Recurs
<1>6. f = [k \in 0 .. n |-> IF k = 0 THEN <<>> ELSE f[k - 1] \o l[k].of]
  <2>1. ASSUME NEW k \in 1 .. n PROVE f[k] = f[k - 1] \o l[k].of
    <3>1. k - 1 \in 0 .. n /\ f[k - 1] \in S
      <4>1. k - 1 \in 0 .. n
        BY <1>2
      <4> HIDE DEF S
      <4> QED BY <4>1
    <3> HIDE DEF S
    <3> QED BY <1>5, <3>1
  <2> HIDE DEF S, step, n
  <2>2. \A k \in 0 .. n : f[k] = IF k = 0 THEN <<>> ELSE f[k - 1] \o l[k].of
    <3>1. \A k \in 0 .. n : k # 0 => k \in 1 .. n
      BY <1>2
    <3> QED BY <1>5, <2>1, <3>1
  <2> QED BY <2>2
<1>7. flat = [k \in 0 .. n |-> IF k = 0 THEN <<>> ELSE flat[k - 1] \o l[k].of]
  BY <1>6
<1>8. Flat(l) = flat[n]
  BY DEF Flat
<1> HIDE DEF flat, step
<1>9. /\ flat[0] = <<>> /\ DOMAIN flat = 0 .. n
      /\ \A k \in 1 .. n : flat[k] = flat[k - 1] \o l[k].of
  <2> HIDE DEF n
  <2>1. 0 \in 0 .. n /\ \A k \in 1 .. n : k \in 0 .. n /\ k # 0
    BY <1>2
  <2> QED BY <1>7, <2>1
<1>20. \A x, y \in S : x \o y \in S
  OBVIOUS
<1> HIDE DEF S, n
<1> DEFINE T == {k \in 0 .. n : flat[k] \in S}
<1>10. 0 \in T
  BY <1>2, <1>9
<1>11. ASSUME NEW k \in 0 .. n - 1, k \in T PROVE k + 1 \in T
  <2>1. k + 1 \in 1 .. n /\ k + 1 \in 0 .. n /\ (k + 1) - 1 = k
    BY <1>2
  <2>2. flat[k + 1] = flat[k] \o l[k + 1].of
    BY <1>9, <2>1
  <2>3. flat[k] \in S /\ l[k + 1].of \in S
    BY <1>1, <1>11, <2>1
  <2> QED BY <1>20, <2>1, <2>2, <2>3
<1>12. \A k \in 0 .. n : flat[k] \in S
  <2> HIDE DEF n, S
  <2>1. \A k \in 0 .. n : k \in T
    <3> HIDE DEF T
    <3> QED BY <1>2, <1>10, <1>11, InductTo
  <2> QED BY <2>1
<1>13. flat \in [0 .. n -> S]
  <2> HIDE DEF S
  <2> QED BY <1>7, <1>9, <1>12
<1> QED BY <1>8, <1>9, <1>13 DEF S, n

\* One item more adds its commands at the end.
LEMMA FlatAppend ==
    ASSUME NEW l \in Seq(Item), NEW y \in Item
    PROVE  Flat(l) \in Seq(Nat) /\ Flat(Append(l, y)) = Flat(l) \o y.of
<1> DEFINE m == Append(l, y)
           n == Len(l)
<1>1. /\ n \in Nat /\ m \in Seq(Item) /\ Len(m) = n + 1
      /\ \A k \in 1 .. n : m[k] = l[k]
      /\ m[n + 1] = y
  OBVIOUS
<1>2. PICK s \in [0 .. n -> Seq(Nat)] :
         /\ s[0] = <<>>
         /\ \A k \in 1 .. n : s[k] = s[k - 1] \o l[k].of
         /\ Flat(l) = s[n]
  BY FlatSum
<1> HIDE DEF m
<1>3. \E t \in [0 .. Len(m) -> Seq(Nat)] :
         /\ t[0] = <<>>
         /\ \A k \in 1 .. Len(m) : t[k] = t[k - 1] \o m[k].of
         /\ Flat(m) = t[Len(m)]
  BY <1>1, FlatSum
<1>4. PICK t \in [0 .. n + 1 -> Seq(Nat)] :
         /\ t[0] = <<>>
         /\ \A k \in 1 .. n + 1 : t[k] = t[k - 1] \o m[k].of
         /\ Flat(m) = t[n + 1]
  BY <1>1, <1>3
<1> HIDE DEF n
<1> DEFINE T == {k \in 0 .. n : t[k] = s[k]}
<1>5. 0 \in T
  BY <1>1, <1>2, <1>4
<1>6. ASSUME NEW k \in 0 .. n - 1, k \in T PROVE k + 1 \in T
  <2>3. n \in Nat
    BY <1>1
  <2>4. k \in Int /\ 0 <= k /\ k <= n - 1
    BY <2>3
  <2>1. k + 1 \in 1 .. n /\ k + 1 \in 0 .. n /\ k + 1 \in 1 .. n + 1 /\ (k + 1) - 1 = k /\ t[k] = s[k]
    BY <1>6, <2>3, <2>4
  <2>2. t[k + 1] = t[k] \o m[k + 1].of /\ s[k + 1] = s[k] \o l[k + 1].of
    BY <1>2, <1>4, <2>1
  <2> QED BY <1>1, <2>1, <2>2
<1>7. n \in T
  <2> HIDE DEF T
  <2>1. \A k \in 0 .. n : k \in T
    BY <1>1, <1>5, <1>6, InductTo
  <2> QED BY <1>1, <2>1
<1>8. n + 1 \in 1 .. n + 1 /\ (n + 1) - 1 = n
  BY <1>1
<1>9. t[n + 1] = t[n] \o y.of
  BY <1>1, <1>4, <1>8
<1>10. s[n] \in Seq(Nat)
  BY <1>1, <1>2
<1> QED BY <1>2, <1>4, <1>7, <1>9, <1>10 DEF m, n

\* No item has no command.
LEMMA FlatEmpty == Flat(<<>>) = <<>>
<1>1. <<>> \in Seq(Item) /\ Len(<<>>) = 0
  OBVIOUS
<1>2. PICK s \in [0 .. Len(<<>>) -> Seq(Nat)] : s[0] = <<>> /\ Flat(<<>>) = s[Len(<<>>)]
  BY <1>1, FlatSum
<1> QED BY <1>1, <1>2

-----------------------------------------------------------------------------
(***************************************************************************)
(* The order of the commands, and what a recording holds.                  *)
(***************************************************************************)

\* What was done has the numbers 1, 2, ..., and the batch those that follow.
Numbered ==
    /\ \A i \in 1 .. Len(seen) : seen[i][1] = i
    /\ \A j \in 1 .. Len(ids) : ids[j] = Len(seen) + j
    /\ Len(ids) = Len(entries)

\* Only a command of a running command buffer flushes; a command buffer ends
\* with an empty batch; while one runs nothing of it has failed.
Paced ==
    /\ world.immediate => entries = <<>>
    /\ cb.cmd.op # "none" => cb.state = "apply"
    /\ list # <<>> => cb.cmd.op # "none" /\ Looked /\ ~Refused
    /\ cb.state \in {"none", "done"} => ids = <<>>
    /\ cb.state \in {"apply", "done"} =>
          \A i \in 1 .. Len(seen) : i >= cb.first => seen[i][2] # "failed"

Numbers(F, a, b) == Len(F) = (b - a) + 1 /\ \A i \in 1 .. Len(F) : F[i] = (a + i) - 1

\* How far the items of a recording go: a list is recorded before it is over.
Reached == IF list # <<>> THEN Issued ELSE Len(seen)

NoHost == \A i \in 1 .. Len(seen) : i >= rec.from => seen[i][2] # "host"

\* While a step is recorded nothing of it runs but on the host, and unless the
\* host did something or an item was dropped, the items are all of it.
Recording ==
    rec.on =>
      /\ rec.verdict = "none" /\ rec.from \in 1 .. Len(seen) + 1
      /\ cb.state # "failed" =>
            \A i \in 1 .. Len(seen) : i >= rec.from => seen[i][2] \in {"recorded", "host"}
      /\ rec.dropped = 0 /\ cb.state # "failed" /\ NoHost =>
            Numbers(Flat(rec.items), rec.from, Reached)

\* A recording that was kept stays as it was.
Kept ==
    ~rec.on /\ rec.verdict = "kept" =>
       \E b \in 0 .. Len(seen) :
         /\ Numbers(Flat(rec.items), rec.from, b)
         /\ \A i \in 1 .. Len(seen) : i >= rec.from => (seen[i][2] = "recorded" <=> i <= b)

OrderInv == HalTypeOK /\ Numbered /\ Paced /\ Recording /\ Kept

\* Consecutive numbers, continued.
LEMMA NumbersConcat ==
    ASSUME NEW F \in Seq(Nat), NEW G \in Seq(Nat), NEW a \in Nat, NEW b \in Nat,
           Numbers(F, a, b), \A j \in 1 .. Len(G) : G[j] = b + j
    PROVE  Numbers(F \o G, a, b + Len(G))
<1>1. /\ Len(F) \in Nat /\ Len(G) \in Nat /\ Len(F \o G) = Len(F) + Len(G)
      /\ \A i \in 1 .. Len(F) + Len(G) :
            (F \o G)[i] = IF i <= Len(F) THEN F[i] ELSE G[i - Len(F)]
  OBVIOUS
<1>2. Len(F) = (b - a) + 1 /\ \A i \in 1 .. Len(F) : F[i] = (a + i) - 1
  BY DEF Numbers
<1>3. Len(F \o G) = ((b + Len(G)) - a) + 1
  BY <1>1, <1>2
<1>4. ASSUME NEW i \in 1 .. Len(F) + Len(G) PROVE (F \o G)[i] = (a + i) - 1
  <2>1. CASE i <= Len(F)
    BY <1>1, <1>2, <2>1
  <2>2. CASE i > Len(F)
    <3>1. i - Len(F) \in 1 .. Len(G) /\ ~(i <= Len(F))
      BY <1>1, <2>2
    <3>2. (F \o G)[i] = b + (i - Len(F))
      BY <1>1, <3>1
    <3> QED BY <1>1, <1>2, <3>2
  <2> QED BY <1>1, <2>1, <2>2
<1> QED BY <1>1, <1>3, <1>4 DEF Numbers

\* What happened grows by answers of one kind, with the next numbers.
Grown(a) ==
    /\ Len(seen') \in Nat /\ Len(seen') >= Len(seen)
    /\ \A i \in 1 .. Len(seen) : seen'[i] = seen[i]
    /\ \A i \in 1 .. Len(seen') : i > Len(seen) => seen'[i] = <<i, a>>

\* One command takes effect with nothing batched: it has the next number.
LEMMA GrownOne ==
    ASSUME OrderInv, entries = <<>>, NEW a, seen' = Append(seen, <<Issued + 1, a>>)
    PROVE  ids = <<>> /\ Issued = Len(seen) /\ Len(seen') = Len(seen) + 1 /\ Grown(a)
<1>1. /\ seen \in Seq(Nat \X Fate) /\ ids \in Seq(Nat) /\ Len(ids) = 0
  BY DEF OrderInv, HalTypeOK, Numbered
<1>2. ids = <<>> /\ Issued = Len(seen) /\ Len(seen) \in Nat
  BY <1>1 DEF Issued
<1> DEFINE x == <<Issued + 1, a>>
<1>3. x = <<Len(seen) + 1, a>>
  BY <1>2
<1> HIDE DEF x
<1>4. /\ Len(seen') = Len(seen) + 1 /\ seen'[Len(seen) + 1] = x
      /\ \A i \in 1 .. Len(seen) : seen'[i] = seen[i]
  BY <1>1 DEF x
<1>5. \A i \in 1 .. Len(seen') : i > Len(seen) => i = Len(seen) + 1
  BY <1>2, <1>4
<1> QED BY <1>2, <1>3, <1>4, <1>5 DEF Grown

\* A batch takes effect: its commands have the next numbers.
LEMMA GrownBatch ==
    ASSUME OrderInv, NEW a \in Fate, seen' = seen \o Fates(ids, a)
    PROVE  Issued \in Nat /\ Len(seen') = Issued /\ Grown(a)
<1>1. /\ seen \in Seq(Nat \X Fate) /\ ids \in Seq(Nat)
      /\ \A j \in 1 .. Len(ids) : ids[j] = Len(seen) + j
  BY DEF OrderInv, HalTypeOK, Numbered
<1> DEFINE G == Fates(ids, a)
<1>2. G \in Seq(Nat \X Fate)
  BY <1>1, FatesType
<1>3. Len(G) = Len(ids) /\ \A j \in 1 .. Len(ids) : G[j] = <<ids[j], a>>
  <2>1. DOMAIN ids = 1 .. Len(ids) /\ Len(ids) \in Nat
    BY <1>1
  <2>2. G = [j \in 1 .. Len(ids) |-> <<ids[j], a>>]
    BY <2>1 DEF Fates
  <2> QED BY <1>2, <2>1, <2>2
<1> HIDE DEF G
<1>4. /\ Len(seen) \in Nat /\ Len(ids) \in Nat /\ Len(seen') = Len(seen) + Len(ids)
      /\ \A i \in 1 .. Len(seen) + Len(ids) :
            seen'[i] = IF i <= Len(seen) THEN seen[i] ELSE G[i - Len(seen)]
  <2>1. seen \in Seq(Nat \X Fate) /\ seen' = seen \o G
    BY <1>1 DEF G
  <2>2. /\ Len(seen') = Len(seen) + Len(G)
        /\ \A i \in 1 .. Len(seen) + Len(G) :
              seen'[i] = IF i <= Len(seen) THEN seen[i] ELSE G[i - Len(seen)]
    BY <1>2, <2>1, ConcatProperties
  <2>3. Len(seen) \in Nat /\ Len(ids) \in Nat
    BY <1>1
  <2> QED BY <1>3, <2>2, <2>3
<1>5. ASSUME NEW i \in 1 .. Len(seen'), i > Len(seen) PROVE seen'[i] = <<i, a>>
  <2>1. i - Len(seen) \in 1 .. Len(ids) /\ ~(i <= Len(seen)) /\ Len(seen) + (i - Len(seen)) = i
    BY <1>4, <1>5
  <2>2. seen'[i] = <<ids[i - Len(seen)], a>>
    BY <1>3, <1>4, <2>1
  <2> QED BY <1>1, <2>1, <2>2
<1>6. \A i \in 1 .. Len(seen) : seen'[i] = seen[i]
  BY <1>4
<1>7. /\ Issued = Len(seen) + Len(ids) /\ Len(seen') = Len(seen) + Len(ids)
      /\ Len(seen) \in Nat /\ Len(ids) \in Nat
  BY <1>4 DEF Issued
<1>8. Issued \in Nat /\ Len(seen') = Issued /\ Len(seen') >= Len(seen)
  BY <1>7
<1>9. \A i \in 1 .. Len(seen') : i > Len(seen) => seen'[i] = <<i, a>>
  BY <1>5
<1> QED BY <1>6, <1>8, <1>9 DEF Grown

\* A recording that was kept is not touched by what follows.
LEMMA KeptGrown ==
    ASSUME OrderInv, rec' = rec, NEW a, Grown(a), ~rec.on => a # "recorded"
    PROVE  Kept'
<1> SUFFICES ASSUME ~rec.on, rec.verdict = "kept" PROVE Kept'
  BY DEF Kept
<1>1. PICK b \in 0 .. Len(seen) :
         /\ Numbers(Flat(rec.items), rec.from, b)
         /\ \A i \in 1 .. Len(seen) : i >= rec.from => (seen[i][2] = "recorded" <=> i <= b)
  BY DEF OrderInv, Kept
<1>2. Len(seen) \in Nat /\ Len(seen') \in Nat /\ b \in 0 .. Len(seen')
  BY DEF OrderInv, HalTypeOK, Grown
<1>3. ASSUME NEW i \in 1 .. Len(seen'), i >= rec.from
      PROVE  seen'[i][2] = "recorded" <=> i <= b
  <2>1. CASE i \in 1 .. Len(seen)
    BY <1>1, <1>3, <2>1 DEF Grown
  <2>2. CASE i > Len(seen)
    <3>1. seen'[i][2] = a /\ ~(i <= b)
      BY <1>2, <2>2 DEF Grown
    <3> QED BY <3>1
  <2> QED BY <1>2, <2>1, <2>2
<1> QED BY <1>1, <1>2, <1>3 DEF Kept

\* Nothing happened that a recording would hold.
LEMMA RecordingQuiet ==
    ASSUME OrderInv, UNCHANGED <<seen, rec>>, Reached' = Reached,
           rec.on /\ cb'.state # "failed" => cb.state # "failed"
    PROVE  Recording' /\ Kept'
<1>1. Kept'
  BY DEF OrderInv, Kept
<1>2. Recording'
  BY DEF OrderInv, Recording, NoHost
<1> QED BY <1>1, <1>2

\* What was recorded is seen, or the host did something.
LEMMA RecordingGrown ==
    ASSUME OrderInv, rec' = rec, cb.state # "failed", NEW a, Grown(a),
           rec.on => \/ a = "recorded" /\ Len(seen') = Reached' /\ Reached' = Reached
                     \/ a = "host" /\ Len(seen') > Len(seen)
                     \/ cb'.state = "failed"
    PROVE  Recording'
<1> SUFFICES ASSUME rec.on PROVE Recording'
  BY DEF Recording
<1>1. /\ Len(seen) \in Nat /\ Len(seen') \in Nat /\ Len(seen') >= Len(seen)
      /\ rec.verdict = "none" /\ rec.from \in 1 .. Len(seen) + 1
  BY DEF OrderInv, HalTypeOK, Grown, Recording
<1>2. rec.from \in 1 .. Len(seen') + 1
  BY <1>1
<1>3. ASSUME cb'.state # "failed", NEW i \in 1 .. Len(seen'), i >= rec.from
      PROVE  seen'[i][2] \in {"recorded", "host"}
  <2>1. CASE i \in 1 .. Len(seen)
    BY <1>3, <2>1 DEF Grown, OrderInv, Recording
  <2>2. CASE i > Len(seen)
    BY <1>3, <2>2 DEF Grown
  <2> QED BY <1>1, <2>1, <2>2
<1>4. ASSUME rec.dropped = 0, cb'.state # "failed", NoHost'
      PROVE  Numbers(Flat(rec.items), rec.from, Reached')
  <2>1. a # "host" \/ ~(Len(seen') > Len(seen))
    <3>1. ASSUME a = "host", Len(seen') > Len(seen) PROVE FALSE
      <4>1. Len(seen') \in 1 .. Len(seen') /\ Len(seen') >= rec.from
        BY <1>1, <3>1
      <4>2. seen'[Len(seen')][2] = "host"
        BY <3>1, <4>1 DEF Grown
      <4> QED BY <1>4, <4>1, <4>2 DEF NoHost
    <3> QED BY <3>1
  <2>2. Reached' = Reached
    BY <1>4, <2>1
  <2>3. NoHost
    <3>1. ASSUME NEW i \in 1 .. Len(seen), i >= rec.from PROVE seen[i][2] # "host"
      <4>1. i \in 1 .. Len(seen') /\ seen'[i] = seen[i]
        BY <1>1 DEF Grown
      <4> QED BY <1>4, <3>1, <4>1 DEF NoHost
    <3> QED BY <3>1 DEF NoHost
  <2> QED BY <1>4, <2>2, <2>3 DEF OrderInv, Recording
<1> QED BY <1>1, <1>2, <1>3, <1>4 DEF Recording

\* The commands of a recording are numbers.
LEMMA FlatType ==
    ASSUME NEW l \in Seq(Item)
    PROVE  Flat(l) \in Seq(Nat)
<1>1. <<>> \in Seq(Nat)
  OBVIOUS
<1>2. [kind |-> "list", of |-> <<>>] \in Item
  BY <1>1 DEF Item
<1> QED BY <1>2, FlatAppend

\* An item is recorded: the entries of the batch, or what happens now.
LEMMA RecordingItem ==
    ASSUME OrderInv, list = <<>>, cb.state # "failed", NEW x \in Item, NEW mem \in BOOLEAN,
           rec' = RecordAdd(rec, x, mem),
           \A j \in 1 .. Len(x.of) : x.of[j] = Len(seen) + j,
           rec.on => Grown("recorded") /\ Reached' = Len(seen) + Len(x.of)
    PROVE  Recording' /\ (rec.on => Kept') /\ (~rec.on => rec' = rec)
<1>1. rec \in RecSet /\ Len(seen) \in Nat
  BY DEF OrderInv, HalTypeOK
<1>2. CASE ~rec.on
  <2>1. rec' = rec
    BY <1>2 DEF RecordAdd
  <2> QED BY <1>2, <2>1 DEF Recording
<1>3. CASE rec.on
  <2>1. /\ rec'.on /\ rec'.from = rec.from /\ rec'.verdict = rec.verdict
        /\ mem => rec'.items = Append(rec.items, x) /\ rec'.dropped = rec.dropped
        /\ ~mem => rec'.dropped = rec.dropped + 1
    BY <1>1, <1>3 DEF RecordAdd, RecSet
  <2>2. Kept'
    BY <2>1 DEF Kept
  <2>3. /\ Len(seen') \in Nat /\ Len(seen') >= Len(seen)
        /\ rec.verdict = "none" /\ rec.from \in 1 .. Len(seen) + 1
    BY <1>3 DEF OrderInv, Grown, Recording
  <2>4. rec'.from \in 1 .. Len(seen') + 1 /\ rec'.verdict = "none"
    BY <1>1, <2>1, <2>3
  <2>5. ASSUME NEW i \in 1 .. Len(seen'), i >= rec.from
        PROVE  seen'[i][2] \in {"recorded", "host"}
    <3>1. CASE i \in 1 .. Len(seen)
      BY <1>3, <2>5, <3>1 DEF Grown, OrderInv, Recording
    <3>2. CASE i > Len(seen)
      BY <1>3, <2>5, <3>2 DEF Grown
    <3> QED BY <1>1, <2>3, <3>1, <3>2
  <2>6. ASSUME rec'.dropped = 0, NoHost'
        PROVE  Numbers(Flat(rec'.items), rec'.from, Reached')
    <3>1. mem /\ rec.dropped = 0
      BY <1>1, <2>1, <2>6 DEF RecSet
    <3>2. NoHost
      <4>1. ASSUME NEW i \in 1 .. Len(seen), i >= rec.from PROVE seen[i][2] # "host"
        <5>1. i \in 1 .. Len(seen') /\ seen'[i] = seen[i]
          BY <1>1, <1>3, <2>3 DEF Grown
        <5> QED BY <2>1, <2>6, <4>1, <5>1 DEF NoHost
      <4> QED BY <4>1 DEF NoHost
    <3>3. Numbers(Flat(rec.items), rec.from, Len(seen))
      BY <1>3, <3>1, <3>2 DEF OrderInv, Recording, Reached
    <3>4. /\ rec.items \in Seq(Item) /\ x.of \in Seq(Nat) /\ rec.from \in Nat
      BY <1>1 DEF RecSet, Item
    <3>5. /\ Flat(rec.items) \in Seq(Nat)
          /\ Flat(rec'.items) = Flat(rec.items) \o x.of
      BY <2>1, <3>1, <3>4, FlatAppend
    <3>6. Numbers(Flat(rec.items) \o x.of, rec.from, Len(seen) + Len(x.of))
      BY <1>1, <3>3, <3>4, <3>5, NumbersConcat
    <3> QED BY <1>3, <2>1, <3>5, <3>6
  <2>7. Recording'
    BY <2>1, <2>4, <2>5, <2>6 DEF Recording
  <2> QED BY <1>3, <2>2, <2>7
<1> QED BY <1>2, <1>3

\* A command that is over or failed, with what happened so far.
LEMMA PacedOver ==
    ASSUME OrderInv, Fail \/ Over, cb.cmd.op # "none", list' = <<>>, NEW a, Grown(a),
           a = "failed" => Fail, UNCHANGED world, entries' = entries \/ ~world.immediate,
           cb.cmd.op = "end" => ids' = <<>>
    PROVE  Paced'
<1>1. /\ cb'.cmd = NoCmdYet /\ cb'.first = cb.first /\ cb'.state \in {"apply", "done", "failed"}
      /\ Fail => cb'.state = "failed"
      /\ cb'.state = "done" => cb.cmd.op = "end"
  BY OverType DEF OrderInv
<1>2. cb.state = "apply"
  BY DEF OrderInv, Paced
<1>3. ASSUME cb'.state # "failed", NEW i \in 1 .. Len(seen'), i >= cb.first
      PROVE  seen'[i][2] # "failed"
  <2>1. CASE i \in 1 .. Len(seen)
    BY <1>2, <1>3, <2>1 DEF OrderInv, Paced, Grown
  <2>2. CASE i > Len(seen)
    BY <1>1, <1>3, <2>2 DEF Grown
  <2>3. Len(seen) \in Nat
    BY DEF OrderInv, HalTypeOK
  <2> QED BY <2>1, <2>2, <2>3
<1>4. cb'.cmd.op = "none"
  BY <1>1 DEF NoCmdYet
<1>5. cb'.state \in {"none", "done"} => ids' = <<>>
  BY <1>1
<1>6. world'.immediate => entries' = <<>>
  BY DEF OrderInv, Paced
<1>7. cb'.state \in {"apply", "done"} =>
         \A i \in 1 .. Len(seen') : i >= cb'.first => seen'[i][2] # "failed"
  BY <1>1, <1>3
<1> QED BY <1>4, <1>5, <1>6, <1>7 DEF Paced

\* Nothing takes effect, nothing changes.
LEMMA GrownNone ==
    ASSUME OrderInv, UNCHANGED seen
    PROVE  \A a : Grown(a)
<1>1. Len(seen) \in Nat
  BY DEF OrderInv, HalTypeOK
<1> QED BY <1>1 DEF Grown

\* The numbers stay 1, 2, ...
LEMMA NumberedGrown ==
    ASSUME OrderInv, NEW a, Grown(a)
    PROVE  \A i \in 1 .. Len(seen') : seen'[i][1] = i
<1> SUFFICES ASSUME NEW i \in 1 .. Len(seen') PROVE seen'[i][1] = i
  OBVIOUS
<1>1. CASE i \in 1 .. Len(seen)
  BY <1>1 DEF OrderInv, Numbered, Grown
<1>2. CASE i > Len(seen)
  BY <1>2 DEF Grown
<1>3. Len(seen) \in Nat
  BY DEF OrderInv, HalTypeOK
<1> QED BY <1>1, <1>2, <1>3

Ordered == Numbered /\ Paced /\ Recording /\ Kept

\* A command buffer starts, or its next command is taken.
LEMMA OrderStart ==
    ASSUME OrderInv, Execute \/ \E c \in Commands : Command(c)
    PROVE  Ordered'
<1>1. UNCHANGED <<entries, list, world, rv, rec, ids, seen>>
  BY DEF Execute, Command, vars
<1>2. /\ cb.state # "apply" \/ cb.cmd = NoCmdYet
      /\ NoCmdYet.op = "none"
      /\ Len(seen) \in Nat /\ Len(ids) \in Nat /\ cb \in CbSet
  <2>1. cb.state # "apply" \/ cb.cmd = NoCmdYet
    <3>1. Execute => cb.state # "apply"
      BY DEF Execute
    <3>2. \A c \in Commands : Command(c) => cb.cmd = NoCmdYet
      BY DEF Command
    <3> QED BY <3>1, <3>2
  <2>2. NoCmdYet.op = "none"
    BY DEF NoCmdYet
  <2>3. seen \in Seq(Nat \X Fate) /\ ids \in Seq(Nat) /\ cb \in CbSet
    BY DEF OrderInv, HalTypeOK
  <2> QED BY <2>1, <2>2, <2>3
<1>3. list = <<>>
  BY <1>2 DEF OrderInv, Paced
<1>4. /\ cb'.state = "apply"
      /\ rec.on => cb.state # "failed"
      /\ cb'.first > Len(seen) \/ (cb'.first = cb.first /\ cb.state = "apply")
  <2>1. CASE Execute
    <3>1. cb'.first = Issued + 1
      BY <2>1 DEF Execute
    <3>2. Issued + 1 > Len(seen)
      BY <1>2 DEF Issued
    <3> QED BY <2>1, <3>1, <3>2 DEF Execute
  <2>2. CASE \E c \in Commands : Command(c)
    BY <1>2, <2>2 DEF Command, CbSet
  <2> QED BY <2>1, <2>2
<1>5. Numbered'
  BY <1>1 DEF OrderInv, Numbered
<1>6. Paced'
  <2>1. ASSUME NEW i \in 1 .. Len(seen), i >= cb'.first PROVE seen[i][2] # "failed"
    <3>1. cb'.first = cb.first /\ cb.state = "apply"
      <4>1. cb'.first \in Nat \/ cb'.first = cb.first
        <5>1. Issued \in Nat
          BY <1>2 DEF Issued
        <5>2. Execute => cb'.first = Issued + 1
          BY DEF Execute
        <5>3. \A c \in Commands : Command(c) => cb'.first = cb.first
          BY <1>2 DEF Command, CbSet
        <5> QED BY <5>1, <5>2, <5>3
      <4> QED BY <1>2, <1>4, <2>1, <4>1 DEF CbSet
    <3> QED BY <2>1, <3>1 DEF OrderInv, Paced
  <2> QED BY <1>1, <1>3, <1>4, <2>1 DEF OrderInv, Paced
<1>7. Reached' = Reached
  BY <1>1 DEF Reached, Issued
<1>8. Recording' /\ Kept'
  BY <1>1, <1>4, <1>7, RecordingQuiet
<1> QED BY <1>5, <1>6, <1>8 DEF Ordered

\* A look-up, or a dispatch refused: the command goes on or fails.
LEMMA OrderLookUp ==
    ASSUME OrderInv, Refuse \/ \E fail \in BOOLEAN : LookUp(fail)
    PROVE  Ordered'
<1>1. UNCHANGED <<entries, list, world, rec, ids, seen>>
  BY DEF Refuse, LookUp, vars
<1>2. list = <<>> /\ cb.cmd.op = "dispatch"
  BY DEF Refuse, LookUp, OrderInv, Paced, Refused
<1>3. UNCHANGED cb \/ Fail
  BY DEF Refuse, LookUp
<1>4. cb.state = "apply"
  BY <1>2 DEF OrderInv, Paced
<1>5. Numbered'
  BY <1>1 DEF OrderInv, Numbered
<1>6. Paced'
  <2>1. CASE UNCHANGED cb
    BY <1>1, <1>2, <2>1 DEF OrderInv, Paced
  <2>2. CASE Fail
    <3>1. Grown("ran")
      BY <1>1, GrownNone
    <3>2. "ran" # "failed"
      OBVIOUS
    <3> QED BY <1>1, <1>2, <2>2, <3>1, PacedOver
  <2> QED BY <1>3, <2>1, <2>2
<1>7. Reached' = Reached
  BY <1>1 DEF Reached, Issued
<1>8. Recording' /\ Kept'
  BY <1>1, <1>4, <1>7, RecordingQuiet
<1> QED BY <1>5, <1>6, <1>8 DEF Ordered

\* A barrier, begin or end.
LEMMA OrderBracket ==
    ASSUME OrderInv, Bracket \/ BarrierCmd
    PROVE  Ordered'
<1>1. list = <<>> /\ cb.cmd.op \in {"begin", "end", "barrier"}
  BY DEF Bracket, BarrierCmd, Ready
<1>2. UNCHANGED <<entries, list, world, rv, rec, ids, seen>> /\ Over
  BY DEF Bracket, BarrierCmd, Flushed, FlushEmpty, Barrier, vars
<1>3. cb.cmd.op = "end" => ids = <<>>
  <2>1. ASSUME cb.cmd.op = "end" PROVE ids = <<>>
    <3>1. entries = <<>>
      BY <2>1 DEF Bracket, BarrierCmd, Ready, Flushes
    <3>2. Len(ids) = 0 /\ ids \in Seq(Nat)
      BY <3>1 DEF OrderInv, Numbered, HalTypeOK
    <3> QED BY <3>2
  <2> QED BY <2>1
<1>4. cb.state = "apply"
  BY <1>1 DEF OrderInv, Paced
<1>5. Numbered'
  BY <1>2 DEF OrderInv, Numbered
<1>6. Paced'
  <2>1. Grown("ran")
    BY <1>2, GrownNone
  <2> QED BY <1>1, <1>2, <1>3, <2>1, PacedOver
<1>7. Reached' = Reached
  BY <1>2 DEF Reached, Issued
<1>8. Recording' /\ Kept'
  BY <1>2, <1>4, <1>7, RecordingQuiet
<1> QED BY <1>5, <1>6, <1>8 DEF Ordered

\* A dispatch joins the batch.
LEMMA OrderAdd ==
    ASSUME OrderInv, AddCmd
    PROVE  Ordered'
<1> DEFINE x == [d |-> cb.cmd.x.d, barrier |-> fence]
<1>1. /\ list = <<>> /\ list' = <<>> /\ cb.cmd.op = "dispatch" /\ ~world.immediate
      /\ entries' = Append(entries, x)
      /\ ids' = Append(ids, Issued + 1) /\ Over /\ UNCHANGED <<world, rv, rec, seen>>
  BY DEF AddCmd, Ready, Add
<1> HIDE DEF x
<1>2. cb.state = "apply"
  BY <1>1 DEF OrderInv, Paced
<1>3. Numbered'
  <2>1. /\ ids \in Seq(Nat) /\ entries \in Seq(Entry) /\ Len(seen) \in Nat
        /\ Len(ids) = Len(entries)
    BY DEF OrderInv, HalTypeOK, Numbered
  <2>2. Issued + 1 = Len(seen) + (Len(ids) + 1) /\ Issued + 1 \in Nat
    BY <2>1 DEF Issued
  <2> DEFINE m == Issued + 1
  <2>3. m = Len(seen) + (Len(ids) + 1) /\ m \in Nat /\ ids' = Append(ids, m)
    BY <1>1, <2>2
  <2> HIDE DEF m
  <2>4. /\ Len(ids) \in Nat /\ Len(ids') = Len(ids) + 1 /\ ids'[Len(ids) + 1] = m
        /\ \A j \in 1 .. Len(ids) : ids'[j] = ids[j]
    BY <2>1, <2>3
  <2>5. Len(entries') = Len(entries) + 1
    <3>1. x \in {x} /\ entries \in Seq(Entry \cup {x})
      BY <2>1
    <3> QED BY <1>1, <3>1
  <2>6. ASSUME NEW j \in 1 .. Len(ids') PROVE ids'[j] = Len(seen) + j
    <3>1. CASE j \in 1 .. Len(ids)
      BY <2>4, <3>1 DEF OrderInv, Numbered
    <3>2. CASE j = Len(ids) + 1
      BY <2>3, <2>4, <3>2
    <3> QED BY <2>4, <3>1, <3>2
  <2> QED BY <1>1, <2>1, <2>4, <2>5, <2>6 DEF OrderInv, Numbered
<1>4. Paced'
  <2>1. Grown("ran")
    BY <1>1, GrownNone
  <2> QED BY <1>1, <2>1, PacedOver
<1>5. Reached' = Reached
  BY <1>1 DEF Reached
<1>6. Recording' /\ Kept'
  BY <1>1, <1>2, <1>5, RecordingQuiet
<1> QED BY <1>3, <1>4, <1>6 DEF Ordered

\* The list of the batch is built, and recorded.
LEMMA OrderFlush ==
    ASSUME OrderInv, NEW mem \in Memory, FlushList(mem)
    PROVE  Ordered'
<1>1. /\ list = <<>> /\ list' = Build(entries) /\ cb.cmd.op # "none" /\ Looked /\ ~Refused
      /\ UNCHANGED <<entries, world, cb, rv, ids, seen>>
      /\ rec' = RecordAdd(rec, [kind |-> "list", of |-> ids], mem)
  BY DEF FlushList, Submit
<1>2. list' # <<>>
  BY <1>1, BuildRight DEF OrderInv, HalTypeOK
<1>3. cb.state = "apply"
  BY <1>1 DEF OrderInv, Paced
<1>4. Numbered'
  BY <1>1 DEF OrderInv, Numbered
<1>5. Paced'
  BY <1>1 DEF OrderInv, Paced, Looked, Refused
<1> DEFINE x == [kind |-> "list", of |-> ids]
<1>6. x \in Item /\ x.of = ids /\ mem \in BOOLEAN
  BY AnswersType DEF Item, OrderInv, HalTypeOK
<1>7. Grown("recorded")
  BY <1>1, GrownNone
<1>8. Reached' = Len(seen) + Len(ids)
  BY <1>1, <1>2 DEF Reached, Issued
<1>9. \A j \in 1 .. Len(ids) : ids[j] = Len(seen) + j
  BY DEF OrderInv, Numbered
<1> HIDE DEF x
<1>10. Recording' /\ (rec.on => Kept') /\ (~rec.on => rec' = rec)
  <2>1. rec' = RecordAdd(rec, x, mem)
    BY <1>1 DEF x
  <2>2. \A j \in 1 .. Len(x.of) : x.of[j] = Len(seen) + j
    BY <1>6, <1>9
  <2>3. rec.on => Grown("recorded") /\ Reached' = Len(seen) + Len(x.of)
    BY <1>6, <1>7, <1>8
  <2>4. cb.state # "failed"
    BY <1>3
  <2> QED BY <1>1, <1>6, <2>1, <2>2, <2>3, <2>4, RecordingItem
<1>11. ASSUME ~rec.on PROVE Kept'
  <2>1. Grown("ran")
    BY <1>1, GrownNone
  <2> QED BY <1>10, <1>11, <2>1, KeptGrown
<1> QED BY <1>4, <1>5, <1>10, <1>11 DEF Ordered

\* The list is over, whatever the answer.
LEMMA OrderDone ==
    ASSUME OrderInv, NEW a \in Answers("list"), FlushDone(a)
    PROVE  Ordered'
<1>1. /\ list # <<>> /\ list' = <<>> /\ entries' = <<>> /\ ids' = <<>>
      /\ seen' = seen \o Fates(ids, a)
      /\ a = "failed" => Fail
      /\ a # "failed" => UNCHANGED cb
      /\ UNCHANGED <<world, rv, rec>>
  BY DEF FlushDone, Return
<1>2. cb.cmd.op # "none" /\ cb.state = "apply" /\ Looked /\ ~Refused
  BY <1>1 DEF OrderInv, Paced
<1>3. a \in Fate /\ (rec.on <=> a = "recorded")
  BY AnswersType DEF Fate, Answers
<1>4. Issued \in Nat /\ Len(seen') = Issued /\ Grown(a)
  BY <1>1, <1>3, GrownBatch
<1>5. Numbered'
  <2>1. \A i \in 1 .. Len(seen') : seen'[i][1] = i
    BY <1>4, NumberedGrown
  <2> QED BY <1>1, <2>1 DEF Numbered
<1>6. Paced'
  <2>1. CASE a = "failed"
    <3>1. Fail
      BY <1>1, <2>1
    <3>2. cb'.state = "failed" /\ cb'.cmd.op = "none"
      BY <3>1, OverType DEF OrderInv, NoCmdYet
    <3> QED BY <1>1, <3>2 DEF Paced
  <2>2. CASE a # "failed"
    <3>1. ASSUME NEW i \in 1 .. Len(seen'), i >= cb.first PROVE seen'[i][2] # "failed"
      <4>1. CASE i \in 1 .. Len(seen)
        BY <1>2, <1>4, <3>1, <4>1 DEF OrderInv, Paced, Grown
      <4>2. CASE i > Len(seen)
        BY <1>4, <2>2, <3>1, <4>2 DEF Grown
      <4>3. Len(seen) \in Nat
        BY DEF OrderInv, HalTypeOK
      <4> QED BY <4>1, <4>2, <4>3
    <3> QED BY <1>1, <1>2, <2>2, <3>1 DEF Paced
  <2> QED BY <2>1, <2>2
<1>7. Reached = Issued /\ Reached' = Len(seen')
  BY <1>1 DEF Reached
<1>8. Recording'
  <2>1. cb.state # "failed"
    BY <1>2
  <2> QED BY <1>1, <1>3, <1>4, <1>7, <2>1, RecordingGrown
<1>9. Kept'
  BY <1>1, <1>3, <1>4, KeptGrown
<1> QED BY <1>5, <1>6, <1>8, <1>9 DEF Ordered

\* The host does it, behind a flush.
LEMMA OrderHost ==
    ASSUME OrderInv, NEW ok \in BOOLEAN, HostCmd(ok)
    PROVE  Ordered'
<1> DEFINE a == IF ok THEN "host" ELSE "failed"
<1>1. /\ list = <<>> /\ cb.cmd.op = "host" /\ entries = <<>>
      /\ seen' = Append(seen, <<Issued + 1, a>>)
      /\ Fail \/ Over
      /\ a = "failed" => Fail
      /\ UNCHANGED <<world, rv, rec, ids, list, entries>>
  BY DEF HostCmd, Ready, Flushes, Flushed, FlushEmpty
<1>2. a = "failed" \/ a = "host"
  OBVIOUS
<1> HIDE DEF a
<1>3. cb.state = "apply"
  BY <1>1 DEF OrderInv, Paced
<1>4. ids = <<>> /\ Issued = Len(seen) /\ Len(seen') = Len(seen) + 1 /\ Grown(a)
  BY <1>1, GrownOne
<1>5. Numbered'
  <2>1. \A i \in 1 .. Len(seen') : seen'[i][1] = i
    BY <1>4, NumberedGrown
  <2>2. Len(ids') = Len(entries') /\ \A j \in 1 .. Len(ids') : ids'[j] = Len(seen') + j
    BY <1>1, <1>4
  <2> QED BY <2>1, <2>2 DEF Numbered
<1>6. Paced'
  BY <1>1, <1>4, PacedOver
<1>7. Recording'
  <2>1. cb.state # "failed"
    BY <1>3
  <2>2. a = "failed" => cb'.state = "failed"
    BY <1>1, OverType DEF OrderInv
  <2>3. Len(seen') > Len(seen)
    BY <1>4 DEF OrderInv, HalTypeOK
  <2> QED BY <1>1, <1>2, <1>4, <2>1, <2>2, <2>3, RecordingGrown
<1>8. Kept'
  BY <1>1, <1>2, <1>4, KeptGrown
<1> QED BY <1>5, <1>6, <1>7, <1>8 DEF Ordered

\* Generated code is called, or a list runs on its own.
LEMMA OrderRun ==
    ASSUME OrderInv, NEW mem \in Memory, NEW k \in {"list", "call"}, NEW a \in Answers(k),
           Call(a, mem) \/ RunNow(a, mem),
           rec' = RecordAdd(rec, [kind |-> k, of |-> <<Issued + 1>>], mem)
    PROVE  Ordered'
<1>1. /\ list = <<>> /\ cb.cmd.op = "dispatch"
      /\ seen' = Append(seen, <<Issued + 1, a>>)
      /\ Fail \/ Over
      /\ a = "failed" => Fail
      /\ UNCHANGED <<world, rv, ids>>
  BY DEF Call, RunNow, Ready
<1>2. entries = <<>> /\ UNCHANGED <<list, entries>>
  <2>1. CASE Call(a, mem)
    BY <2>1 DEF Call, Ready, Flushes, Flushed, FlushEmpty
  <2>2. CASE RunNow(a, mem)
    BY <2>2 DEF RunNow, vars, OrderInv, Paced
  <2> QED BY <2>1, <2>2
<1>3. cb.state = "apply"
  BY <1>1 DEF OrderInv, Paced
<1>4. ids = <<>> /\ Issued = Len(seen) /\ Len(seen') = Len(seen) + 1 /\ Grown(a)
  BY <1>1, <1>2, GrownOne
<1>5. a \in Fate /\ (rec.on <=> a = "recorded")
  BY AnswersType DEF Fate, Answers
<1>6. Numbered'
  <2>1. \A i \in 1 .. Len(seen') : seen'[i][1] = i
    BY <1>4, NumberedGrown
  <2>2. Len(ids') = Len(entries') /\ \A j \in 1 .. Len(ids') : ids'[j] = Len(seen') + j
    BY <1>1, <1>2, <1>4
  <2> QED BY <2>1, <2>2 DEF Numbered
<1>7. Paced'
  BY <1>1, <1>2, <1>4, PacedOver
<1> DEFINE x == [kind |-> k, of |-> <<Issued + 1>>]
<1>8. /\ x \in Item /\ mem \in BOOLEAN /\ Len(x.of) = 1
      /\ \A j \in 1 .. Len(x.of) : x.of[j] = Len(seen) + j
  <2>1. Issued + 1 \in Nat /\ Len(seen) \in Nat
    BY <1>4 DEF OrderInv, HalTypeOK
  <2>2. mem \in BOOLEAN
    BY AnswersType
  <2> DEFINE m == Issued + 1
  <2>3. m \in Nat /\ m = Len(seen) + 1 /\ x.of = <<m>>
    BY <1>4, <2>1
  <2> HIDE DEF m
  <2>4. <<m>> \in Seq(Nat) /\ Len(<<m>>) = 1 /\ <<m>>[1] = m
    BY <2>3
  <2>5. [kind |-> k, of |-> <<m>>] \in Item
    BY <2>4 DEF Item
  <2> QED BY <2>1, <2>2, <2>3, <2>4, <2>5 DEF m
<1>9. rec' = RecordAdd(rec, x, mem)
  OBVIOUS
<1> HIDE DEF x
<1>10. Reached' = Len(seen) + 1
  BY <1>1, <1>2, <1>4 DEF Reached
<1>11. Recording' /\ (rec.on => Kept') /\ (~rec.on => rec' = rec)
  <2>1. rec.on => Grown("recorded") /\ Reached' = Len(seen) + Len(x.of)
    BY <1>4, <1>5, <1>8, <1>10
  <2>2. cb.state # "failed"
    BY <1>3
  <2> QED BY <1>1, <1>8, <1>9, <2>1, <2>2, RecordingItem
<1>12. ASSUME ~rec.on PROVE Kept'
  BY <1>4, <1>5, <1>11, <1>12, KeptGrown
<1> QED BY <1>6, <1>7, <1>11, <1>12 DEF Ordered

\* A recording begins between command buffers...
LEMMA OrderRecordBegin ==
    ASSUME OrderInv, RecordBegin
    PROVE  Ordered'
<1>1. /\ UNCHANGED <<entries, list, world, cb, rv, ids, seen>> /\ cb.state \in {"none", "done"}
      /\ rec' = [NoRecord EXCEPT !.on = TRUE, !.from = Issued + 1]
  BY DEF RecordBegin, vars, Between
<1>2. /\ seen \in Seq(Nat \X Fate) /\ Len(seen) \in Nat /\ ids = <<>> /\ Len(<<>>) = 0
  BY <1>1 DEF OrderInv, HalTypeOK, Paced
<1>3. Issued + 1 = Len(seen) + 1
  BY <1>2 DEF Issued
<1>4. list = <<>>
  BY <1>1 DEF OrderInv, Paced
<1>5. rec' = [on |-> TRUE, items |-> <<>>, dropped |-> 0, from |-> Len(seen) + 1, verdict |-> "none"]
  <2> DEFINE m == Issued + 1
  <2>1. m = Len(seen) + 1 /\ rec' = [NoRecord EXCEPT !.on = TRUE, !.from = m]
    BY <1>1, <1>3
  <2> HIDE DEF m
  <2> QED BY <2>1 DEF NoRecord
<1>6. rec'.on /\ rec'.from = Len(seen) + 1 /\ rec'.items = <<>> /\ rec'.verdict = "none"
  BY <1>5
<1>7. Kept'
  BY <1>6 DEF Kept
<1>8. Numbers(Flat(<<>>), Len(seen) + 1, Len(seen))
  BY <1>2, FlatEmpty DEF Numbers
<1>9. Recording'
  <2>1. Reached' = Len(seen)
    BY <1>1, <1>4 DEF Reached
  <2>2. Len(seen) + 1 \in 1 .. Len(seen') + 1
    BY <1>1, <1>2
  <2>3. \A i \in 1 .. Len(seen') : ~(i >= Len(seen) + 1)
    BY <1>1, <1>2
  <2>4. Numbers(Flat(rec'.items), rec'.from, Reached')
    BY <1>6, <1>8, <2>1
  <2> QED BY <1>6, <2>2, <2>3, <2>4 DEF Recording
<1>10. Numbered'
  BY <1>1 DEF OrderInv, Numbered
<1>11. Paced'
  BY <1>1 DEF OrderInv, Paced, Looked, Refused
<1> QED BY <1>7, <1>9, <1>10, <1>11 DEF Ordered

\* ... and ends after one, kept or refused.
LEMMA OrderRecordEnd ==
    ASSUME OrderInv, RecordEnd
    PROVE  Ordered'
<1>1. /\ UNCHANGED <<entries, list, world, cb, rv, ids, seen>> /\ cb.state \in {"done", "failed"}
      /\ rec.on /\ rec \in RecSet
  BY DEF RecordEnd, vars, OrderInv, HalTypeOK
<1>2. /\ ~rec'.on /\ rec'.items = rec.items /\ rec'.from = rec.from
      /\ rec'.verdict = "kept" =>
            cb.state # "failed" /\ ~HostDid /\ ~(rec.dropped > 0)
  BY <1>1 DEF RecordEnd, RecSet
<1>3. list = <<>> /\ Len(seen) \in Nat /\ seen \in Seq(Nat \X Fate)
  BY <1>1 DEF OrderInv, Paced, HalTypeOK
<1>4. ASSUME rec'.verdict = "kept" PROVE Kept'
  <2>1. rec.dropped = 0
    BY <1>1, <1>2, <1>4 DEF RecSet
  <2>2. NoHost
    <3>1. ASSUME NEW i \in 1 .. Len(seen), i >= rec.from PROVE seen[i][2] # "host"
      <4>1. i \in SinceRecord
        BY <1>3, <3>1 DEF SinceRecord, OrderInv, Numbered
      <4> QED BY <1>2, <1>4, <4>1 DEF HostDid
    <3> QED BY <3>1 DEF NoHost
  <2>3. Numbers(Flat(rec.items), rec.from, Len(seen))
    BY <1>1, <1>2, <1>3, <1>4, <2>1, <2>2 DEF OrderInv, Recording, Reached
  <2>4. ASSUME NEW i \in 1 .. Len(seen), i >= rec.from
        PROVE  seen[i][2] = "recorded" <=> i <= Len(seen)
    <3>1. seen[i][2] \in {"recorded", "host"} /\ seen[i][2] # "host"
      BY <1>1, <1>2, <1>4, <2>2, <2>4 DEF OrderInv, Recording, NoHost
    <3> QED BY <1>3, <3>1
  <2>5. Len(seen) \in 0 .. Len(seen)
    BY <1>3
  <2> QED BY <1>1, <1>2, <2>3, <2>4, <2>5 DEF Kept
<1>5. Kept'
  BY <1>4 DEF Kept
<1>6. Recording'
  BY <1>2 DEF Recording
<1>7. Numbered'
  BY <1>1 DEF OrderInv, Numbered
<1>8. Paced'
  BY <1>1 DEF OrderInv, Paced, Looked, Refused
<1> QED BY <1>5, <1>6, <1>7, <1>8 DEF Ordered

\* The order's invariant holds at first...
LEMMA OrderInit == HalInit => OrderInv
<1> SUFFICES ASSUME HalInit PROVE OrderInv
  OBVIOUS
<1>1. /\ entries = <<>> /\ list = <<>> /\ ids = <<>> /\ seen = <<>> /\ rec = NoRecord
      /\ cb.cmd.op = "none" /\ cb.state = "none" /\ Len(<<>>) = 0
  BY DEF HalInit, BatchInit, NoCmdYet
<1>2. Numbered /\ Paced
  BY <1>1 DEF Numbered, Paced
<1>3. ~rec.on /\ rec.verdict = "none"
  BY <1>1 DEF NoRecord
<1>4. Recording /\ Kept
  BY <1>3 DEF Recording, Kept
<1> QED BY <1>2, <1>4, HalTypeInit DEF OrderInv

\* ...and every step keeps it.
LEMMA OrderNext ==
    ASSUME OrderInv, [HalNext]_<<vars, halVars, arenaVars>>
    PROVE  OrderInv'
<1>1. HalTypeOK'
  BY HalTypeNext DEF OrderInv
<1>2. ASSUME NEW mem \in Memory, NEW a \in Answers("call"), Call(a, mem) PROVE Ordered'
  <2>1. rec' = RecordAdd(rec, [kind |-> "call", of |-> <<Issued + 1>>], mem)
    BY <1>2 DEF Call
  <2> QED BY <1>2, <2>1, OrderRun
<1>3. ASSUME NEW mem \in Memory, NEW a \in Answers("list"), RunNow(a, mem) PROVE Ordered'
  <2>1. rec' = RecordAdd(rec, [kind |-> "list", of |-> <<Issued + 1>>], mem)
    BY <1>3 DEF RunNow
  <2> QED BY <1>3, <2>1, OrderRun
<1>4. ASSUME DispatchNext PROVE Ordered'
  BY <1>2, <1>3, <1>4, OrderStart, OrderLookUp, OrderBracket, OrderAdd, OrderFlush, OrderDone,
     OrderHost, OrderRecordBegin, OrderRecordEnd DEF DispatchNext
<1>5. ASSUME UNCHANGED <<vars, halVars>> PROVE Ordered'
  <2>1. UNCHANGED <<entries, list, world, cb, rv, rec, ids, seen>>
    BY <1>5 DEF vars, halVars
  <2>2. Numbered' /\ Paced'
    BY <2>1 DEF OrderInv, Numbered, Paced, Looked, Refused
  <2>3. Reached' = Reached
    BY <2>1 DEF Reached, Issued
  <2>4. Recording' /\ Kept'
    BY <2>1, <2>3, RecordingQuiet
  <2> QED BY <2>2, <2>4 DEF Ordered
<1>6. Ordered'
  BY <1>4, <1>5 DEF HalNext
<1> QED BY <1>1, <1>6 DEF OrderInv, Ordered

\* Numbered is the program's order.
LEMMA InOrderOfProgram == OrderInv => ProgramOrder
<1> SUFFICES ASSUME OrderInv PROVE ProgramOrder
  OBVIOUS
<1>1. /\ seen \in Seq(Nat \X Fate) /\ ids \in Seq(Nat) /\ Len(seen) \in Nat /\ Len(ids) \in Nat
      /\ DOMAIN seen = 1 .. Len(seen)
  BY DEF OrderInv, HalTypeOK
<1> DEFINE F == [i \in DOMAIN seen |-> seen[i][1]]
           G == [i \in 1 .. Issued |-> i]
<1>2. \A i \in 1 .. Len(seen) : seen[i][1] = i
  BY DEF OrderInv, Numbered
<1>3. F = [i \in 1 .. Len(seen) |-> i]
  BY <1>1, <1>2
<1>4. F \in Seq(Nat) /\ Len(F) = Len(seen)
  BY <1>1, <1>3
<1>5. Issued = Len(seen) + Len(ids) /\ Issued \in Nat
  BY <1>1 DEF Issued
<1>6. G \in Seq(Nat) /\ Len(G) = Issued
  <2>1. \A i \in 1 .. Issued : i \in Nat
    OBVIOUS
  <2> HIDE DEF Issued
  <2> QED BY <1>5, <2>1
<1>7. \A i \in 1 .. Len(seen) : F[i] = i
  BY <1>3
<1> HIDE DEF F
<1>8. /\ F \o ids \in Seq(Nat) /\ Len(F \o ids) = Len(seen) + Len(ids)
      /\ \A i \in 1 .. Len(seen) + Len(ids) :
            (F \o ids)[i] = IF i <= Len(seen) THEN F[i] ELSE ids[i - Len(seen)]
  <2>1. /\ F \o ids \in Seq(Nat) /\ Len(F \o ids) = Len(F) + Len(ids)
        /\ \A i \in 1 .. Len(F) + Len(ids) :
              (F \o ids)[i] = IF i <= Len(F) THEN F[i] ELSE ids[i - Len(F)]
    BY <1>1, <1>4, ConcatProperties
  <2> QED BY <1>4, <2>1
<1>9. ASSUME NEW i \in 1 .. Len(seen) + Len(ids) PROVE (F \o ids)[i] = i
  <2>1. CASE i <= Len(seen)
    BY <1>1, <1>7, <1>8, <2>1
  <2>2. CASE i > Len(seen)
    <3>1. i - Len(seen) \in 1 .. Len(ids) /\ ~(i <= Len(seen))
      BY <1>1, <2>2
    <3>2. ids[i - Len(seen)] = Len(seen) + (i - Len(seen))
      BY <3>1 DEF OrderInv, Numbered
    <3> QED BY <1>1, <1>8, <3>1, <3>2
  <2>3. i <= Len(seen) \/ i > Len(seen)
    BY <1>1
  <2> QED BY <2>1, <2>2, <2>3
<1>10. \A i \in 1 .. Issued : G[i] = i
  OBVIOUS
<1> HIDE DEF G
<1>11. F \o ids = G
  <2>1. Len(F \o ids) = Len(G) /\ \A i \in 1 .. Len(F \o ids) : (F \o ids)[i] = G[i]
    BY <1>5, <1>6, <1>8, <1>9, <1>10
  <2> QED BY <1>6, <1>8, <2>1, SeqEqual
<1>12. ASSUME cb.state = "done"
       PROVE  ids = <<>> /\ \A i \in DOMAIN seen : seen[i][1] >= cb.first => seen[i][2] # "failed"
  BY <1>1, <1>2, <1>12 DEF OrderInv, Paced
<1> QED BY <1>11, <1>12 DEF ProgramOrder, F, G

\* The numbers recorded are those of the step.
LEMMA ExactlyRecorded == OrderInv => RecordExact
<1> SUFFICES ASSUME OrderInv, rec.verdict = "kept" PROVE RecordExact
  BY DEF RecordExact
<1>1. ~rec.on
  BY DEF OrderInv, Recording
<1>2. PICK b \in 0 .. Len(seen) :
         /\ Numbers(Flat(rec.items), rec.from, b)
         /\ \A i \in 1 .. Len(seen) : i >= rec.from => (seen[i][2] = "recorded" <=> i <= b)
  BY <1>1 DEF OrderInv, Kept
<1>3. /\ rec.items \in Seq(Item) /\ rec.from \in Nat /\ seen \in Seq(Nat \X Fate) /\ Len(seen) \in Nat
      /\ \A i \in 1 .. Len(seen) : seen[i][1] = i
  BY DEF OrderInv, HalTypeOK, RecSet, Numbered
<1> DEFINE F == Flat(rec.items)
           n == Len(F)
           G == [i \in 1 .. n |-> rec.from + i - 1]
<1>4. F \in Seq(Nat) /\ n \in Nat
  BY <1>3, FlatType
<1> HIDE DEF F
<1>5. n = (b - rec.from) + 1 /\ \A i \in 1 .. n : F[i] = (rec.from + i) - 1
  BY <1>2 DEF Numbers, F
<1>6. F = G
  <2>1. \A i \in 1 .. n : (rec.from + i) - 1 = rec.from + i - 1
    BY <1>3
  <2>2. F = [i \in 1 .. n |-> F[i]]
    BY <1>4
  <2> QED BY <1>5, <2>1, <2>2
<1>7. ASSUME NEW i \in DOMAIN seen, seen[i][1] >= rec.from
      PROVE  seen[i][2] = "recorded" <=> seen[i][1] < rec.from + n
  <2>1. i \in 1 .. Len(seen) /\ seen[i][1] = i
    BY <1>3
  <2>2. i <= b <=> i < rec.from + n
    BY <1>3, <1>4, <1>5, <2>1
  <2> QED BY <1>2, <1>7, <2>1, <2>2
<1> QED BY <1>6, <1>7 DEF RecordExact, F

\* Commands take effect once, in the order of the program, through full batches,
\* failed lists and command buffers given up on; a command buffer that is done
\* has nothing left in the batch and nothing of it failed (queue_execute,
\* sa_command_buffer.c).
THEOREM AlwaysProgramOrder == HalSpec => []ProgramOrder
<1> USE DEF HalSpec
<1>1. HalInit => OrderInv
  BY OrderInit
<1>2. OrderInv /\ [HalNext]_<<vars, halVars, arenaVars>> => OrderInv'
  BY OrderNext
<1>3. OrderInv => ProgramOrder
  BY InOrderOfProgram
<1> QED BY <1>1, <1>2, <1>3, PTL

\* A recording that was kept is what the step did, all of it, in order, and none
\* of it ran (sa_record_add, sa_rvsched_record_begin and _end).
THEOREM AlwaysRecordExact == HalSpec => []RecordExact
<1> USE DEF HalSpec
<1>1. HalInit => OrderInv
  BY OrderInit
<1>2. OrderInv /\ [HalNext]_<<vars, halVars, arenaVars>> => OrderInv'
  BY OrderNext
<1>3. OrderInv => RecordExact
  BY ExactlyRecorded
<1> QED BY <1>1, <1>2, <1>3, PTL

-----------------------------------------------------------------------------
(***************************************************************************)
(* The arena.  The headers the walk meets are described by what they are,  *)
(* a chain of blocks end to end, in place of how the walk finds them.      *)
(***************************************************************************)
Cell == [size : Nat, used : BOOLEAN, data : Client \cup {NoClient}]
Heaps == [Unit -> Cell]

\* The blocks that start at B follow each other from heap_begin to heap_end.
Chain(m, B) ==
    /\ B \subseteq Unit /\ 0 \in B
    /\ \A b \in B : m[b].size > 0 /\ b + m[b].size \in B \cup {HeapSize}
    /\ \A b, c \in B : b < c => b + m[b].size <= c

\* The heads of a chain lie in the heap, and so do their blocks.
LEMMA ChainNat ==
    ASSUME NEW m \in Heaps, NEW B, Chain(m, B)
    PROVE  /\ HeapSize \in Nat /\ HeapSize > 0
           /\ \A b \in B : /\ b \in Nat /\ b < HeapSize /\ b \in Unit
                           /\ m[b] \in Cell /\ m[b].size \in Nat /\ m[b].used \in BOOLEAN
                           /\ b + m[b].size \in Nat /\ b + m[b].size <= HeapSize
<1>1. HeapSize \in Nat /\ HeapSize > 0
  BY ArenaAssumption
<1>2. ASSUME NEW b \in B
      PROVE  /\ b \in Nat /\ b < HeapSize /\ b \in Unit
             /\ m[b] \in Cell /\ m[b].size \in Nat /\ m[b].used \in BOOLEAN
             /\ b + m[b].size \in Nat /\ b + m[b].size <= HeapSize
  <2>1. b \in Unit /\ B \subseteq Unit /\ b + m[b].size \in B \cup {HeapSize}
    BY DEF Chain
  <2>2. b \in Nat /\ b < HeapSize
    BY <1>1, <2>1 DEF Unit
  <2>3. m[b] \in Cell
    BY <2>1 DEF Heaps
  <2>4. m[b].size \in Nat /\ m[b].used \in BOOLEAN
    BY <2>3 DEF Cell
  <2>5. b + m[b].size <= HeapSize
    <3>1. b + m[b].size \in Unit \cup {HeapSize}
      BY <2>1
    <3> QED BY <1>1, <3>1 DEF Unit
  <2> QED BY <2>1, <2>2, <2>3, <2>4, <2>5
<1> QED BY <1>1, <1>2

\* The walk from heap_begin meets the blocks of the chain and no other.
LEMMA HeadsChain ==
    ASSUME NEW m \in Heaps, NEW B, Chain(m, B)
    PROVE  Heads(m) = B
<1> DEFINE S == B \cup {HeapSize}
           To(x) == IF x < HeapSize THEN x + m[x].size ELSE x
           step == [k \in 1 .. HeapSize |-> [x \in B \cup {HeapSize} |->
                       IF x < HeapSize THEN x + m[x].size ELSE x]]
           at == CHOOSE f : f = [k \in 0 .. HeapSize |->
                    IF k = 0 THEN 0
                    ELSE LET b == f[k - 1] IN IF b < HeapSize THEN b + m[b].size ELSE b]
           n == HeapSize
<1>1. n \in Nat /\ n > 0 /\ 0 \in S
  BY ChainNat DEF Chain
<1>2. \A x \in S : To(x) \in S /\ x \in Nat
  BY ChainNat DEF Chain
<1>3. step \in [1 .. n -> [S -> S]]
  BY <1>2
<1>4. \E f \in [0 .. n -> S] : Recurs(f, n, 0, step)
  <2> HIDE DEF step, at, S, n
  <2> QED BY <1>1, <1>3, Recursion, Zenon
<1>5. PICK f \in [0 .. n -> S] :
         f[0] = 0 /\ \A k \in 1 .. n : f[k] = step[k][f[k - 1]]
  BY <1>4 DEF Recurs
<1>6. f = [k \in 0 .. n |-> IF k = 0 THEN 0 ELSE To(f[k - 1])]
  <2>1. ASSUME NEW k \in 1 .. n PROVE f[k] = To(f[k - 1])
    <3>1. k - 1 \in 0 .. n /\ f[k - 1] \in S
      <4>1. k - 1 \in 0 .. n
        BY <1>1
      <4> HIDE DEF S
      <4> QED BY <4>1
    <3>2. step[k][f[k - 1]] = To(f[k - 1])
      BY <3>1
    <3> QED BY <1>5, <3>2
  <2> HIDE DEF S, step, To
  <2> QED BY <1>1, <1>5, <2>1
<1>7. at = [k \in 0 .. n |-> IF k = 0 THEN 0 ELSE To(at[k - 1])]
  BY <1>6
<1>8. Heads(m) = {at[k] : k \in 0 .. n} \cap Unit
  BY DEF Heads
<1> HIDE DEF at, step, n
<1>9. at[0] = 0 /\ \A k \in 1 .. n : at[k] = To(at[k - 1])
  BY <1>1, <1>7
\* The walk stays on the chain, and goes on until the end.
<1> DEFINE T == {k \in 0 .. n : at[k] \in S /\ (at[k] >= k \/ at[k] = HeapSize)}
<1>10. 0 \in T
  BY <1>1, <1>9
<1>11. ASSUME NEW k \in 0 .. n - 1, k \in T PROVE k + 1 \in T
  <2>1. k + 1 \in 1 .. n /\ (k + 1) - 1 = k /\ k \in Nat
    BY <1>1
  <2>2. at[k + 1] = To(at[k]) /\ at[k] \in S /\ (at[k] >= k \/ at[k] = HeapSize)
    BY <1>9, <1>11, <2>1
  <2> DEFINE x == at[k]
  <2>3. x \in S /\ x \in Nat /\ at[k + 1] = To(x) /\ To(x) \in S /\ To(x) \in Nat
    BY <1>2, <2>2
  <2> HIDE DEF x
  <2>4. x >= k \/ x = HeapSize
    BY <2>2 DEF x
  <2>5. To(x) >= k + 1 \/ To(x) = HeapSize
    <3>1. CASE x < HeapSize
      <4>1. x \in B
        BY <2>3, <3>1
      <4>2. m[x].size \in Nat /\ m[x].size > 0
        BY <4>1, ChainNat DEF Chain
      <4> QED BY <2>1, <2>3, <2>4, <3>1, <4>2
    <3>2. CASE ~(x < HeapSize)
      <4>1. x = HeapSize
        BY <2>3, <3>2, ChainNat
      <4> QED BY <3>2, <4>1
    <3> QED BY <3>1, <3>2
  <2> HIDE DEF S, To
  <2> QED BY <2>1, <2>3, <2>5
<1>12. \A k \in 0 .. n : k \in T
  <2> HIDE DEF T
  <2> QED BY <1>1, <1>10, <1>11, InductTo
<1>13. \A k \in 0 .. n : at[k] \in S /\ at[k] \in Nat /\ (at[k] >= k \/ at[k] = HeapSize)
  BY <1>2, <1>12
<1> HIDE DEF T
<1>14. Heads(m) \subseteq B
  <2>1. \A x \in Unit : x # HeapSize
    BY <1>1 DEF Unit, n
  <2> QED BY <1>8, <1>13, <2>1
<1>15. ASSUME NEW b \in B, \A k \in 0 .. n : at[k] # b PROVE FALSE
  <2> DEFINE U == {k \in 0 .. n : at[k] < b}
  <2>1. b \in Nat /\ b < HeapSize
    BY ChainNat
  <2>2. 0 \in U
    <3>1. 0 # b /\ 0 \in 0 .. n
      BY <1>1, <1>9, <1>15
    <3> QED BY <1>9, <2>1, <3>1
  <2>3. ASSUME NEW k \in 0 .. n - 1, k \in U PROVE k + 1 \in U
    <3>1. k + 1 \in 1 .. n /\ k + 1 \in 0 .. n /\ (k + 1) - 1 = k
      BY <1>1
    <3>2. at[k] \in S /\ at[k] \in Nat /\ at[k] < b /\ at[k + 1] = To(at[k]) /\ at[k + 1] # b
          /\ at[k + 1] \in Nat
      BY <1>9, <1>13, <1>15, <2>3, <3>1
    <3> DEFINE x == at[k]
               y == at[k + 1]
    <3>3. x \in B /\ x < b /\ y = x + m[x].size /\ y # b /\ y \in Nat
      <4>1. HeapSize \in Nat /\ x < HeapSize /\ x # HeapSize
        BY <2>1, <3>2, ChainNat
      <4>2. To(x) = x + m[x].size
        BY <4>1
      <4> HIDE DEF To, x, y
      <4> QED BY <3>2, <4>1, <4>2 DEF x, y
    <3> HIDE DEF x, y
    <3>4. x + m[x].size <= b
      BY <3>3 DEF Chain
    <3>5. y < b
      BY <2>1, <3>3, <3>4
    <3> QED BY <3>1, <3>5 DEF y
  <2>4. n \in U
    <3> HIDE DEF U
    <3>1. \A k \in 0 .. n : k \in U
      BY <1>1, <2>2, <2>3, InductTo
    <3> QED BY <1>1, <3>1
  <2>5. at[n] < b /\ n \in 0 .. n
    BY <1>1, <2>4
  <2>6. at[n] \in Nat /\ (at[n] >= n \/ at[n] = HeapSize)
    BY <1>13, <2>5
  <2> QED BY <2>1, <2>5, <2>6 DEF n
<1>16. B \subseteq Heads(m)
  <2>1. B \subseteq Unit
    BY DEF Chain
  <2> QED BY <1>8, <1>15, <2>1
<1> QED BY <1>14, <1>16

\* A chain is one of sizes.
LEMMA ChainSame ==
    ASSUME NEW m, NEW w, NEW B, Chain(m, B), \A b \in B : w[b].size = m[b].size
    PROVE  Chain(w, B)
  BY DEF Chain

\* Every block but the first follows one.
LEMMA ChainBefore ==
    ASSUME NEW m \in Heaps, NEW B, Chain(m, B), NEW b \in Nat, b # 0, b \in B \cup {HeapSize}
    PROVE  \E g \in B : g < b /\ g + m[g].size = b
<1> DEFINE T == {k \in Nat : \E g \in B : g < b /\ k = b - g}
<1>1. T # {}
  <2>1. 0 \in B /\ 0 < b /\ b - 0 = b
    BY DEF Chain
  <2> QED BY <2>1
<1>2. PICK k \in T : \A y \in T : k <= y
  <2>1. T \in SUBSET Nat
    OBVIOUS
  <2> HIDE DEF T
  <2> QED BY <1>1, <2>1, Least
<1>3. PICK g \in B : g < b /\ k = b - g
  BY <1>2
<1>4. /\ g \in Nat /\ g + m[g].size \in Nat /\ g + m[g].size <= b
      /\ m[g].size \in Nat /\ m[g].size > 0 /\ g + m[g].size \in B \cup {HeapSize}
  <2>1. /\ g \in Nat /\ g + m[g].size \in Nat /\ m[g].size \in Nat /\ m[g].size > 0
        /\ g + m[g].size \in B \cup {HeapSize} /\ g + m[g].size <= HeapSize
    BY ChainNat DEF Chain
  <2>2. g + m[g].size <= b
    BY <1>3, <2>1 DEF Chain
  <2> QED BY <2>1, <2>2
<1>5. ASSUME g + m[g].size < b PROVE FALSE
  <2> DEFINE h == g + m[g].size
  <2>1. h \in Nat /\ h < b /\ h > g /\ h \in B \cup {HeapSize}
    BY <1>4, <1>5
  <2>2. b <= HeapSize
    BY ChainNat
  <2>3. h \in B
    BY <2>1, <2>2, ChainNat
  <2> HIDE DEF h
  <2>4. b - h \in T
    BY <2>1, <2>3
  <2>5. k <= b - h
    BY <1>2, <2>4
  <2> QED BY <1>3, <1>4, <2>1, <2>5
<1> QED BY <1>3, <1>4, <1>5

\* Every unit is in a block, and in one only.
LEMMA ChainCovers ==
    ASSUME NEW m \in Heaps, NEW B, Chain(m, B), NEW u \in Unit
    PROVE  \E b \in B : b <= u /\ u < b + m[b].size
<1> DEFINE T == {x \in Nat : x > u /\ x \in B \cup {HeapSize}}
<1>1. HeapSize \in T /\ u \in Nat
  BY ChainNat DEF Unit
<1>2. PICK x \in T : \A y \in T : x <= y
  <2>1. T \in SUBSET Nat /\ T # {}
    BY <1>1
  <2> HIDE DEF T
  <2> QED BY <2>1, Least
<1>3. PICK b \in B : b < x /\ b + m[b].size = x
  BY <1>1, <1>2, ChainBefore
<1>4. b <= u
  <2>1. b \in Nat
    BY ChainNat
  <2>2. ~(b > u)
    <3>1. ASSUME b > u PROVE FALSE
      <4>1. b \in T
        BY <2>1, <3>1
      <4> QED BY <1>2, <1>3, <2>1, <4>1
    <3> QED BY <3>1
  <2> QED BY <1>1, <2>1, <2>2
<1> QED BY <1>2, <1>3, <1>4

\* The blocks of a chain do not overlap.
LEMMA ChainApart ==
    ASSUME NEW m \in Heaps, NEW B, Chain(m, B), NEW b \in B, NEW c \in B, NEW u \in Nat,
           b <= u, u < b + m[b].size, c <= u, u < c + m[c].size
    PROVE  b = c
<1>1. /\ b \in Nat /\ c \in Nat /\ b + m[b].size \in Nat /\ c + m[c].size \in Nat
  BY ChainNat
<1>2. ~(b < c) /\ ~(c < b)
  BY <1>1 DEF Chain
<1> QED BY <1>1, <1>2

\* A free block, and the end of the run of free blocks from it.
RunOf(m, B, f) ==
    /\ f.at \in B /\ ~m[f.at].used
    /\ f.end \in B \cup {HeapSize} /\ f.at < f.end
    /\ f.end \in B => m[f.end].used
    /\ \A h \in B : m[h].used /\ h > f.at => h >= f.end

\* The runs of free blocks the walk finds are those of the chain, one at every
\* free head.
LEMMA EndsAre ==
    ASSUME NEW m \in Heaps, NEW B, Chain(m, B)
    PROVE  /\ \A f \in Ends(m) : RunOf(m, B, f) /\ f = [at |-> f.at, end |-> f.end]
           /\ \A b \in B : ~m[b].used => \E f \in Ends(m) : f.at = b
           /\ \A f, g \in Ends(m) : f.at = g.at => f = g
<1> DEFINE used == {h \in B : m[h].used}
           After(b) == {h \in used : h > b} \cup {HeapSize}
           EndOf(b) == Min(After(b))
<1>1. Ends(m) = {[at |-> b, end |-> EndOf(b)] : b \in B \ used}
  BY HeadsChain DEF Ends
<1>2. ASSUME NEW b \in B \ used
      PROVE  RunOf(m, B, [at |-> b, end |-> EndOf(b)])
  <2>1. After(b) \in SUBSET Nat /\ After(b) # {}
    BY ChainNat
  <2>2. PICK x \in After(b) : \A y \in After(b) : x <= y
    <3> HIDE DEF After
    <3> QED BY <2>1, Least
  <2>3. EndOf(b) \in After(b) /\ \A y \in After(b) : EndOf(b) <= y
    <3> HIDE DEF After
    <3> QED BY <2>2 DEF Min
  <2> DEFINE x1 == EndOf(b)
  <2>4. x1 \in After(b) /\ \A y \in After(b) : x1 <= y
    BY <2>3
  <2> HIDE DEF x1, EndOf
  <2>5. x1 \in B \cup {HeapSize} /\ b < x1 /\ (x1 \in B => m[x1].used)
    <3>1. b < HeapSize /\ ~(HeapSize \in B)
      BY ChainNat
    <3> QED BY <2>4, <3>1
  <2>6. \A h \in B : m[h].used /\ h > b => h >= x1
    <3>1. \A h \in B : m[h].used /\ h > b => x1 <= h
      BY <2>4
    <3>2. x1 \in Nat /\ \A h \in B : h \in Nat
      BY <2>5, ChainNat
    <3> QED BY <3>1, <3>2
  <2> QED BY <2>5, <2>6 DEF RunOf, x1
<1> HIDE DEF EndOf
<1>3. \A f \in Ends(m) : RunOf(m, B, f) /\ f = [at |-> f.at, end |-> f.end]
  <2>1. SUFFICES ASSUME NEW f \in Ends(m) PROVE RunOf(m, B, f) /\ f = [at |-> f.at, end |-> f.end]
    OBVIOUS
  <2>2. PICK b \in B \ used : f = [at |-> b, end |-> EndOf(b)]
    BY <1>1
  <2> HIDE DEF used
  <2> QED BY <1>2, <2>2
<1>4. ASSUME NEW b \in B, ~m[b].used PROVE \E f \in Ends(m) : f.at = b
  <2>1. [at |-> b, end |-> EndOf(b)] \in Ends(m)
    BY <1>1, <1>4
  <2> QED BY <2>1
<1>5. \A f, g \in Ends(m) : f.at = g.at => f = g
  BY <1>1
<1> QED BY <1>3, <1>4, <1>5

\* The runs R of free blocks, none from within another.
Disjoint(m, B, R) ==
    /\ \A r \in R : RunOf(m, B, r)
    /\ \A r, q \in R : /\ r.at = q.at => r = q
                       /\ ~(r.at < q.at /\ q.at < r.end)

\* The blocks left when each of the runs is one block
Left(B, R) == {h \in B : \A r \in R : ~(r.at < h /\ h < r.end)}

\* Blocks in use are still blocks, with what was in them.
Keeps(m, B, w, C) ==
    \A h \in B : m[h].used =>
        /\ h \in C
        /\ \A u \in h .. h + m[h].size - 1 : w[u] = m[u]

\* The heap w is m with each of the runs R one free block.
Joined(m, R, w) ==
    /\ w \in Heaps
    /\ \A r \in R : w[r.at].size = r.end - r.at /\ ~w[r.at].used
    /\ \A u \in Unit : (\A r \in R : r.at # u) => w[u] = m[u]

\* Merging free runs leaves a chain, and the blocks in use alone.
LEMMA MergedAt ==
    ASSUME NEW m \in Heaps, NEW B, Chain(m, B), NEW R, Disjoint(m, B, R)
    PROVE  Joined(m, R, Merged(m, R))
<1> DEFINE at == {r.at : r \in R}
           w == Merged(m, R)
           At(u) == CHOOSE r \in R : r.at = u
           Size(u) == At(u).end - u
<1>1. w = [u \in Unit |-> IF u \in at THEN Header(Size(u), FALSE) ELSE m[u]]
  BY DEF Merged
<1>2. ASSUME NEW r \in R
      PROVE  r.at \in Unit /\ Size(r.at) = r.end - r.at /\ r.end - r.at \in Nat
  <2>1. RunOf(m, B, r)
    BY DEF Disjoint
  <2>2. /\ r.at \in B /\ r.at \in Unit /\ r.at \in Nat /\ r.end \in Nat /\ r.at < r.end
    BY <2>1, ChainNat DEF RunOf
  <2>3. At(r.at) = r
    <3>1. \A q \in R : q.at = r.at => q = r
      BY DEF Disjoint
    <3>2. \E q \in R : q.at = r.at
      OBVIOUS
    <3>3. At(r.at) \in R /\ At(r.at).at = r.at
      BY <3>2
    <3> HIDE DEF At
    <3> QED BY <3>1, <3>3
  <2> HIDE DEF At
  <2>4. Size(r.at) = r.end - r.at
    BY <2>3
  <2> HIDE DEF Size
  <2> QED BY <2>2, <2>4
<1> HIDE DEF Size
<1>3. \A r \in R : w[r.at] = Header(r.end - r.at, FALSE)
  BY <1>1, <1>2
<1>4. \A u \in Unit : (\A r \in R : r.at # u) => w[u] = m[u]
  BY <1>1
<1>5. ASSUME NEW u \in Unit PROVE w[u] \in Cell
  <2>1. CASE u \in at
    <3>1. PICK r \in R : r.at = u
      BY <2>1
    <3>2. w[u] = Header(r.end - r.at, FALSE) /\ r.end - r.at \in Nat
      BY <1>2, <1>3, <3>1
    <3> QED BY <3>2 DEF Header, Cell
  <2>2. CASE u \notin at
    BY <1>1, <2>2 DEF Heaps
  <2> QED BY <2>1, <2>2
<1>6. w \in Heaps
  BY <1>1, <1>5 DEF Heaps
<1> HIDE DEF w
<1>7. \A r \in R : w[r.at].size = r.end - r.at /\ ~w[r.at].used
  <2>1. SUFFICES ASSUME NEW r \in R PROVE w[r.at].size = r.end - r.at /\ ~w[r.at].used
    OBVIOUS
  <2>2. w[r.at] = Header(r.end - r.at, FALSE)
    BY <1>3
  <2> QED BY <2>2 DEF Header
<1>8. Joined(m, R, w)
  BY <1>4, <1>6, <1>7 DEF Joined
<1> QED BY <1>8 DEF w

\* Merging free runs keeps the chain and every used head.
LEMMA MergedChain ==
    ASSUME NEW m \in Heaps, NEW B, Chain(m, B), NEW R, Disjoint(m, B, R)
    PROVE  /\ Chain(Merged(m, R), Left(B, R))
           /\ \A r \in R : r.at \in Left(B, R)
           /\ \A h \in B : m[h].used => h \in Left(B, R) /\ \A r \in R : r.at # h
<1> DEFINE w == Merged(m, R)
           C == Left(B, R)
<1>1. /\ C \subseteq B /\ B \subseteq Unit /\ 0 \in B
      /\ \A r \in R : w[r.at].size = r.end - r.at
      /\ \A u \in Unit : (\A r \in R : r.at # u) => w[u] = m[u]
  <2>1. Joined(m, R, w)
    BY MergedAt
  <2> HIDE DEF w
  <2> QED BY <2>1 DEF Left, Chain, Joined
<1>2. ASSUME NEW r \in R
      PROVE  /\ r.at \in B /\ r.at \in Nat /\ r.end \in Nat /\ r.at < r.end
             /\ r.end \in B \cup {HeapSize} /\ ~m[r.at].used
             /\ r.end \in B => m[r.end].used
             /\ \A h \in B : m[h].used /\ h > r.at => h >= r.end
  <2>1. RunOf(m, B, r)
    BY DEF Disjoint
  <2> QED BY <2>1, ChainNat DEF RunOf
<1>3. ASSUME NEW h \in B, m[h].used PROVE h \in C /\ \A r \in R : r.at # h
  <2>1. ASSUME NEW r \in R PROVE ~(r.at < h /\ h < r.end) /\ r.at # h
    <3>1. h > r.at => h >= r.end
      BY <1>2, <1>3
    <3>2. h \in Nat
      BY ChainNat
    <3> QED BY <1>2, <1>3, <3>1, <3>2
  <2> QED BY <2>1 DEF Left
<1>4. ASSUME NEW r \in R PROVE r.at \in C
  BY <1>2 DEF Left, Disjoint
<1>5. 0 \in C
  <2>1. \A r \in R : ~(r.at < 0)
    BY <1>2
  <2> QED BY <1>1, <2>1 DEF Left
<1>6. ASSUME NEW b \in C
      PROVE  w[b].size > 0 /\ b + w[b].size \in C \cup {HeapSize}
             /\ \A c \in C : b < c => b + w[b].size <= c
  <2>0. b \in B /\ b \in Unit /\ b \in Nat
    BY <1>1, ChainNat
  <2>1. CASE \E r \in R : r.at = b
    <3>1. PICK r \in R : r.at = b
      BY <2>1
    <3> DEFINE e == r.end
    <3>2. w[b].size = e - b /\ b < e /\ e \in Nat /\ e \in B \cup {HeapSize} /\ (e \in B => m[e].used)
      BY <1>1, <1>2, <3>1
    <3>3. e \in C \cup {HeapSize}
      BY <1>3, <3>2
    <3>4. \A c \in C : b < c => ~(c < e)
      BY <3>1 DEF Left
    <3>5. \A c \in C : c \in Nat
      BY <1>1, ChainNat
    <3> HIDE DEF e, C, w
    <3>6. b + w[b].size = e /\ w[b].size > 0
      BY <2>0, <3>2
    <3>7. \A c \in C : b < c => e <= c
      BY <3>2, <3>4, <3>5
    <3> QED BY <3>3, <3>6, <3>7
  <2>2. CASE \A r \in R : r.at # b
    <3> DEFINE e == b + m[b].size
    <3>1. w[b] = m[b]
      BY <1>1, <2>0, <2>2
    <3>2. /\ m[b].size > 0 /\ m[b].size \in Nat /\ e \in B \cup {HeapSize} /\ e \in Nat
          /\ \A c \in B : b < c => e <= c
      BY <2>0, ChainNat DEF Chain
    <3>3. ASSUME e \in B PROVE e \in C
      <4>1. ASSUME NEW r \in R, r.at < e, e < r.end PROVE FALSE
        <5>1. r.at \in B /\ r.at \in Nat /\ r.end \in Nat /\ r.at # b
          BY <1>2, <2>2
        <5>2. ~(b < r.at)
          <6>1. b < r.at => e <= r.at
            BY <3>2, <5>1
          <6> HIDE DEF e
          <6> QED BY <2>0, <3>2, <4>1, <5>1, <6>1
        <5>3. r.at < b /\ b < r.end
          <6>1. b < e
            BY <2>0, <3>2
          <6> HIDE DEF e
          <6> QED BY <2>0, <3>2, <4>1, <5>1, <5>2, <6>1
        <5> QED BY <5>3 DEF Left
      <4> QED BY <3>3, <4>1 DEF Left
    <3> HIDE DEF C
    <3> QED BY <1>1, <3>1, <3>2, <3>3
  <2> HIDE DEF C, w
  <2> QED BY <2>1, <2>2
<1>7. Chain(w, C)
  <2> HIDE DEF C, w
  <2> QED BY <1>1, <1>5, <1>6 DEF Chain
<1> QED BY <1>3, <1>4, <1>7

\* The free runs an allocation meets start after a block in use.
LEMMA RunsDisjoint ==
    ASSUME NEW m \in Heaps, NEW B, Chain(m, B), NEW R \in SUBSET FreeRuns(m)
    PROVE  Disjoint(m, B, R)
<1>1. \A r \in R : r \in Ends(m) /\ \A g \in Ends(m) : g.at + m[g.at].size # r.at
  BY DEF FreeRuns
<1>2. \A r \in R : RunOf(m, B, r)
  BY <1>1, EndsAre
<1>3. \A r, q \in R : r.at = q.at => r = q
  BY <1>1, EndsAre
<1>4. ASSUME NEW r \in R, NEW q \in R, r.at < q.at, q.at < r.end PROVE FALSE
  <2>1. /\ r.at \in B /\ r.at \in Nat /\ q.at \in B /\ q.at \in Nat /\ r.end \in Nat /\ ~m[r.at].used
        /\ \A h \in B : m[h].used /\ h > r.at => h >= r.end
    BY <1>2, ChainNat DEF RunOf
  <2>2. q.at # 0
    BY <1>4, <2>1
  <2>3. PICK g \in B : g < q.at /\ g + m[g].size = q.at
    BY <2>1, <2>2, ChainBefore
  <2>4. m[g].used
    <3>1. ASSUME ~m[g].used PROVE FALSE
      <4>1. PICK f \in Ends(m) : f.at = g
        BY <3>1, EndsAre
      <4> QED BY <1>1, <2>3, <4>1
    <3> QED BY <3>1
  <2>5. g \in Nat /\ (g < r.at => g + m[g].size <= r.at)
    BY <2>1, ChainNat DEF Chain
  <2>6. g > r.at
    <3>1. g # r.at
      BY <2>1, <2>4
    <3>2. ~(g < r.at)
      <4>1. ASSUME g < r.at PROVE FALSE
        <5>1. q.at <= r.at
          BY <2>3, <2>5, <4>1
        <5> QED BY <1>4, <2>1, <5>1
      <4> QED BY <4>1
    <3> QED BY <2>1, <2>5, <3>1, <3>2
  <2>7. g >= r.end
    BY <2>1, <2>4, <2>6
  <2> QED BY <1>4, <2>1, <2>3, <2>5, <2>7
<1> QED BY <1>2, <1>3, <1>4 DEF Disjoint

\* What is in the merged heap of the blocks in use.
LEMMA MergedKeeps ==
    ASSUME NEW m \in Heaps, NEW B, Chain(m, B), NEW R, Disjoint(m, B, R)
    PROVE  /\ Keeps(m, B, Merged(m, R), Left(B, R))
           /\ \A h \in Left(B, R) : Merged(m, R)[h].used => h \in B /\ m[h].used
<1> DEFINE w == Merged(m, R)
<1>1. ASSUME NEW h \in B, m[h].used, NEW u \in h .. h + m[h].size - 1
      PROVE  w[u] = m[u]
  <2>1. h \in Nat /\ m[h].size \in Nat /\ h + m[h].size <= HeapSize /\ HeapSize \in Nat
        /\ h + m[h].size \in Nat
    BY ChainNat
  <2>2. u \in Unit /\ u \in Nat /\ h <= u /\ u < h + m[h].size
    BY <2>1 DEF Unit
  <2>3. ASSUME NEW r \in R, r.at = u PROVE FALSE
    <3>1. r.at \in B /\ ~m[r.at].used /\ m[r.at].size > 0 /\ m[r.at].size \in Nat
      BY ChainNat DEF Disjoint, RunOf, Chain
    <3>2. u \in B /\ u <= u /\ u < u + m[u].size
      BY <2>2, <2>3, <3>1
    <3>3. u = h
      BY <2>2, <3>2, ChainApart
    <3> QED BY <1>1, <2>3, <3>1, <3>3
  <2>4. Joined(m, R, w)
    BY MergedAt
  <2> HIDE DEF w
  <2> QED BY <2>2, <2>3, <2>4 DEF Joined
<1>2. Keeps(m, B, w, Left(B, R))
  <2> HIDE DEF w
  <2> QED BY <1>1, MergedChain DEF Keeps
<1>3. ASSUME NEW h \in Left(B, R), w[h].used PROVE h \in B /\ m[h].used
  <2>1. h \in B /\ h \in Unit
    BY ChainNat DEF Left
  <2>2. \A r \in R : ~w[r.at].used
    <3>1. Joined(m, R, w)
      BY MergedAt
    <3> HIDE DEF w
    <3> QED BY <3>1 DEF Joined
  <2>3. \A r \in R : r.at # h
    BY <1>3, <2>2
  <2>4. w[h] = m[h]
    <3>1. Joined(m, R, w)
      BY MergedAt
    <3> HIDE DEF w
    <3> QED BY <2>1, <2>3, <3>1 DEF Joined
  <2> QED BY <1>3, <2>1, <2>4
<1> QED BY <1>2, <1>3

\* Where a split block ends, and where its rest does
Cut(m, B, b, need) == IF m[b].size - need >= 4 THEN B \cup {b + need} ELSE B

\* The heap w with blocks C is m with blocks B and need units of block b taken.
TakenFrom(m, B, b, need, w, C) ==
    /\ w \in Heaps /\ Chain(w, C) /\ B \subseteq C
    /\ w[b].used /\ w[b].size >= need
    /\ \A h \in C : w[h].used => h = b \/ (h \in B /\ m[h].used)
    /\ Keeps(m, B, w, C)

\* A block split off a free one continues the chain.
LEMMA SplitChain ==
    ASSUME NEW m \in Heaps, NEW B, Chain(m, B), NEW b \in B, ~m[b].used,
           NEW need \in Nat, need > 0, need <= m[b].size
    PROVE  TakenFrom(m, B, b, need, Split(m, b, need), Cut(m, B, b, need))
<1> DEFINE w == Split(m, b, need)
           C == Cut(m, B, b, need)
           s == m[b].size
           big == s - need >= 4
<1>1. /\ b \in Nat /\ b \in Unit /\ s \in Nat /\ b + s <= HeapSize /\ HeapSize \in Nat /\ s > 0
      /\ b + s \in B \cup {HeapSize} /\ B \subseteq Unit
  BY ChainNat DEF Chain
<1>2. \A c \in B : /\ c \in Nat /\ m[c].size > 0 /\ c + m[c].size \in B \cup {HeapSize}
                   /\ m[c].size \in Nat /\ m[c] \in Cell /\ c < HeapSize
                   /\ \A d \in B : c < d => c + m[c].size <= d
  BY ChainNat DEF Chain
<1>3. \A h \in B : m[h].used => h # b /\ \A u \in h .. h + m[h].size - 1 : ~(b <= u /\ u < b + s)
  <2>1. ASSUME NEW h \in B, m[h].used, NEW u \in h .. h + m[h].size - 1, b <= u, u < b + s PROVE FALSE
    <3>1. u \in Nat /\ h <= u /\ u < h + m[h].size
      BY <1>1, <1>2, <2>1
    <3>2. h = b
      BY <2>1, <3>1, ChainApart
    <3> QED BY <2>1, <3>2
  <2> QED BY <2>1
<1>4. CASE big
  <2> DEFINE e == b + need
  <2>1. /\ e \in Nat /\ e \in Unit /\ b < e /\ e < b + s /\ e # b /\ s - need \in Nat /\ s - need > 0
        /\ e + (s - need) = b + s /\ b + need = e
    BY <1>1, <1>4 DEF Unit
  <2> HIDE DEF e
  <2>2. w = [m EXCEPT ![b] = Header(need, TRUE), ![e] = Header(s - need, FALSE)] /\ C = B \cup {e}
    BY <1>4 DEF Split, Cut, e
  <2>3. /\ w[b] = Header(need, TRUE) /\ w[e] = Header(s - need, FALSE)
        /\ \A u \in Unit : u # b /\ u # e => w[u] = m[u]
    BY <1>1, <2>1, <2>2 DEF Heaps
  <2>4. Header(need, TRUE) \in Cell /\ Header(s - need, FALSE) \in Cell
    BY <2>1 DEF Header, Cell
  <2>5. w \in Heaps
    BY <2>2, <2>4 DEF Heaps
  <2>6. /\ w[b].size = need /\ w[b].used /\ w[e].size = s - need /\ ~w[e].used
    BY <2>3 DEF Header
  <2>7. ~(e \in B)
    BY <1>2, <2>1, <1>1
  <2>8. \A h \in B : h # b => w[h] = m[h]
    BY <1>1, <2>3, <2>7
  <2> HIDE DEF C, w, s
  <2>9. ASSUME NEW c \in C
        PROVE  w[c].size > 0 /\ c + w[c].size \in C \cup {HeapSize}
               /\ \A d \in C : c < d => c + w[c].size <= d
    <3>1. CASE c = b
      <4>1. \A d \in B : b < d => b + s <= d
        BY <1>2 DEF s
      <4>2. \A d \in C : b < d => e <= d
        BY <1>1, <1>2, <2>1, <2>2, <4>1
      <4>3. w[c].size > 0 /\ c + w[c].size = e /\ e \in C
        BY <2>1, <2>2, <2>6, <3>1
      <4> QED BY <3>1, <4>2, <4>3
    <3>2. CASE c = e
      <4>1. \A d \in B : b < d => b + s <= d
        BY <1>2 DEF s
      <4>2. \A d \in C : e < d => b + s <= d
        BY <1>1, <1>2, <2>1, <2>2, <4>1
      <4>3. w[c].size = s - need
        BY <2>6, <3>2
      <4>4. w[c].size > 0 /\ c + w[c].size = b + s
        BY <2>1, <3>2, <4>3
      <4>5. b + s \in C \cup {HeapSize}
        BY <1>1, <2>2
      <4> QED BY <3>2, <4>2, <4>4, <4>5
    <3>3. CASE c \in B /\ c # b
      <4>1. w[c] = m[c] /\ m[c].size > 0 /\ c + m[c].size \in C \cup {HeapSize} /\ c \in Nat
            /\ m[c].size \in Nat
            /\ \A d \in B : c < d => c + m[c].size <= d
        BY <1>2, <2>2, <2>8, <3>3
      <4>2. c < e => c < b
        <5>1. ASSUME b < c PROVE b + s <= c
          BY <1>2, <3>3, <5>1 DEF s
        <5> QED BY <1>1, <2>1, <3>3, <4>1, <5>1
      <4>3. c < e => c + m[c].size <= e
        BY <1>1, <2>1, <4>1, <4>2
      <4> QED BY <2>2, <4>1, <4>3
    <3> QED BY <2>2, <3>1, <3>2, <3>3
  <2>10. Chain(w, C)
    BY <1>1, <2>1, <2>2, <2>9 DEF Chain
  <2>11. Keeps(m, B, w, C)
    <3>1. ASSUME NEW h \in B, m[h].used, NEW u \in h .. h + m[h].size - 1 PROVE w[u] = m[u]
      <4>1. ~(b <= u /\ u < b + s) /\ u \in Unit /\ u \in Nat
        <5>1. h \in Nat /\ m[h].size \in Nat /\ h + m[h].size <= HeapSize
          BY ChainNat
        <5> QED BY <1>1, <1>3, <3>1, <5>1 DEF Unit
      <4>2. u # b /\ u # e
        BY <1>1, <2>1, <4>1
      <4> QED BY <2>3, <4>1, <4>2
    <3> QED BY <2>2, <3>1 DEF Keeps
  <2>12. \A h \in C : w[h].used => h = b \/ (h \in B /\ m[h].used)
    BY <2>2, <2>6, <2>8
  <2>13. w[b].size >= need
    BY <2>6
  <2>14. B \subseteq C
    BY <2>2
  <2>15. TakenFrom(m, B, b, need, w, C)
    BY <2>5, <2>6, <2>10, <2>11, <2>12, <2>13, <2>14 DEF TakenFrom
  <2> QED BY <2>15 DEF C, w
<1>5. CASE ~big
  <2>1. w = [m EXCEPT ![b].used = TRUE] /\ C = B
    BY <1>5 DEF Split, Cut
  <2>2. /\ w[b] = [m[b] EXCEPT !.used = TRUE]
        /\ \A u \in Unit : u # b => w[u] = m[u]
    BY <1>1, <2>1 DEF Heaps
  <2>3. w[b] \in Cell /\ w[b].size = s /\ w[b].used
    BY <1>2, <2>2 DEF Cell
  <2>4. w \in Heaps
    BY <2>1, <2>3, <2>2 DEF Heaps
  <2>5. \A h \in B : h # b => w[h] = m[h]
    BY <1>1, <2>2
  <2>6. \A h \in B : w[h].size = m[h].size
    BY <2>3, <2>5
  <2>7. Chain(w, B)
    <3> HIDE DEF w
    <3> QED BY <2>6, ChainSame
  <2>8. Keeps(m, B, w, B)
    <3>1. ASSUME NEW h \in B, m[h].used, NEW u \in h .. h + m[h].size - 1 PROVE w[u] = m[u]
      <4>1. ~(b <= u /\ u < b + s) /\ u \in Unit /\ u \in Nat
        <5>1. h \in Nat /\ m[h].size \in Nat /\ h + m[h].size <= HeapSize
          BY ChainNat
        <5> QED BY <1>1, <1>3, <3>1, <5>1 DEF Unit
      <4>2. u # b
        BY <1>1, <4>1
      <4> QED BY <2>2, <4>1, <4>2
    <3> HIDE DEF w
    <3> QED BY <3>1 DEF Keeps
  <2>9. \A h \in B : w[h].used => h = b \/ (h \in B /\ m[h].used)
    BY <2>5
  <2> HIDE DEF w
  <2>10. TakenFrom(m, B, b, need, w, B)
    BY <2>3, <2>4, <2>7, <2>8, <2>9 DEF TakenFrom
  <2> HIDE DEF C
  <2> QED BY <2>1, <2>10 DEF w, C
<1> HIDE DEF w, C
<1> QED BY <1>4, <1>5 DEF w, C

\* What two steps each keep, both keep.
LEMMA KeepsOn ==
    ASSUME NEW m \in Heaps, NEW B, Chain(m, B), NEW w \in Heaps, NEW C, NEW v, NEW D,
           Keeps(m, B, w, C), Keeps(w, C, v, D)
    PROVE  Keeps(m, B, v, D)
<1>1. SUFFICES ASSUME NEW h \in B, m[h].used
               PROVE  h \in D /\ \A u \in h .. h + m[h].size - 1 : v[u] = m[u]
  BY DEF Keeps
<1>2. h \in C /\ \A u \in h .. h + m[h].size - 1 : w[u] = m[u]
  BY <1>1 DEF Keeps
<1>3. h \in Nat /\ m[h].size \in Nat /\ m[h].size > 0
  BY ChainNat DEF Chain
<1>4. w[h] = m[h]
  BY <1>2, <1>3
<1>5. h \in D /\ \A u \in h .. h + w[h].size - 1 : v[u] = w[u]
  BY <1>1, <1>2, <1>4 DEF Keeps
<1> QED BY <1>2, <1>4, <1>5

\* Every stretch of need units meets a block in use.
Meets(m, h, u, need) == \E x \in u .. u + need - 1 : h <= x /\ x < h + m[h].size

NoRoom(m, B, need) ==
    \A u \in Nat : u + need <= HeapSize => \E h \in B : m[h].used /\ Meets(m, h, u, need)

\* A stretch that meets no block in use lies in a run the walk meets.
LEMMA RunHolds ==
    ASSUME NEW m \in Heaps, NEW B, Chain(m, B), NEW u \in Nat, NEW need \in Nat, need > 0,
           u + need <= HeapSize,
           \A h \in B : m[h].used => ~Meets(m, h, u, need)
    PROVE  \E f \in FreeRuns(m) : f.end - f.at >= need
<1>1. HeapSize \in Nat /\ u \in Unit /\ u \in u .. u + need - 1
  BY ChainNat DEF Unit
<1>2. PICK b \in B : b <= u /\ u < b + m[b].size
  BY <1>1, ChainCovers
<1>3. b \in Nat /\ m[b].size \in Nat /\ b + m[b].size \in Nat /\ m[b].size > 0
  BY ChainNat DEF Chain
<1>4. ~m[b].used
  BY <1>1, <1>2 DEF Meets
\* The first block of the run the block is in
<1> DEFINE Clear(x) == \A h \in B : m[h].used => ~(x <= h /\ h <= b)
           T == {x \in Nat : x \in B /\ x <= b /\ Clear(x)}
<1>5. b \in T
  <2>1. \A h \in B : b <= h /\ h <= b => h = b
    BY <1>3, ChainNat
  <2> QED BY <1>3, <1>4, <2>1
<1>6. PICK x \in T : \A y \in T : x <= y
  <2>1. T \in SUBSET Nat /\ T # {}
    BY <1>5
  <2> HIDE DEF T
  <2> QED BY <2>1, Least
<1>7. x \in B /\ x \in Nat /\ x <= b /\ ~m[x].used
  <2>1. x <= x
    BY <1>6
  <2> QED BY <1>6, <2>1
<1>8. PICK f \in Ends(m) : f.at = x
  BY <1>7, EndsAre
<1>9. f \in FreeRuns(m)
  <2>1. ASSUME NEW g \in Ends(m), g.at + m[g.at].size = f.at PROVE FALSE
    <3> DEFINE y == g.at
    <3>1. y \in B /\ ~m[y].used /\ y + m[y].size = x
      BY <1>8, <2>1, EndsAre DEF RunOf
    <3> HIDE DEF y
    <3>2. y \in Nat /\ m[y].size \in Nat /\ m[y].size > 0
      BY <3>1, ChainNat DEF Chain
    <3>3. y < x
      BY <1>7, <3>1, <3>2
    <3>4. ASSUME NEW h \in B, m[h].used, y <= h, h <= b PROVE FALSE
      <4>1. h \in Nat /\ h # y /\ (y < h => y + m[y].size <= h)
        BY <3>1, <3>4, ChainNat DEF Chain
      <4>2. x <= h
        BY <3>1, <3>2, <3>4, <4>1
      <4> QED BY <1>6, <3>4, <4>2
    <3>5. y \in T
      BY <1>3, <1>7, <3>1, <3>2, <3>3, <3>4
    <3>6. x <= y
      BY <1>6, <3>5
    <3> QED BY <1>7, <3>2, <3>3, <3>6
  <2> QED BY <2>1 DEF FreeRuns
\* It ends behind the stretch.
<1> DEFINE e == f.end
<1>10. /\ e \in Nat /\ e \in B \cup {HeapSize} /\ (e \in B => m[e].used) /\ x < e
       /\ \A h \in B : m[h].used /\ h > x => h >= e
  BY <1>8, EndsAre, ChainNat DEF RunOf
<1> HIDE DEF e, T
<1>11. e > b
  <2>1. ASSUME ~(e > b) PROVE FALSE
    <3>1. e \in B
      BY <1>3, <1>10, <2>1, ChainNat
    <3>2. x <= e /\ e <= b
      BY <1>3, <1>7, <1>10, <2>1
    <3> QED BY <1>6, <1>10, <3>1, <3>2 DEF T
  <2> QED BY <2>1
<1>12. e >= u + need
  <2>1. ASSUME e < u + need PROVE FALSE
    <3>1. e \in B /\ m[e].used /\ m[e].size > 0 /\ m[e].size \in Nat
      <4>1. e # HeapSize
        BY <1>1, <1>10, <2>1
      <4> QED BY <1>10, <4>1, ChainNat DEF Chain
    <3>2. b + m[b].size <= e
      BY <1>3, <1>11, <3>1 DEF Chain
    <3>3. e \in u .. u + need - 1
      BY <1>2, <1>3, <1>10, <2>1, <3>2
    <3>4. e <= e /\ e < e + m[e].size
      BY <1>10, <3>1
    <3> QED BY <3>1, <3>3, <3>4 DEF Meets
  <2> QED BY <1>10, <2>1
<1>13. e - x >= need
  BY <1>2, <1>3, <1>7, <1>10, <1>12
<1> QED BY <1>8, <1>9, <1>13 DEF e

\* What sa_arena_alloc returns: blocks in use stay; a block of need units
\* that was free; or none, and then there is no room.
Granted(m, B, need, a, C) ==
    /\ a.heap \in Heaps /\ Chain(a.heap, C)
    /\ Keeps(m, B, a.heap, C)
    /\ IF a.block = -1
       THEN /\ \A h \in C : a.heap[h].used => h \in B /\ m[h].used
            /\ NoRoom(m, B, need)
       ELSE /\ a.block \in C /\ a.heap[a.block].used /\ a.heap[a.block].size >= need
            /\ ~(a.block \in B /\ m[a.block].used)
            /\ \A h \in C : a.heap[h].used => h = a.block \/ (h \in B /\ m[h].used)

\* malloc's block is free before, used after, and long enough, or no run is.
LEMMA AllocGrants ==
    ASSUME NEW m \in Heaps, NEW B, Chain(m, B), NEW need \in Nat, need > 0
    PROVE  \E C : Granted(m, B, need, Alloc(m, need), C)
<1> DEFINE a == Alloc(m, need)
           runs == FreeRuns(m)
           fits == {f \in runs : f.end - f.at >= need}
           fit == {r.at : r \in fits}
           first == Min(fit)
           R == {r \in runs : r.at <= first}
<1>1. a = IF fit = {} THEN [block |-> -1, heap |-> Merged(m, runs)]
          ELSE [block |-> first, heap |-> Split(Merged(m, R), first, need)]
  BY DEF Alloc
<1>2. CASE fit = {}
  <2>1. a.block = -1 /\ a.heap = Merged(m, runs)
    BY <1>1, <1>2
  <2>2. Disjoint(m, B, runs)
    BY RunsDisjoint
  <2>3. NoRoom(m, B, need)
    <3>1. ASSUME NEW u \in Nat, u + need <= HeapSize,
                 \A h \in B : ~(m[h].used /\ Meets(m, h, u, need))
          PROVE FALSE
      <4>1. \E f \in FreeRuns(m) : f.end - f.at >= need
        BY <3>1, RunHolds
      <4> QED BY <1>2, <4>1
    <3> QED BY <3>1 DEF NoRoom
  <2> HIDE DEF runs, a
  <2>4. a.heap \in Heaps /\ Chain(a.heap, Left(B, runs))
    <3>1. Joined(m, runs, Merged(m, runs))
      BY <2>2, MergedAt
    <3>2. Chain(Merged(m, runs), Left(B, runs))
      BY <2>2, MergedChain
    <3> QED BY <2>1, <3>1, <3>2 DEF Joined
  <2>5. /\ Keeps(m, B, a.heap, Left(B, runs))
        /\ \A h \in Left(B, runs) : a.heap[h].used => h \in B /\ m[h].used
    BY <2>1, <2>2, MergedKeeps
  <2>6. Granted(m, B, need, a, Left(B, runs))
    BY <2>1, <2>3, <2>4, <2>5 DEF Granted
  <2> QED BY <2>6 DEF a
<1>3. CASE fit # {}
  <2>1. a.block = first /\ a.heap = Split(Merged(m, R), first, need)
    <3> HIDE DEF a, fit, first, R, runs
    <3> QED BY <1>1, <1>3
  <2>2. \A f \in runs : RunOf(m, B, f)
    BY RunsDisjoint DEF Disjoint
  <2>3. first \in fit
    <3>1. fit \in SUBSET Nat
      BY <2>2, ChainNat DEF RunOf
    <3>2. PICK x \in fit : \A y \in fit : x <= y
      <4> HIDE DEF fit
      <4> QED BY <1>3, <3>1, Least
    <3> HIDE DEF fit
    <3> QED BY <3>2 DEF Min
  <2>4. PICK f \in fits : f.at = first
    BY <2>3
  <2> HIDE DEF first, fit
  <2>5. /\ f \in runs /\ RunOf(m, B, f) /\ f.end - f.at >= need /\ first \in B /\ first \in Nat
        /\ ~m[first].used /\ f.end \in Nat
    BY <2>2, <2>4, ChainNat DEF RunOf
  <2>6. f \in R
    BY <2>4, <2>5
  <2> DEFINE w == Merged(m, R)
             D == Left(B, R)
             C == Cut(w, D, first, need)
  <2>7. Disjoint(m, B, R)
    <3>1. R \in SUBSET FreeRuns(m)
      OBVIOUS
    <3> HIDE DEF R
    <3> QED BY <3>1, RunsDisjoint
  <2> HIDE DEF R, runs, fits
  <2>8. /\ w \in Heaps /\ Chain(w, D) /\ first \in D
        /\ w[first].size = f.end - f.at /\ ~w[first].used
        /\ Keeps(m, B, w, D)
        /\ \A h \in D : w[h].used => h \in B /\ m[h].used
    <3>1. Joined(m, R, w)
      BY <2>7, MergedAt
    <3>2. Chain(w, D) /\ \A r \in R : r.at \in D
      BY <2>7, MergedChain
    <3>3. Keeps(m, B, w, D) /\ \A h \in D : w[h].used => h \in B /\ m[h].used
      BY <2>7, MergedKeeps
    <3> HIDE DEF w, D
    <3> QED BY <2>4, <2>6, <3>1, <3>2, <3>3 DEF Joined
  <2>9. ~w[first].used /\ w[first].size >= need
    BY <2>5, <2>8
  <2> HIDE DEF w, D
  <2>10. /\ a.heap \in Heaps /\ Chain(a.heap, C) /\ D \subseteq C
         /\ a.heap[first].used /\ a.heap[first].size >= need
         /\ \A h \in C : a.heap[h].used => h = first \/ (h \in D /\ w[h].used)
         /\ Keeps(w, D, a.heap, C)
    <3>1. need <= w[first].size
      BY <2>8, <2>9, ChainNat
    <3>2. a.heap = Split(w, first, need)
      BY <2>1 DEF w
    <3> HIDE DEF a
    <3>3. TakenFrom(w, D, first, need, Split(w, first, need), C)
      BY <2>8, <2>9, <3>1, SplitChain
    <3> HIDE DEF C
    <3> QED BY <3>2, <3>3 DEF TakenFrom
  <2> HIDE DEF a, C
  <2>11. Keeps(m, B, a.heap, C)
    BY <2>8, <2>10, KeepsOn
  <2>12. first # -1
    BY <2>5
  <2>13. Granted(m, B, need, a, C)
    BY <2>1, <2>5, <2>8, <2>10, <2>11, <2>12 DEF Granted
  <2> QED BY <2>13 DEF a
<1> QED BY <1>2, <1>3

-----------------------------------------------------------------------------
(* The units in use, and how many there are *)

InUse(m, B) == UNION {b .. b + m[b].size - 1 : b \in {h \in B : m[h].used}}

\* The units of the used blocks, by walk and by chain.
LEMMA UsedIsInUse ==
    ASSUME NEW m \in Heaps, NEW B, Chain(m, B)
    PROVE  Used(m) = InUse(m, B)
  BY HeadsChain DEF Used, InUse

\* Block b and no other is in use in (w, C) and not in (m, B).
Takes(m, B, w, C, b) ==
    /\ b \in C /\ w[b].used
    /\ \A h \in B : m[h].used => h # b /\ h \in C /\ w[h].used /\ w[h].size = m[h].size
    /\ \A h \in C : w[h].used => h = b \/ (h \in B /\ m[h].used)

\* A block taken adds its units...
LEMMA TakesUnits ==
    ASSUME NEW m \in Heaps, NEW B, Chain(m, B), NEW w \in Heaps, NEW C, Chain(w, C),
           NEW b, Takes(m, B, w, C, b)
    PROVE  /\ Cardinality(InUse(w, C)) = Cardinality(InUse(m, B)) + w[b].size
           /\ Cardinality(InUse(m, B)) \in Nat
<1> DEFINE s == w[b].size
           K == b .. b + s - 1
           S == InUse(m, B)
<1>1. b \in C /\ b \in Nat /\ s \in Nat /\ s > 0 /\ HeapSize \in Nat
  BY ChainNat DEF Takes, Chain
<1>2. InUse(w, C) = S \cup K
  <2>1. {h \in C : w[h].used} = {h \in B : m[h].used} \cup {b}
    BY DEF Takes
  <2>2. \A h \in {x \in B : m[x].used} : w[h].size = m[h].size
    BY DEF Takes
  <2> DEFINE H == {h \in B : m[h].used}
  <2>3. InUse(w, C) = UNION {h .. h + w[h].size - 1 : h \in H \cup {b}}
    BY <2>1 DEF InUse
  <2>4. S = UNION {h .. h + m[h].size - 1 : h \in H}
    BY DEF InUse
  <2>5. \A h \in H : h .. h + w[h].size - 1 = h .. h + m[h].size - 1
    BY <2>2
  <2> HIDE DEF H, S
  <2>6. UNION {h .. h + w[h].size - 1 : h \in H \cup {b}}
          = (UNION {h .. h + w[h].size - 1 : h \in H}) \cup (b .. b + w[b].size - 1)
    OBVIOUS
  <2>7. {h .. h + w[h].size - 1 : h \in H} = {h .. h + m[h].size - 1 : h \in H}
    BY <2>5
  <2> QED BY <2>3, <2>4, <2>6, <2>7
<1>3. S \cap K = {}
  <2>1. SUFFICES ASSUME NEW u \in S, u \in K PROVE FALSE
    OBVIOUS
  <2>2. PICK h \in B : m[h].used /\ u \in h .. h + m[h].size - 1
    BY DEF InUse
  <2>3. h # b /\ h \in C /\ w[h].size = m[h].size
    BY <2>2 DEF Takes
  <2>4. h \in Nat /\ w[h].size \in Nat
    BY <2>3, ChainNat
  <2>5. u \in Nat /\ h <= u /\ u < h + w[h].size /\ b <= u /\ u < b + w[b].size
    BY <1>1, <2>1, <2>2, <2>3, <2>4
  <2>6. h = b
    BY <1>1, <2>3, <2>5, ChainApart
  <2> QED BY <2>3, <2>6
<1>4. IsFiniteSet(S)
  <2>1. S \subseteq Unit
    <3>1. SUFFICES ASSUME NEW u \in S PROVE u \in Unit
      OBVIOUS
    <3>2. PICK h \in B : u \in h .. h + m[h].size - 1
      BY DEF InUse
    <3>3. h \in Nat /\ m[h].size \in Nat /\ h + m[h].size <= HeapSize
      BY ChainNat
    <3> QED BY <1>1, <3>2, <3>3 DEF Unit
  <2>2. IsFiniteSet(Unit)
    BY <1>1, FS_Interval DEF Unit
  <2> QED BY <2>1, <2>2, FS_Subset
<1>5. IsFiniteSet(K) /\ Cardinality(K) = s
  <2>1. b \in Int /\ b + s - 1 \in Int /\ ~(b > b + s - 1) /\ (b + s - 1) - b + 1 = s
    BY <1>1
  <2> HIDE DEF s
  <2> QED BY <2>1, FS_Interval
<1> HIDE DEF S, K, s
<1>6. Cardinality(S \cup K) = Cardinality(S) + Cardinality(K) - Cardinality(S \cap K)
  BY <1>4, <1>5, FS_Union
<1>7. Cardinality(S \cap K) = 0
  BY <1>3, FS_EmptySet
<1>8. Cardinality(S) \in Nat
  BY <1>4, FS_CardinalityType
<1>9. Cardinality(S \cup K) = Cardinality(S) + s
  BY <1>1, <1>5, <1>6, <1>7, <1>8
<1> QED BY <1>2, <1>8, <1>9 DEF S, s

\* What an allocation does to the units in use
LEMMA GrantUnits ==
    ASSUME NEW m \in Heaps, NEW B, Chain(m, B), NEW need, NEW a, NEW C, Granted(m, B, need, a, C)
    PROVE  /\ a.block = -1 => InUse(a.heap, C) = InUse(m, B)
           /\ a.block # -1 => Takes(m, B, a.heap, C, a.block)
<1>1. ASSUME NEW h \in B, m[h].used PROVE h \in C /\ a.heap[h] = m[h]
  <2>1. h \in Nat /\ m[h].size \in Nat /\ m[h].size > 0
    BY ChainNat DEF Chain
  <2>2. h \in h .. h + m[h].size - 1
    BY <2>1
  <2> QED BY <1>1, <2>2 DEF Granted, Keeps
<1>2. CASE a.block = -1
  <2>1. {h \in C : a.heap[h].used} = {h \in B : m[h].used}
    BY <1>1, <1>2 DEF Granted
  <2>2. {h .. h + a.heap[h].size - 1 : h \in {x \in C : a.heap[x].used}}
          = {h .. h + m[h].size - 1 : h \in {x \in B : m[x].used}}
    BY <1>1, <2>1
  <2> QED BY <1>2, <2>2 DEF InUse
<1>3. CASE a.block # -1
  <2>1. \A h \in B : m[h].used => h # a.block
    BY <1>3 DEF Granted
  <2> QED BY <1>1, <1>3, <2>1 DEF Granted, Takes
<1> QED BY <1>2, <1>3

\* Writing that leaves the headers alone
SameHeads(m, w, B) == \A b \in B : w[b] = m[b]

\* ...and what keeps the heads keeps the sum.
LEMMA SameUnits ==
    ASSUME NEW m, NEW w, NEW B, SameHeads(m, w, B)
    PROVE  InUse(w, B) = InUse(m, B)
<1>1. {h \in B : w[h].used} = {h \in B : m[h].used}
  BY DEF SameHeads
<1>2. {h .. h + w[h].size - 1 : h \in {x \in B : w[x].used}}
        = {h .. h + m[h].size - 1 : h \in {x \in B : m[x].used}}
  BY <1>1 DEF SameHeads
<1> QED BY <1>2 DEF InUse

\* The heap with block b marked free, and the free run from b
Unused(m, b) == [m EXCEPT ![b].used = FALSE]
RunFrom(m, b) == {f \in Ends(m) : f.at = b}

\* The header of the block released is written over by the merge.
LEMMA FreedIs ==
    ASSUME NEW m \in Heaps, NEW b \in Unit, \E f \in RunFrom(Unused(m, b), b) : f.at = b
    PROVE  Freed(m, b) = Merged(Unused(m, b), RunFrom(Unused(m, b), b))
<1> DEFINE m1 == Unused(m, b)
           R == RunFrom(m1, b)
           at == {r.at : r \in R}
           H(u) == Header((CHOOSE r \in R : r.at = u).end - u, FALSE)
<1>1. Freed(m, b) = Merged(m, R)
  BY Zenon DEF Freed, Unused, RunFrom
<1>2. \A u \in Unit : u \notin at => m[u] = m1[u]
  <2>1. b \in at
    <3>1. \E f \in R : f.at = b
      OBVIOUS
    <3> HIDE DEF R
    <3> QED BY <3>1
  <2>2. \A u \in Unit : u # b => m[u] = m1[u]
    BY DEF Heaps, Unused
  <2> HIDE DEF at, m1
  <2> QED BY <2>1, <2>2
<1>3. Merged(m, R) = [u \in Unit |-> IF u \in at THEN H(u) ELSE m[u]]
  BY DEF Merged
<1>4. Merged(m1, R) = [u \in Unit |-> IF u \in at THEN H(u) ELSE m1[u]]
  BY DEF Merged
<1> HIDE DEF at, H, m1, R
<1>5. Merged(m, R) = Merged(m1, R)
  BY <1>2, <1>3, <1>4
<1> QED BY <1>1, <1>5 DEF R, m1

\* What sa_arena_free does: the block is not in use, the others are.
LEMMA FreedBlock ==
    ASSUME NEW m \in Heaps, NEW B, Chain(m, B), NEW b \in B, m[b].used
    PROVE  \E D : /\ Freed(m, b) \in Heaps /\ Chain(Freed(m, b), D)
                  /\ Takes(Freed(m, b), D, m, B, b)
                  /\ \A h \in B : m[h].used /\ h # b =>
                        \A u \in h .. h + m[h].size - 1 : Freed(m, b)[u] = m[u]
<1> DEFINE m1 == Unused(m, b)
           R == RunFrom(m1, b)
           D == Left(B, R)
           v == Freed(m, b)
<1>2. b \in Unit /\ m[b] \in Cell
  BY ChainNat
<1>3. m1[b] = [m[b] EXCEPT !.used = FALSE] /\ \A u \in Unit : u # b => m1[u] = m[u]
  BY <1>2 DEF Heaps, Unused
<1>4. m1[b] \in Cell /\ ~m1[b].used /\ m1[b].size = m[b].size
  BY <1>2, <1>3 DEF Cell
<1>5. m1 \in Heaps
  BY <1>3, <1>4 DEF Heaps, Unused
<1>6. B \subseteq Unit
  BY DEF Chain
<1> HIDE DEF m1
<1>7. \A h \in B : m1[h].size = m[h].size /\ (h # b => m1[h] = m[h])
  BY <1>3, <1>4, <1>6
<1>8. Chain(m1, B)
  BY <1>7, ChainSame
<1>9. Disjoint(m1, B, R)
  <2>1. \A r \in R : RunOf(m1, B, r) /\ r.at = b
    BY <1>5, <1>8, EndsAre DEF RunFrom
  <2>2. \A r, q \in R : r = q
    BY <1>5, <1>8, EndsAre DEF RunFrom
  <2>3. ~(b < b)
    BY ChainNat
  <2> HIDE DEF R
  <2> QED BY <2>1, <2>2, <2>3 DEF Disjoint
<1>1. v = Merged(m1, R)
  <2>1. \E f \in R : f.at = b
    BY <1>4, <1>5, <1>8, EndsAre DEF RunFrom
  <2> QED BY <1>2, <2>1, FreedIs DEF m1
<1> HIDE DEF R, v, D
<1>10. /\ v \in Heaps /\ Chain(v, D)
       /\ Keeps(m1, B, v, D)
       /\ \A h \in D : v[h].used => h \in B /\ m1[h].used
  <2>1. Joined(m1, R, v)
    BY <1>1, <1>5, <1>8, <1>9, MergedAt
  <2>2. v \in Heaps
    BY <2>1 DEF Joined
  <2>3. Chain(v, D)
    BY <1>1, <1>5, <1>8, <1>9, MergedChain DEF D
  <2>4. Keeps(m1, B, v, D) /\ \A h \in D : v[h].used => h \in B /\ m1[h].used
    BY <1>1, <1>5, <1>8, <1>9, MergedKeeps DEF D
  <2> QED BY <2>2, <2>3, <2>4
<1>11. ASSUME NEW h \in B, m[h].used, h # b
       PROVE  /\ h \in D /\ v[h] = m[h]
              /\ \A u \in h .. h + m[h].size - 1 : v[u] = m[u]
  <2>1. m1[h] = m[h]
    BY <1>7, <1>11
  <2>2. h \in D /\ \A u \in h .. h + m[h].size - 1 : v[u] = m1[u]
    BY <1>10, <1>11, <2>1 DEF Keeps
  <2>3. h \in Nat /\ m[h].size \in Nat /\ m[h].size > 0 /\ h + m[h].size <= HeapSize
        /\ HeapSize \in Nat /\ b \in Nat /\ m[b].size \in Nat /\ m[b].size > 0
    BY ChainNat DEF Chain
  <2>4. ASSUME NEW u \in h .. h + m[h].size - 1 PROVE m1[u] = m[u]
    <3>1. u \in Unit /\ u \in Nat /\ h <= u /\ u < h + m[h].size
      BY <2>3 DEF Unit
    <3>2. u # b
      <4>1. ASSUME u = b PROVE FALSE
        <5>1. b <= u /\ u < b + m[b].size
          BY <2>3, <4>1
        <5>2. h = b
          BY <3>1, <5>1, ChainApart
        <5> QED BY <1>11, <5>2
      <4> QED BY <4>1
    <3> QED BY <1>3, <3>1, <3>2
  <2>5. h \in h .. h + m[h].size - 1
    BY <2>3
  <2> QED BY <2>2, <2>4, <2>5
<1>12. Takes(v, D, m, B, b)
  <2>1. \A h \in D : v[h].used => h \in B /\ h # b /\ m[h].used
    BY <1>4, <1>7, <1>10
  <2> QED BY <1>11, <2>1 DEF Takes
<1> QED BY <1>10, <1>11, <1>12 DEF v

-----------------------------------------------------------------------------
(* Who holds what *)

Holdings == [Client -> [ptr : Nat, n : Nat]]

\* What a client holds is inside a block in use and has what it wrote.
Owns(m, B, c, q, b) ==
    /\ b \in B /\ m[b].used
    /\ b < q.ptr /\ q.ptr + q.n <= b + m[b].size
    /\ \A u \in q.ptr .. q.ptr + q.n - 1 : m[u] = Data(c)

\* The clients of Q that hold something, each in a block of its own
HeldBy(m, B, o, at, Q) ==
    /\ \A c \in Q : o[c].n # 0 => Owns(m, B, c, o[c], at[c])
    /\ \A c, d \in Q : o[c].n # 0 /\ o[d].n # 0 /\ at[c] = at[d] => c = d

\* A step that leaves the blocks at[c] alone
LEMMA HeldKeeps ==
    ASSUME NEW m \in Heaps, NEW B, Chain(m, B), NEW w, NEW C, NEW o \in Holdings, NEW at,
           NEW Q \in SUBSET Client, HeldBy(m, B, o, at, Q),
           \A c \in Q : o[c].n # 0 =>
              /\ at[c] \in C
              /\ \A u \in at[c] .. at[c] + m[at[c]].size - 1 : w[u] = m[u]
    PROVE  HeldBy(w, C, o, at, Q)
<1>1. ASSUME NEW c \in Q, o[c].n # 0 PROVE Owns(w, C, c, o[c], at[c])
  <2> DEFINE b == at[c]
             p == o[c].ptr
             n == o[c].n
  <2>1. /\ b \in B /\ m[b].used /\ b < p /\ p + n <= b + m[b].size
        /\ \A u \in p .. p + n - 1 : m[u] = Data(c)
    BY <1>1 DEF HeldBy, Owns
  <2>2. p \in Nat /\ n \in Nat
    BY DEF Holdings
  <2>3. b \in Nat /\ m[b].size \in Nat /\ m[b].size > 0
    BY <2>1, ChainNat DEF Chain
  <2>4. b \in C /\ \A u \in b .. b + m[b].size - 1 : w[u] = m[u]
    BY <1>1
  <2>5. w[b] = m[b]
    <3>1. b \in b .. b + m[b].size - 1
      BY <2>3
    <3> QED BY <2>4, <3>1
  <2>6. \A u \in p .. p + n - 1 : u \in b .. b + m[b].size - 1
    BY <2>1, <2>2, <2>3
  <2> QED BY <2>1, <2>4, <2>5, <2>6 DEF Owns
<1> QED BY <1>1 DEF HeldBy

\* Writing inside a block in use none of Q holds.  The chain stays.
LEMMA HeldWrite ==
    ASSUME NEW m \in Heaps, NEW B, Chain(m, B), NEW w \in Heaps, NEW b \in B, m[b].used,
           \A u \in Unit : ~(b < u /\ u < b + m[b].size) => w[u] = m[u],
           NEW o \in Holdings, NEW at, NEW Q \in SUBSET Client, HeldBy(m, B, o, at, Q),
           \A c \in Q : o[c].n # 0 => at[c] # b
    PROVE  /\ SameHeads(m, w, B) /\ Chain(w, B)
           /\ HeldBy(w, B, o, at, Q)
<1>0. b \in Nat /\ m[b].size \in Nat /\ HeapSize \in Nat
  BY ChainNat
<1>1. ASSUME NEW h \in B PROVE w[h] = m[h]
  <2>1. h \in Unit /\ h \in Nat /\ m[h].size \in Nat /\ m[h].size > 0
    BY ChainNat DEF Chain
  <2>2. ~(b < h /\ h < b + m[b].size)
    <3>1. b < h => b + m[b].size <= h
      BY DEF Chain
    <3> QED BY <1>0, <2>1, <3>1
  <2> QED BY <2>1, <2>2
<1>2. SameHeads(m, w, B) /\ Chain(w, B)
  BY <1>1, ChainSame DEF SameHeads
<1>3. ASSUME NEW c \in Q, o[c].n # 0
      PROVE  /\ at[c] \in B
             /\ \A u \in at[c] .. at[c] + m[at[c]].size - 1 : w[u] = m[u]
  <2> DEFINE h == at[c]
  <2>1. h \in B /\ h # b
    BY <1>3 DEF HeldBy, Owns
  <2> HIDE DEF h
  <2>2. h \in Nat /\ m[h].size \in Nat /\ h + m[h].size <= HeapSize
    BY <2>1, ChainNat
  <2>3. ASSUME NEW u \in h .. h + m[h].size - 1 PROVE w[u] = m[u]
    <3>1. u \in Unit /\ u \in Nat /\ h <= u /\ u < h + m[h].size
      BY <1>0, <2>2 DEF Unit
    <3>2. ~(b <= u /\ u < b + m[b].size)
      BY <2>1, <3>1, ChainApart
    <3> QED BY <1>0, <3>1, <3>2
  <2> QED BY <2>1, <2>3 DEF h
<1>4. HeldBy(w, B, o, at, Q)
  BY <1>3, HeldKeeps
<1> QED BY <1>2, <1>4

\* The others, and client c: what it holds now
LEMMA HeldAll ==
    ASSUME NEW m, NEW B, NEW o, NEW c \in Client, NEW at \in [Client -> Nat], NEW b \in Nat, NEW q,
           o \in Holdings, q \in [ptr : Nat, n : Nat],
           HeldBy(m, B, o, at, Client \ {c}),
           q.n # 0 => Owns(m, B, c, q, b),
           q.n # 0 => \A d \in Client \ {c} : o[d].n # 0 => at[d] # b
    PROVE  HeldBy(m, B, [o EXCEPT ![c] = q], [at EXCEPT ![c] = b], Client)
<1> DEFINE o2 == [o EXCEPT ![c] = q]
           at2 == [at EXCEPT ![c] = b]
<1>1. o2[c] = q /\ at2[c] = b /\ \A d \in Client \ {c} : o2[d] = o[d] /\ at2[d] = at[d]
  BY DEF Holdings
<1> HIDE DEF o2, at2
<1>2. \A d \in Client : o2[d].n # 0 => Owns(m, B, d, o2[d], at2[d])
  BY <1>1 DEF HeldBy
<1>3. \A d, e \in Client : o2[d].n # 0 /\ o2[e].n # 0 /\ at2[d] = at2[e] => d = e
  BY <1>1 DEF HeldBy
<1> QED BY <1>2, <1>3 DEF HeldBy, o2, at2

\* Releasing a block: the others hold what they held.
LEMMA HeldFreed ==
    ASSUME NEW m \in Heaps, NEW B, Chain(m, B), NEW b \in B, m[b].used,
           NEW o \in Holdings, NEW at, NEW Q \in SUBSET Client, HeldBy(m, B, o, at, Q),
           \A c \in Q : o[c].n # 0 => at[c] # b
    PROVE  \E D : /\ Freed(m, b) \in Heaps /\ Chain(Freed(m, b), D)
                  /\ Takes(Freed(m, b), D, m, B, b)
                  /\ \A h \in B : m[h].used /\ h # b =>
                        /\ h \in D
                        /\ \A u \in h .. h + m[h].size - 1 : Freed(m, b)[u] = m[u]
                  /\ HeldBy(Freed(m, b), D, o, at, Q)
<1> DEFINE v == Freed(m, b)
<1>1. PICK D : /\ v \in Heaps /\ Chain(v, D) /\ Takes(v, D, m, B, b)
               /\ \A h \in B : m[h].used /\ h # b => \A u \in h .. h + m[h].size - 1 : v[u] = m[u]
  BY FreedBlock
<1> HIDE DEF v
<1>2. ASSUME NEW h \in B, m[h].used, h # b PROVE h \in D
  BY <1>1, <1>2 DEF Takes
<1>3. ASSUME NEW c \in Q, o[c].n # 0
      PROVE  /\ at[c] \in D
             /\ \A u \in at[c] .. at[c] + m[at[c]].size - 1 : v[u] = m[u]
  <2>1. at[c] \in B /\ m[at[c]].used /\ at[c] # b
    BY <1>3 DEF HeldBy, Owns
  <2> QED BY <1>1, <1>2, <2>1
<1>4. HeldBy(v, D, o, at, Q)
  BY <1>3, HeldKeeps
<1>5. \A h \in B : m[h].used /\ h # b => h \in D /\ \A u \in h .. h + m[h].size - 1 : v[u] = m[u]
  BY <1>1, <1>2
<1> QED BY <1>1, <1>4, <1>5 DEF v

\* sa_arena_block finds the block a client's pointer is in.
LEMMA BlockIs ==
    ASSUME NEW m \in Heaps, NEW B, Chain(m, B), NEW b \in B, m[b].used,
           NEW p \in Nat, b < p, p < b + m[b].size
    PROVE  Block(m, p) = b
<1> DEFINE in == {h \in Heads(m) : h < p /\ p < h + m[h].size /\ m[h].used}
<1>1. Heads(m) = B
  BY HeadsChain
<1>2. in = {b}
  <2>1. \A h \in in : h = b
    <3>1. SUFFICES ASSUME NEW h \in in PROVE h = b
      OBVIOUS
    <3>2. h \in B /\ h \in Nat /\ b \in Nat /\ h < p /\ p < h + m[h].size
      BY <1>1, ChainNat
    <3>3. h <= p /\ b <= p
      BY <3>2
    <3> QED BY <3>2, <3>3, ChainApart
  <2> QED BY <1>1, <2>1
<1>3. b \in Nat
  BY ChainNat
<1>4. Min({b}) = b
  BY <1>3 DEF Min
<1> HIDE DEF in
<1>5. in # {} /\ Min(in) = b
  BY <1>2, <1>4
<1> QED BY <1>5 DEF Block, in

-----------------------------------------------------------------------------
(***************************************************************************)
(* The inductive invariant of the arena: the blocks are a chain from       *)
(* heap_begin to heap_end; every client that holds memory holds it inside  *)
(* a block in use of its own and finds there what it wrote; heap_used      *)
(* counts the blocks in use; and the request last refused does not fit     *)
(* between them.                                                           *)
(***************************************************************************)
ArenaState(m, B, o, at, k, r) ==
    /\ m \in Heaps /\ Chain(m, B)
    /\ o \in Holdings /\ \A c \in Client : o[c].n = 0 => o[c] = Nothing
    /\ at \in [Client -> Nat] /\ HeldBy(m, B, o, at, Client)
    /\ k = Cardinality(InUse(m, B)) /\ k \in Nat
    /\ r \in Nat /\ (r # 0 => NoRoom(m, B, r + 1))

ArenaInv == \E B, at : ArenaState(heap, B, own, at, heap_used, refused)

\* Leaving out what nobody needs changes nothing of this.
LEMMA ForgetState ==
    ASSUME NEW m, NEW B, NEW at, ArenaState(m, B, own', at, heap_used', refused'),
           heap' = Forget(m)
    PROVE  ArenaInv'
<1> DEFINE held == UNION {own'[c].ptr .. own'[c].ptr + own'[c].n - 1 : c \in Client}
           w == heap'
<1>1. w = [u \in Unit |-> IF u \in B \cup held THEN m[u] ELSE Data(NoClient)]
  BY HeadsChain DEF Forget, ArenaState
<1>2. w \in Heaps
  <2>1. Data(NoClient) \in Cell
    BY DEF Data, Cell
  <2> HIDE DEF held
  <2> QED BY <1>1, <2>1 DEF ArenaState, Heaps
<1>3. \A u \in Unit : u \in B \cup held => w[u] = m[u]
  BY <1>1
<1> HIDE DEF w
<1>4. SameHeads(m, w, B)
  BY <1>3 DEF SameHeads, ArenaState, Chain
<1>5. Chain(w, B)
  BY <1>4, ChainSame DEF SameHeads, ArenaState
<1>6. ASSUME NEW c \in Client, own'[c].n # 0 PROVE Owns(w, B, c, own'[c], at[c])
  <2> DEFINE b == at[c]
             q == own'[c]
  <2>1. /\ b \in B /\ m[b].used /\ b < q.ptr /\ q.ptr + q.n <= b + m[b].size
        /\ \A u \in q.ptr .. q.ptr + q.n - 1 : m[u] = Data(c)
    BY <1>6 DEF ArenaState, HeldBy, Owns
  <2>2. q.ptr \in Nat /\ q.n \in Nat /\ b \in Nat /\ b + m[b].size <= HeapSize
        /\ m[b].size \in Nat /\ HeapSize \in Nat
    BY <2>1, ChainNat DEF ArenaState, Holdings
  <2>3. \A u \in q.ptr .. q.ptr + q.n - 1 : u \in held
    OBVIOUS
  <2> HIDE DEF held, q, b
  <2>4. \A u \in q.ptr .. q.ptr + q.n - 1 : u \in Unit
    BY <2>1, <2>2 DEF Unit
  <2>5. \A u \in q.ptr .. q.ptr + q.n - 1 : w[u] = Data(c)
    BY <1>3, <2>1, <2>3, <2>4
  <2>6. w[b] = m[b]
    BY <1>4, <2>1 DEF SameHeads
  <2>7. Owns(w, B, c, q, b)
    BY <2>1, <2>5, <2>6 DEF Owns
  <2> QED BY <2>7 DEF q, b
<1>7. HeldBy(w, B, own', at, Client)
  BY <1>6 DEF HeldBy, ArenaState
<1>8. InUse(w, B) = InUse(m, B)
  BY <1>4, SameUnits
<1>9. ASSUME NEW k, NoRoom(m, B, k) PROVE NoRoom(w, B, k)
  BY <1>4, <1>9 DEF NoRoom, SameHeads, Meets
<1>10. ArenaState(w, B, own', at, heap_used', refused')
  BY <1>2, <1>5, <1>7, <1>8, <1>9 DEF ArenaState
<1> QED BY <1>10 DEF ArenaInv, w

\* The arena's invariant holds at first.
LEMMA ArenaStart == ArenaInit => ArenaInv
<1> SUFFICES ASSUME ArenaInit PROVE ArenaInv
  OBVIOUS
<1> DEFINE at == [c \in Client |-> 0]
<1>1. HeapSize \in Nat /\ HeapSize > 0 /\ 0 \in Unit
  BY ArenaAssumption DEF Unit
<1>2. heap[0] = Header(HeapSize, FALSE) /\ heap \in Heaps
  <2>1. Header(HeapSize, FALSE) \in Cell /\ Data(NoClient) \in Cell
    BY <1>1 DEF Header, Data, Cell
  <2> QED BY <1>1, <2>1 DEF ArenaInit, Heaps
<1>3. heap[0].size = HeapSize /\ ~heap[0].used
  BY <1>2 DEF Header
<1>4. Chain(heap, {0})
  BY <1>1, <1>3 DEF Chain
<1>5. own \in Holdings /\ \A c \in Client : own[c] = Nothing /\ own[c].n = 0
  BY DEF ArenaInit, Holdings, Nothing
<1>6. HeldBy(heap, {0}, own, at, Client)
  BY <1>5 DEF HeldBy
<1>7. InUse(heap, {0}) = {}
  BY <1>3 DEF InUse
<1>8. ArenaState(heap, {0}, own, at, heap_used, refused)
  BY <1>2, <1>4, <1>5, <1>6, <1>7, FS_EmptySet DEF ArenaState, ArenaInit
<1> QED BY <1>8 DEF ArenaInv

\* An allocation keeps what is held, and adds a block or refuses rightly.
LEMMA AllocState ==
    ASSUME NEW B, NEW at, ArenaState(heap, B, own, at, heap_used, refused),
           NEW need \in Nat, need > 0
    PROVE  \E C :
             LET a == Alloc(heap, need)
             IN  /\ Granted(heap, B, need, a, C)
                 /\ HeldBy(a.heap, C, own, at, Client)
                 /\ a.block = -1 =>
                       Cardinality(InUse(a.heap, C)) = heap_used /\ NoRoom(a.heap, C, need)
                 /\ a.block # -1 =>
                       /\ Cardinality(InUse(a.heap, C)) = heap_used + a.heap[a.block].size
                       /\ \A c \in Client : own[c].n # 0 => at[c] # a.block
                       /\ \A h \in B : heap[h].used =>
                             /\ h \in C /\ h # a.block
                             /\ \A u \in h .. h + heap[h].size - 1 : a.heap[u] = heap[u]
<1> DEFINE a == Alloc(heap, need)
<1>0. heap \in Heaps /\ Chain(heap, B) /\ own \in Holdings /\ HeldBy(heap, B, own, at, Client)
      /\ heap_used = Cardinality(InUse(heap, B))
  BY DEF ArenaState
<1>1. PICK C : Granted(heap, B, need, a, C)
  BY <1>0, AllocGrants
<1> HIDE DEF a
<1>2. /\ a.heap \in Heaps /\ Chain(a.heap, C) /\ Keeps(heap, B, a.heap, C)
  BY <1>1 DEF Granted
<1>3. HeldBy(a.heap, C, own, at, Client)
  <2>1. ASSUME NEW c \in Client, own[c].n # 0
        PROVE  /\ at[c] \in C
               /\ \A u \in at[c] .. at[c] + heap[at[c]].size - 1 : a.heap[u] = heap[u]
    <3>1. at[c] \in B /\ heap[at[c]].used
      BY <1>0, <2>1 DEF HeldBy, Owns
    <3> QED BY <1>2, <3>1 DEF Keeps
  <2> QED BY <1>0, <2>1, HeldKeeps
<1>4. ASSUME a.block = -1
      PROVE  Cardinality(InUse(a.heap, C)) = heap_used /\ NoRoom(a.heap, C, need)
  <2>1. InUse(a.heap, C) = InUse(heap, B) /\ NoRoom(heap, B, need)
    BY <1>0, <1>1, <1>4, GrantUnits DEF Granted
  <2>2. \A h \in B : heap[h].used => h \in C /\ a.heap[h] = heap[h]
    <3>1. SUFFICES ASSUME NEW h \in B, heap[h].used PROVE h \in C /\ a.heap[h] = heap[h]
      OBVIOUS
    <3>2. h \in Nat /\ heap[h].size \in Nat /\ heap[h].size > 0
      BY <1>0, ChainNat DEF Chain
    <3>3. h \in h .. h + heap[h].size - 1
      BY <3>2
    <3> QED BY <1>2, <3>1, <3>3 DEF Keeps
  <2>3. NoRoom(a.heap, C, need)
    <3>1. SUFFICES ASSUME NEW u \in Nat, u + need <= HeapSize
                   PROVE  \E h \in C : a.heap[h].used /\ Meets(a.heap, h, u, need)
      BY DEF NoRoom
    <3>2. PICK h \in B : heap[h].used /\ Meets(heap, h, u, need)
      BY <2>1, <3>1 DEF NoRoom
    <3>3. h \in C /\ a.heap[h] = heap[h]
      BY <2>2, <3>2
    <3> QED BY <3>2, <3>3 DEF Meets
  <2> QED BY <1>0, <2>1, <2>3
<1>5. ASSUME a.block # -1
      PROVE  /\ Cardinality(InUse(a.heap, C)) = heap_used + a.heap[a.block].size
             /\ \A c \in Client : own[c].n # 0 => at[c] # a.block
             /\ \A h \in B : heap[h].used =>
                   /\ h \in C /\ h # a.block
                   /\ \A u \in h .. h + heap[h].size - 1 : a.heap[u] = heap[u]
  <2>1. Takes(heap, B, a.heap, C, a.block)
    BY <1>0, <1>1, <1>5, GrantUnits
  <2>2. Cardinality(InUse(a.heap, C)) = heap_used + a.heap[a.block].size
    BY <1>0, <1>2, <2>1, TakesUnits
  <2>3. \A h \in B : heap[h].used => h # a.block
    BY <2>1 DEF Takes
  <2>4. \A c \in Client : own[c].n # 0 => at[c] # a.block
    BY <1>0, <2>3 DEF HeldBy, Owns
  <2> QED BY <1>2, <2>2, <2>3, <2>4 DEF Keeps
<1> QED BY <1>1, <1>3, <1>4, <1>5 DEF a

\* The heap w is m with n units from p written by client c.
Filling(m, c, p, n, w) ==
    /\ w \in Heaps
    /\ \A u \in Unit : u \in p .. p + n - 1 => w[u] = Data(c)
    /\ \A u \in Unit : ~(u \in p .. p + n - 1) => w[u] = m[u]

\* A client writes its own units only.
LEMMA FilledIs ==
    ASSUME NEW m \in Heaps, NEW c \in Client, NEW p \in Nat, NEW n \in Int
    PROVE  Filling(m, c, p, n, Filled(m, c, p, n))
<1>1. Data(c) \in Cell
  BY DEF Data, Cell
<1> QED BY <1>1 DEF Filled, Heaps, Filling

\* A client that holds nothing yet gets block b of the heap.
LEMMA MallocState ==
    ASSUME ArenaInv, NEW c \in Client, NEW n \in Sizes, NEW pad \in 0 .. MaxPad,
           NEW off \in 0 .. pad, Malloc(c, n, pad, off)
    PROVE  ArenaInv'
<1>1. PICK B, at : ArenaState(heap, B, own, at, heap_used, refused)
  BY DEF ArenaInv
<1> DEFINE need == n + pad + 1
           a == Alloc(heap, need)
           b == a.block
           m == a.heap
<1>2. n \in Nat /\ n > 0 /\ pad \in Nat /\ off \in Nat /\ off <= pad /\ need \in Nat /\ need > 0
  BY ArenaAssumption
<1>3. PICK C :
        /\ Granted(heap, B, need, a, C)
        /\ HeldBy(m, C, own, at, Client)
        /\ b = -1 => Cardinality(InUse(m, C)) = heap_used /\ NoRoom(m, C, need)
        /\ b # -1 => /\ Cardinality(InUse(m, C)) = heap_used + m[b].size
                     /\ \A d \in Client : own[d].n # 0 => at[d] # b
  <2> HIDE DEF need
  <2> QED BY <1>1, <1>2, AllocState
<1>4. /\ own[c] = Nothing
      /\ b = -1 => /\ refused' = n + pad /\ own' = own /\ heap_used' = heap_used
                   /\ heap' = Forget(m)
      /\ b # -1 => /\ own' = [own EXCEPT ![c] = [ptr |-> b + 1 + off, n |-> n]]
                   /\ heap_used' = heap_used + m[b].size
                   /\ refused' = 0
                   /\ heap' = Forget(Filled(m, c, b + 1 + off, n))
  BY DEF Malloc
<1>5. /\ own \in Holdings /\ (\A d \in Client : own[d].n = 0 => own[d] = Nothing)
      /\ at \in [Client -> Nat] /\ heap_used \in Nat
  BY <1>1 DEF ArenaState
<1> HIDE DEF a
<1>6. m \in Heaps /\ Chain(m, C)
  BY <1>3 DEF Granted
<1>7. CASE b = -1
  <2>1. n + pad \in Nat /\ (n + pad) + 1 = need
    BY <1>2
  <2>2. ArenaState(m, C, own', at, heap_used', refused')
    BY <1>3, <1>4, <1>5, <1>6, <1>7, <2>1 DEF ArenaState
  <2> QED BY <1>4, <1>7, <2>2, ForgetState
<1>8. CASE b # -1
  <2> DEFINE p == b + 1 + off
             w == Filled(m, c, p, n)
             q == [ptr |-> p, n |-> n]
  <2>1. b \in C /\ m[b].used /\ m[b].size >= need
    BY <1>3, <1>8 DEF Granted
  <2>2. b \in Nat /\ m[b].size \in Nat /\ b + m[b].size <= HeapSize /\ HeapSize \in Nat
    BY <1>6, <2>1, ChainNat
  <2>3. p \in Nat /\ b < p /\ p + n <= b + m[b].size
    BY <1>2, <2>1, <2>2
  <2> HIDE DEF p, m, b
  <2>4. /\ w \in Heaps
        /\ \A u \in p .. p + n - 1 : u \in Unit /\ w[u] = Data(c)
        /\ \A u \in Unit : ~(b < u /\ u < b + m[b].size) => w[u] = m[u]
    <3>1. \A u \in p .. p + n - 1 : u \in Unit /\ b < u /\ u < b + m[b].size
      BY <1>2, <2>2, <2>3 DEF Unit
    <3>2. n \in Int
      BY <1>2
    <3>3. Filling(m, c, p, n, w)
      BY <1>6, <2>3, <3>2, FilledIs
    <3>4. \A u \in Unit : ~(b < u /\ u < b + m[b].size) => ~(u \in p .. p + n - 1)
      BY <3>1
    <3> HIDE DEF w
    <3> QED BY <3>1, <3>3, <3>4 DEF Filling
  <2> HIDE DEF w
  <2>5. HeldBy(m, C, own, at, Client \ {c})
    BY <1>3 DEF HeldBy
  <2>6. /\ SameHeads(m, w, C) /\ Chain(w, C)
        /\ HeldBy(w, C, own, at, Client \ {c})
    <3>1. \A d \in Client \ {c} : own[d].n # 0 => at[d] # b
      BY <1>3, <1>8
    <3>2. Client \ {c} \in SUBSET Client
      OBVIOUS
    <3> QED BY <1>5, <1>6, <2>1, <2>4, <2>5, <3>1, <3>2, HeldWrite
  <2>7. w[b] = m[b]
    BY <2>1, <2>6 DEF SameHeads
  <2>8. Owns(w, C, c, q, b)
    BY <2>1, <2>3, <2>4, <2>7 DEF Owns
  <2>9. q \in [ptr : Nat, n : Nat] /\ q.n # 0 /\ own' = [own EXCEPT ![c] = q]
    BY <1>2, <1>4, <1>8, <2>3 DEF p
  <2> HIDE DEF q
  <2>10. HeldBy(w, C, own', [at EXCEPT ![c] = b], Client)
    <3>1. \A d \in Client \ {c} : own[d].n # 0 => at[d] # b
      BY <1>3, <1>8
    <3> QED BY <1>5, <2>2, <2>6, <2>8, <2>9, <3>1, HeldAll
  <2>11. heap_used' = Cardinality(InUse(w, C)) /\ heap_used' \in Nat
    BY <1>3, <1>4, <1>5, <1>8, <2>2, <2>6, SameUnits
  <2>12. own' \in Holdings /\ \A d \in Client : own'[d].n = 0 => own'[d] = Nothing
    <3>1. own'[c] = q /\ \A d \in Client : d # c => own'[d] = own[d]
      BY <1>5, <2>9 DEF Holdings
    <3>2. own' \in Holdings
      BY <1>5, <2>9 DEF Holdings
    <3> QED BY <1>5, <2>9, <3>1, <3>2
  <2>13. [at EXCEPT ![c] = b] \in [Client -> Nat]
    BY <1>5, <2>2
  <2>14. ArenaState(w, C, own', [at EXCEPT ![c] = b], heap_used', refused')
    BY <1>4, <1>8, <2>4, <2>6, <2>10, <2>11, <2>12, <2>13 DEF ArenaState
  <2>15. heap' = Forget(w)
    BY <1>4, <1>8 DEF w, p
  <2> QED BY <2>14, <2>15, ForgetState
<1> QED BY <1>7, <1>8

\* What a client holds is in block b of B, which no other client holds.
InBlock(B, at, c, b) ==
    /\ own[c].n # 0 /\ own[c].ptr \in Nat /\ own[c].n \in Nat
    /\ b \in Nat /\ b \in B /\ heap[b].used
    /\ heap[b].size \in Nat /\ b + heap[b].size <= HeapSize /\ HeapSize \in Nat
    /\ b < own[c].ptr /\ own[c].ptr + own[c].n <= b + heap[b].size
    /\ Block(heap, own[c].ptr) = b
    /\ \A u \in own[c].ptr .. own[c].ptr + own[c].n - 1 : heap[u] = Data(c)
    /\ \A d \in Client \ {c} : own[d].n # 0 => at[d] # b
    /\ HeldBy(heap, B, own, at, Client \ {c})

\* A client's memory lies in its block.
LEMMA HoldsBlock ==
    ASSUME NEW B, NEW at, ArenaState(heap, B, own, at, heap_used, refused),
           NEW c \in Client, own[c] # Nothing
    PROVE  InBlock(B, at, c, at[c])
<1>1. own[c].n # 0 /\ own[c].ptr \in Nat /\ own[c].n \in Nat
  BY DEF ArenaState, Holdings
<1>2. Owns(heap, B, c, own[c], at[c])
  BY <1>1 DEF ArenaState, HeldBy
<1>3. /\ at[c] \in B /\ heap[at[c]].used /\ at[c] < own[c].ptr
      /\ own[c].ptr + own[c].n <= at[c] + heap[at[c]].size
      /\ \A u \in own[c].ptr .. own[c].ptr + own[c].n - 1 : heap[u] = Data(c)
  BY <1>2 DEF Owns
<1>4. /\ at[c] \in Nat /\ heap[at[c]].size \in Nat
      /\ at[c] + heap[at[c]].size <= HeapSize /\ HeapSize \in Nat
  BY <1>3, ChainNat DEF ArenaState
<1>5. own[c].ptr < at[c] + heap[at[c]].size
  BY <1>1, <1>3, <1>4
<1>6. Block(heap, own[c].ptr) = at[c]
  BY <1>1, <1>3, <1>5, BlockIs DEF ArenaState
<1>7. /\ \A d \in Client \ {c} : own[d].n # 0 => at[d] # at[c]
      /\ HeldBy(heap, B, own, at, Client \ {c})
  BY <1>1 DEF ArenaState, HeldBy
<1> QED BY <1>1, <1>3, <1>4, <1>6, <1>7 DEF InBlock

\* free gives back the client's block and nothing else.
LEMMA ReleaseState ==
    ASSUME ArenaInv, NEW c \in Client, Release(c)
    PROVE  ArenaInv'
<1>1. PICK B, at : ArenaState(heap, B, own, at, heap_used, refused)
  BY DEF ArenaInv
<1> DEFINE b == at[c]
           v == Freed(heap, b)
<1>2. own[c] # Nothing
  BY DEF Release
<1>3. /\ b \in Nat /\ b \in B /\ heap[b].used /\ Block(heap, own[c].ptr) = b
      /\ heap[b].size \in Nat
      /\ \A d \in Client \ {c} : own[d].n # 0 => at[d] # b
      /\ HeldBy(heap, B, own, at, Client \ {c})
  <2>1. InBlock(B, at, c, b)
    BY <1>1, <1>2, HoldsBlock
  <2> HIDE DEF b
  <2> QED BY <2>1 DEF InBlock
<1>4. /\ own' = [own EXCEPT ![c] = Nothing] /\ heap_used' = heap_used - heap[b].size
      /\ refused' = 0 /\ heap' = Forget(v)
  BY <1>3 DEF Release
<1>5. /\ heap \in Heaps /\ Chain(heap, B) /\ own \in Holdings
      /\ (\A d \in Client : own[d].n = 0 => own[d] = Nothing)
      /\ at \in [Client -> Nat] /\ heap_used = Cardinality(InUse(heap, B))
  BY <1>1 DEF ArenaState
<1> HIDE DEF b, v
<1>6. PICK D : /\ v \in Heaps /\ Chain(v, D) /\ Takes(v, D, heap, B, b)
               /\ HeldBy(v, D, own, at, Client \ {c})
  <2>1. Client \ {c} \in SUBSET Client
    OBVIOUS
  <2> QED BY <1>3, <1>5, <2>1, HeldFreed DEF v
<1>7. /\ Cardinality(InUse(heap, B)) = Cardinality(InUse(v, D)) + heap[b].size
      /\ Cardinality(InUse(v, D)) \in Nat
  BY <1>5, <1>6, TakesUnits
<1>8. heap_used' = Cardinality(InUse(v, D)) /\ heap_used' \in Nat
  BY <1>3, <1>4, <1>5, <1>7
<1>9. Nothing \in [ptr : Nat, n : Nat] /\ Nothing.n = 0
  BY DEF Nothing
<1>10. HeldBy(v, D, own', [at EXCEPT ![c] = b], Client)
  <2> HIDE DEF Nothing
  <2> QED BY <1>3, <1>4, <1>5, <1>6, <1>9, HeldAll
<1>11. own' \in Holdings /\ \A d \in Client : own'[d].n = 0 => own'[d] = Nothing
  <2>1. own'[c] = Nothing /\ \A d \in Client : d # c => own'[d] = own[d]
    BY <1>4, <1>5 DEF Holdings
  <2>2. own' \in Holdings
    BY <1>4, <1>5, <1>9 DEF Holdings
  <2> QED BY <1>5, <2>1, <2>2
<1>12. [at EXCEPT ![c] = b] \in [Client -> Nat]
  BY <1>3, <1>5
<1>13. ArenaState(v, D, own', [at EXCEPT ![c] = b], heap_used', refused')
  BY <1>4, <1>6, <1>8, <1>10, <1>11, <1>12 DEF ArenaState
<1> QED BY <1>4, <1>13, ForgetState

\* Client c has q in block b of (w, C), written up to its end, and the
\* others hold theirs.
Regrown(w, C, at, c, b, q) ==
    /\ w \in Heaps /\ Chain(w, C) /\ at \in [Client -> Nat] /\ b \in Nat
    /\ own \in Holdings /\ \A d \in Client : own[d].n = 0 => own[d] = Nothing
    /\ HeldBy(w, C, own, at, Client \ {c})
    /\ q \in [ptr : Nat, n : Nat] /\ q.n # 0 /\ Owns(w, C, c, q, b)
    /\ \A d \in Client \ {c} : own[d].n # 0 => at[d] # b
    /\ own' = [own EXCEPT ![c] = q] /\ refused' = 0
    /\ heap_used' = Cardinality(InUse(w, C)) /\ heap_used' \in Nat

\* However realloc grew the memory, the invariant follows.
LEMMA ReallocEnds ==
    ASSUME NEW w, NEW C, NEW at, NEW c \in Client, NEW b, NEW q,
           Regrown(w, C, at, c, b, q), heap' = Forget(w)
    PROVE  ArenaInv'
<1>1. HeldBy(w, C, own', [at EXCEPT ![c] = b], Client)
  BY HeldAll DEF Regrown
<1>2. own' \in Holdings /\ \A d \in Client : own'[d].n = 0 => own'[d] = Nothing
  <2>1. own'[c] = q /\ \A d \in Client : d # c => own'[d] = own[d]
    BY DEF Holdings, Regrown
  <2>2. own' \in Holdings
    BY DEF Holdings, Regrown
  <2> QED BY <2>1, <2>2 DEF Regrown
<1>3. [at EXCEPT ![c] = b] \in [Client -> Nat]
  BY DEF Regrown
<1>4. ArenaState(w, C, own', [at EXCEPT ![c] = b], heap_used', refused')
  BY <1>1, <1>2, <1>3 DEF ArenaState, Regrown
<1> QED BY <1>4, ForgetState

\* It grows within its block.
LEMMA ReallocInPlace ==
    ASSUME NEW B, NEW at, ArenaState(heap, B, own, at, heap_used, refused),
           NEW c \in Client, own[c] # Nothing, NEW n \in Nat, n > 0,
           Have(heap, at[c], own[c].ptr) >= n,
           own' = [own EXCEPT ![c].n = n], refused' = 0, heap_used' = heap_used,
           heap' = Forget(Filled(heap, c, own[c].ptr + own[c].n, n - own[c].n))
    PROVE  ArenaInv'
<1> DEFINE b == at[c]
           p == own[c].ptr
           k == own[c].n
           w == Filled(heap, c, p + k, n - k)
           q == [ptr |-> p, n |-> n]
<1>1. /\ heap \in Heaps /\ Chain(heap, B) /\ own \in Holdings
      /\ (\A d \in Client : own[d].n = 0 => own[d] = Nothing)
      /\ at \in [Client -> Nat] /\ heap_used = Cardinality(InUse(heap, B)) /\ heap_used \in Nat
  BY DEF ArenaState
<1>2. /\ k # 0 /\ p \in Nat /\ k \in Nat
      /\ b \in Nat /\ b \in B /\ heap[b].used
      /\ heap[b].size \in Nat /\ b + heap[b].size <= HeapSize /\ HeapSize \in Nat
      /\ b < p /\ p + k <= b + heap[b].size
      /\ \A u \in p .. p + k - 1 : heap[u] = Data(c)
      /\ \A d \in Client \ {c} : own[d].n # 0 => at[d] # b
      /\ HeldBy(heap, B, own, at, Client \ {c})
  <2>1. InBlock(B, at, c, b)
    BY HoldsBlock
  <2> HIDE DEF b
  <2> QED BY <2>1 DEF InBlock
<1>3. own' = [own EXCEPT ![c] = q]
  <2>1. own[c] = [ptr |-> p, n |-> k]
    BY <1>1 DEF Holdings
  <2>2. [own[c] EXCEPT !.n = n] = q
    BY <2>1
  <2> QED BY <1>1, <2>2 DEF Holdings
<1>4. p + n <= b + heap[b].size
  BY <1>2 DEF Have
<1>5. heap' = Forget(w)
  OBVIOUS
<1> HIDE DEF b, p, k
<1>6. p + k \in Nat /\ n - k \in Int
  BY <1>2
<1>14. Filling(heap, c, p + k, n - k, w)
  <2> DEFINE e == p + k
             l == n - k
  <2>1. e \in Nat /\ l \in Int
    BY <1>6
  <2> HIDE DEF e, l
  <2>2. Filling(heap, c, e, l, Filled(heap, c, e, l))
    BY <1>1, <2>1, FilledIs
  <2> QED BY <2>2 DEF e, l
<1> HIDE DEF w
<1>7. w \in Heaps
  BY <1>14 DEF Filling
<1>8. ASSUME NEW u \in p .. p + n - 1 PROVE u \in Unit /\ w[u] = Data(c)
  <2>1. u \in Unit /\ u \in Nat
    BY <1>2, <1>4 DEF Unit
  <2>2. u \in (p + k) .. (p + k) + (n - k) - 1 \/ u \in p .. p + k - 1
    BY <1>2
  <2>3. u \in (p + k) .. (p + k) + (n - k) - 1 => w[u] = Data(c)
    BY <1>14, <2>1 DEF Filling
  <2>4. ~(u \in (p + k) .. (p + k) + (n - k) - 1) => w[u] = heap[u]
    BY <1>14, <2>1 DEF Filling
  <2> QED BY <1>2, <2>1, <2>2, <2>3, <2>4
<1>9. \A u \in Unit : ~(b < u /\ u < b + heap[b].size) => w[u] = heap[u]
  <2>1. SUFFICES ASSUME NEW u \in Unit, ~(b < u /\ u < b + heap[b].size) PROVE w[u] = heap[u]
    OBVIOUS
  <2>2. ~(u \in (p + k) .. (p + k) + (n - k) - 1)
    BY <1>2, <1>4, <2>1 DEF Unit
  <2> QED BY <1>14, <2>1, <2>2 DEF Filling
<1>10. /\ SameHeads(heap, w, B) /\ Chain(w, B)
       /\ HeldBy(w, B, own, at, Client \ {c})
  <2>1. Client \ {c} \in SUBSET Client
    OBVIOUS
  <2> QED BY <1>1, <1>2, <1>7, <1>9, <2>1, HeldWrite
<1>11. Owns(w, B, c, q, b)
  <2>1. w[b] = heap[b]
    BY <1>2, <1>10 DEF SameHeads
  <2> QED BY <1>2, <1>4, <1>8, <2>1 DEF Owns
<1>12. q \in [ptr : Nat, n : Nat] /\ q.n # 0
  BY <1>2
<1>13. heap_used' = Cardinality(InUse(w, B)) /\ heap_used' \in Nat
  BY <1>1, <1>10, SameUnits
<1> HIDE DEF q
<1>15. Regrown(w, B, at, c, b, q)
  BY <1>1, <1>2, <1>3, <1>7, <1>10, <1>11, <1>12, <1>13 DEF Regrown
<1> QED BY <1>5, <1>15, ReallocEnds

\* The heap w is m with k units copied from p to r.
Copying(m, p, r, k, w) ==
    /\ w \in Heaps
    /\ \A u \in Unit : u \in r .. r + k - 1 => w[u] = m[p + (u - r)]
    /\ \A u \in Unit : ~(u \in r .. r + k - 1) => w[u] = m[u]

\* What a copy writes.
LEMMA CopiedIs ==
    ASSUME NEW m \in Heaps, NEW p \in Nat, NEW r \in Nat, NEW k \in Nat, p + k <= HeapSize
    PROVE  Copying(m, p, r, k, Copied(m, p, r, k))
<1>1. ASSUME NEW u \in Unit, u \in r .. r + k - 1 PROVE m[p + (u - r)] \in Cell
  <2>1. HeapSize \in Nat
    BY ArenaAssumption
  <2>2. p + (u - r) \in Unit
    BY <1>1, <2>1 DEF Unit
  <2> QED BY <2>2 DEF Heaps
<1> QED BY <1>1 DEF Copied, Heaps, Copying

\* It moves to a new block, copied before the old one is freed.
LEMMA ReallocMoves ==
    ASSUME NEW B, NEW at, ArenaState(heap, B, own, at, heap_used, refused),
           NEW c \in Client, own[c] # Nothing, NEW n \in Nat, n > 0,
           NEW ob, ob = at[c], NEW have, have = Have(heap, ob, own[c].ptr), have < n,
           NEW a, a = Alloc(heap, n + 1), a.block # -1,
           own' = [own EXCEPT ![c] = [ptr |-> a.block + 1, n |-> n]], refused' = 0,
           heap_used' = heap_used + a.heap[a.block].size - heap[ob].size,
           heap' = Forget(Filled(Freed(Copied(a.heap, own[c].ptr, a.block + 1, have), ob), c,
                                 a.block + 1 + own[c].n, n - own[c].n))
    PROVE  ArenaInv'
<1> DEFINE p == own[c].ptr
           k == own[c].n
           m == a.heap
           b == a.block
           r == b + 1
           w == Copied(m, p, r, have)
           v == Freed(w, ob)
           z == Filled(v, c, r + k, n - k)
           Others == Client \ {c}
           q == [ptr |-> r, n |-> n]
<1>0. own' = [own EXCEPT ![c] = q] /\ heap' = Forget(z)
      /\ heap_used' = heap_used + m[b].size - heap[ob].size
  OBVIOUS
<1>1. /\ heap \in Heaps /\ Chain(heap, B) /\ own \in Holdings
      /\ (\A d \in Client : own[d].n = 0 => own[d] = Nothing)
      /\ at \in [Client -> Nat] /\ heap_used \in Nat
  BY DEF ArenaState
<1>2. /\ k # 0 /\ p \in Nat /\ k \in Nat
      /\ ob \in Nat /\ ob \in B /\ heap[ob].used
      /\ heap[ob].size \in Nat /\ ob + heap[ob].size <= HeapSize /\ HeapSize \in Nat
      /\ ob < p /\ p + k <= ob + heap[ob].size
      /\ \A u \in p .. p + k - 1 : heap[u] = Data(c)
      /\ \A d \in Others : own[d].n # 0 => at[d] # ob
  <2>1. InBlock(B, at, c, ob)
    BY HoldsBlock
  <2> QED BY <2>1 DEF InBlock
<1>3. n + 1 \in Nat /\ n + 1 > 0
  OBVIOUS
<1> HIDE DEF p, k, z, v, w, q, r
<1>4. PICK C :
        /\ Granted(heap, B, n + 1, a, C)
        /\ HeldBy(m, C, own, at, Client)
        /\ Cardinality(InUse(m, C)) = heap_used + m[b].size
        /\ \A d \in Client : own[d].n # 0 => at[d] # b
        /\ \A h \in B : heap[h].used =>
              /\ h \in C /\ h # b
              /\ \A u \in h .. h + heap[h].size - 1 : m[u] = heap[u]
  <2> DEFINE need == n + 1
  <2>1. need \in Nat /\ need > 0
    BY <1>3
  <2>2. a = Alloc(heap, need) /\ a.block # -1
    OBVIOUS
  <2>3. \E C : /\ Granted(heap, B, need, a, C)
               /\ HeldBy(m, C, own, at, Client)
               /\ Cardinality(InUse(m, C)) = heap_used + m[b].size
               /\ \A d \in Client : own[d].n # 0 => at[d] # b
               /\ \A h \in B : heap[h].used =>
                     /\ h \in C /\ h # b
                     /\ \A u \in h .. h + heap[h].size - 1 : m[u] = heap[u]
    <3> HIDE DEF need
    <3> QED BY <2>1, <2>2, AllocState
  <2> QED BY <2>3
<1>5. m \in Heaps /\ Chain(m, C) /\ b \in C /\ m[b].used /\ m[b].size >= n + 1
  BY <1>4 DEF Granted
<1> HIDE DEF b, m
<1>6. /\ b \in Nat /\ m[b].size \in Nat /\ b + m[b].size <= HeapSize
      /\ r \in Nat /\ r = b + 1 /\ r + n <= b + m[b].size
  BY <1>2, <1>5, ChainNat DEF r
<1>7. /\ have \in Nat /\ k <= have /\ p + have = ob + heap[ob].size
  BY <1>2 DEF Have, p
\* The old block in the heap after the allocation
<1>8. /\ ob \in C /\ ob # b /\ m[ob] = heap[ob]
      /\ \A u \in p .. p + k - 1 : m[u] = Data(c)
  <2>1. ob \in C /\ ob # b /\ \A u \in ob .. ob + heap[ob].size - 1 : m[u] = heap[u]
    BY <1>2, <1>4
  <2>2. heap[ob].size > 0
    BY <1>1, <1>2 DEF Chain
  <2>3. ob \in ob .. ob + heap[ob].size - 1
    BY <1>2, <2>2
  <2>4. \A u \in p .. p + k - 1 : u \in ob .. ob + heap[ob].size - 1
    BY <1>2
  <2> QED BY <1>2, <2>1, <2>3, <2>4
\* The copy is inside the new block.
<1>9. /\ w \in Heaps
      /\ \A u \in Unit : u \in r .. r + have - 1 => w[u] = m[p + (u - r)]
      /\ \A u \in Unit : ~(u \in r .. r + have - 1) => w[u] = m[u]
  <2>1. p + have <= HeapSize
    BY <1>2, <1>7
  <2>2. Copying(m, p, r, have, w)
    BY <1>2, <1>5, <1>6, <1>7, <2>1, CopiedIs DEF w
  <2> QED BY <2>2 DEF Copying
<1>10. \A u \in Unit : ~(b < u /\ u < b + m[b].size) => w[u] = m[u]
  <2>1. SUFFICES ASSUME NEW u \in Unit, ~(b < u /\ u < b + m[b].size) PROVE w[u] = m[u]
    OBVIOUS
  <2>2. ~(u \in r .. r + have - 1)
    BY <1>2, <1>6, <1>7, <2>1 DEF Unit
  <2> QED BY <1>9, <2>1, <2>2
<1>11. /\ SameHeads(m, w, C) /\ Chain(w, C)
       /\ HeldBy(w, C, own, at, Others)
  <2>1. HeldBy(m, C, own, at, Others) /\ Others \in SUBSET Client
        /\ \A d \in Others : own[d].n # 0 => at[d] # b
    BY <1>4 DEF HeldBy
  <2> HIDE DEF Others
  <2> QED BY <1>1, <1>5, <1>9, <1>10, <2>1, HeldWrite
<1>12. \A u \in r .. r + k - 1 : u \in Unit /\ w[u] = Data(c)
  <2>1. SUFFICES ASSUME NEW u \in r .. r + k - 1 PROVE u \in Unit /\ w[u] = Data(c)
    OBVIOUS
  <2>2. u \in Unit /\ u \in r .. r + have - 1 /\ p + (u - r) \in p .. p + k - 1
    BY <1>2, <1>6, <1>7 DEF Unit
  <2> QED BY <1>8, <1>9, <2>2
\* The old block is released.
<1>13. w[ob] = m[ob] /\ w[ob] = heap[ob] /\ w[b] = m[b]
  BY <1>5, <1>8, <1>11 DEF SameHeads
<1>14. PICK D :
         /\ v \in Heaps /\ Chain(v, D) /\ Takes(v, D, w, C, ob)
         /\ \A h \in C : w[h].used /\ h # ob =>
               /\ h \in D
               /\ \A u \in h .. h + w[h].size - 1 : v[u] = w[u]
         /\ HeldBy(v, D, own, at, Others)
  <2>1. Others \in SUBSET Client
    OBVIOUS
  <2> HIDE DEF Others
  <2> QED BY <1>1, <1>2, <1>8, <1>9, <1>11, <1>13, <2>1, HeldFreed DEF v
<1>15. /\ b \in D /\ \A u \in b .. b + m[b].size - 1 : v[u] = w[u]
  BY <1>5, <1>8, <1>13, <1>14
<1>16. v[b] = m[b]
  <2>1. b \in b .. b + m[b].size - 1
    BY <1>5, <1>6
  <2> QED BY <1>13, <1>15, <2>1
\* What the client writes on top is inside the new block.
<1>17. r + k \in Nat /\ n - k \in Int
  BY <1>2, <1>6
<1>18. /\ z \in Heaps
       /\ \A u \in Unit : u \in (r + k) .. (r + k) + (n - k) - 1 => z[u] = Data(c)
       /\ \A u \in Unit : ~(u \in (r + k) .. (r + k) + (n - k) - 1) => z[u] = v[u]
  <2> DEFINE e == r + k
             l == n - k
  <2>1. e \in Nat /\ l \in Int
    BY <1>17
  <2> HIDE DEF e, l
  <2>2. Filling(v, c, e, l, Filled(v, c, e, l))
    BY <1>14, <2>1, FilledIs
  <2>3. Filling(v, c, r + k, n - k, z)
    BY <2>2 DEF e, l, z
  <2> QED BY <2>3 DEF Filling
<1>19. \A u \in Unit : ~(b < u /\ u < b + v[b].size) => z[u] = v[u]
  <2>1. SUFFICES ASSUME NEW u \in Unit, ~(b < u /\ u < b + m[b].size) PROVE z[u] = v[u]
    BY <1>16
  <2>2. ~(u \in (r + k) .. (r + k) + (n - k) - 1)
    BY <1>2, <1>6, <2>1 DEF Unit
  <2> QED BY <1>18, <2>1, <2>2
<1>20. /\ SameHeads(v, z, D) /\ Chain(z, D)
       /\ HeldBy(z, D, own, at, Others)
  <2>1. Others \in SUBSET Client /\ (\A d \in Others : own[d].n # 0 => at[d] # b) /\ v[b].used
    BY <1>4, <1>5, <1>16
  <2> HIDE DEF Others
  <2> QED BY <1>1, <1>14, <1>15, <1>18, <1>19, <2>1, HeldWrite
<1>21. \A u \in r .. r + n - 1 : z[u] = Data(c)
  <2>1. SUFFICES ASSUME NEW u \in r .. r + n - 1 PROVE z[u] = Data(c)
    OBVIOUS
  <2>2. u \in Unit /\ u \in Nat
    BY <1>2, <1>6 DEF Unit
  <2>3. u \in (r + k) .. (r + k) + (n - k) - 1 \/ (u \in r .. r + k - 1 /\ ~(u \in (r + k) .. (r + k) + (n - k) - 1))
    BY <1>2, <1>6
  <2>4. CASE u \in r .. r + k - 1 /\ ~(u \in (r + k) .. (r + k) + (n - k) - 1)
    <3>1. u \in b .. b + m[b].size - 1
      BY <1>6, <2>1
    <3> QED BY <1>12, <1>15, <1>18, <2>2, <2>4, <3>1
  <2> QED BY <1>18, <2>2, <2>3, <2>4
<1>22. Owns(z, D, c, q, b)
  <2>1. z[b] = m[b]
    BY <1>15, <1>16, <1>20 DEF SameHeads
  <2> QED BY <1>5, <1>6, <1>15, <1>21, <2>1 DEF Owns, q
<1>23. heap_used' = Cardinality(InUse(z, D)) /\ heap_used' \in Nat
  <2>1. Cardinality(InUse(w, C)) = heap_used + m[b].size
    BY <1>4, <1>11, SameUnits
  <2>2. /\ Cardinality(InUse(w, C)) = Cardinality(InUse(v, D)) + w[ob].size
        /\ Cardinality(InUse(v, D)) \in Nat
    BY <1>9, <1>11, <1>14, TakesUnits
  <2>3. InUse(z, D) = InUse(v, D)
    BY <1>20, SameUnits
  <2>4. Cardinality(InUse(v, D)) = heap_used + m[b].size - heap[ob].size
    BY <1>1, <1>2, <1>6, <1>13, <2>1, <2>2
  <2> QED BY <1>0, <2>2, <2>3, <2>4
<1>24. q \in [ptr : Nat, n : Nat] /\ q.n # 0
  BY <1>6 DEF q
<1>25. \A d \in Client \ {c} : own[d].n # 0 => at[d] # b
  BY <1>4
<1>26. Regrown(z, D, at, c, b, q)
  BY <1>0, <1>1, <1>6, <1>18, <1>20, <1>22, <1>23, <1>24, <1>25 DEF Regrown
<1> QED BY <1>0, <1>26, ReallocEnds

\* Every outcome of realloc keeps the invariant.
LEMMA ReallocState ==
    ASSUME ArenaInv, NEW c \in Client, NEW n \in Sizes, Realloc(c, n)
    PROVE  ArenaInv'
<1>1. PICK B, at : ArenaState(heap, B, own, at, heap_used, refused)
  BY DEF ArenaInv
<1> DEFINE p == own[c].ptr
           ob == at[c]
           have == Have(heap, ob, p)
           a == Alloc(heap, n + 1)
           b == a.block
           Grown2(w, q) == Filled(w, c, q + own[c].n, n - own[c].n)
<1>2. n \in Nat /\ n > 0
  BY ArenaAssumption
<1>3. own[c] # Nothing
  BY DEF Realloc
<1>4. Block(heap, p) = ob /\ have \in Int
  <2>1. InBlock(B, at, c, ob)
    BY <1>1, <1>3, HoldsBlock
  <2> HIDE DEF ob
  <2> QED BY <2>1 DEF InBlock, Have
<1>5. CASE have >= n
  <2>1. /\ own' = [own EXCEPT ![c].n = n] /\ refused' = 0 /\ heap_used' = heap_used
        /\ heap' = Forget(Grown2(heap, p))
    BY <1>2, <1>4, <1>5 DEF Realloc
  <2> QED BY <1>1, <1>2, <1>3, <1>5, <2>1, ReallocInPlace
<1>6. CASE have < n /\ b = -1
  <2>1. /\ refused' = n /\ own' = own /\ heap_used' = heap_used /\ heap' = Forget(a.heap)
    BY <1>2, <1>4, <1>6 DEF Realloc
  <2> DEFINE need == n + 1
  <2>2. need \in Nat /\ need > 0
    BY <1>2
  <2>3. PICK C :
          /\ Granted(heap, B, need, a, C)
          /\ HeldBy(a.heap, C, own, at, Client)
          /\ Cardinality(InUse(a.heap, C)) = heap_used /\ NoRoom(a.heap, C, need)
    <3>1. a = Alloc(heap, need) /\ a.block = -1
      BY <1>6
    <3> HIDE DEF need
    <3>2. PICK C : /\ Granted(heap, B, need, Alloc(heap, need), C)
                   /\ HeldBy(Alloc(heap, need).heap, C, own, at, Client)
                   /\ Alloc(heap, need).block = -1 =>
                         /\ Cardinality(InUse(Alloc(heap, need).heap, C)) = heap_used
                         /\ NoRoom(Alloc(heap, need).heap, C, need)
      BY <1>1, <2>2, AllocState
    <3> HIDE DEF a
    <3> QED BY <3>1, <3>2
  <2> HIDE DEF a
  <2>4. a.heap \in Heaps /\ Chain(a.heap, C)
    BY <2>3 DEF Granted
  <2>5. ArenaState(a.heap, C, own', at, heap_used', refused')
    BY <1>1, <1>2, <2>1, <2>3, <2>4 DEF ArenaState
  <2> QED BY <2>1, <2>5, ForgetState
<1>7. CASE have < n /\ b # -1
  <2>1. /\ own' = [own EXCEPT ![c] = [ptr |-> b + 1, n |-> n]]
        /\ heap_used' = heap_used + a.heap[b].size - heap[ob].size
        /\ refused' = 0
        /\ heap' = Forget(Grown2(Freed(Copied(a.heap, p, b + 1, have), ob), b + 1))
    <3>1. ~(have >= n)
      BY <1>2, <1>4, <1>7
    <3> QED BY <1>2, <1>4, <1>7, <3>1 DEF Realloc
  <2> QED BY <1>1, <1>2, <1>3, <1>7, <2>1, ReallocMoves
<1> QED BY <1>2, <1>4, <1>5, <1>6, <1>7

-----------------------------------------------------------------------------
\* Every operation keeps the invariant; the dispatch path leaves the arena alone.
LEMMA ArenaSteps ==
    ASSUME ArenaInv, [HalNext]_<<vars, halVars, arenaVars>>
    PROVE  ArenaInv'
<1>1. ASSUME ArenaNext PROVE ArenaInv'
  <2>1. PICK c \in Client :
           \/ \E n \in Sizes, pad \in 0 .. MaxPad : \E off \in 0 .. pad : Malloc(c, n, pad, off)
           \/ \E n \in Sizes : Realloc(c, n)
           \/ Release(c)
    BY <1>1 DEF ArenaNext
  <2>2. CASE \E n \in Sizes, pad \in 0 .. MaxPad : \E off \in 0 .. pad : Malloc(c, n, pad, off)
    BY <2>2, MallocState
  <2>3. CASE \E n \in Sizes : Realloc(c, n)
    BY <2>3, ReallocState
  <2>4. CASE Release(c)
    BY <2>4, ReleaseState
  <2> QED BY <2>1, <2>2, <2>3, <2>4
<1>2. ASSUME UNCHANGED arenaVars PROVE ArenaInv'
  BY <1>2 DEF ArenaInv, arenaVars
<1> QED BY <1>1, <1>2 DEF HalNext

\* What a client wrote is there.
LEMMA ArenaIntact == ArenaInv => Intact
<1> SUFFICES ASSUME ArenaInv PROVE Intact
  OBVIOUS
<1>1. PICK B, at : ArenaState(heap, B, own, at, heap_used, refused)
  BY DEF ArenaInv
<1>2. heap \in Heaps /\ Chain(heap, B) /\ own \in Holdings
      /\ HeldBy(heap, B, own, at, Client) /\ heap_used = Cardinality(InUse(heap, B))
  BY <1>1 DEF ArenaState
<1>3. Heads(heap) = B /\ Used(heap) = InUse(heap, B)
  BY <1>2, HeadsChain, UsedIsInUse
<1>4. ASSUME NEW c \in Client, NEW u \in own[c].ptr .. own[c].ptr + own[c].n - 1
      PROVE  heap[u] = Data(c)
  <2>1. own[c].ptr \in Nat /\ own[c].n \in Nat
    BY <1>2 DEF Holdings
  <2>2. own[c].n # 0
    BY <1>4, <2>1
  <2> QED BY <1>2, <1>4, <2>2 DEF HeldBy, Owns
<1>5. UNION {b .. b + heap[b].size - 1 : b \in B} = Unit
  <2>1. ASSUME NEW u \in Unit PROVE \E b \in B : u \in b .. b + heap[b].size - 1
    <3>1. PICK b \in B : b <= u /\ u < b + heap[b].size
      BY <1>2, ChainCovers
    <3>2. b \in Nat /\ heap[b].size \in Nat /\ HeapSize \in Nat
      BY <1>2, ChainNat
    <3>3. u \in Nat
      BY <3>2 DEF Unit
    <3>4. u \in b .. b + heap[b].size - 1
      BY <3>1, <3>2, <3>3
    <3> QED BY <3>4
  <2>2. ASSUME NEW b \in B, NEW u \in b .. b + heap[b].size - 1 PROVE u \in Unit
    <3>1. b \in Nat /\ heap[b].size \in Nat /\ b + heap[b].size <= HeapSize /\ HeapSize \in Nat
      BY <1>2, ChainNat
    <3> QED BY <2>2, <3>1 DEF Unit
  <2> QED BY <2>1, <2>2
<1> QED BY <1>2, <1>3, <1>4, <1>5 DEF Intact

\* What was refused fits nowhere.
LEMMA ArenaRefuses == ArenaInv => RefusedFull
<1> SUFFICES ASSUME ArenaInv, refused # 0, NEW u \in 0 .. HeapSize - refused - 1
             PROVE  (u .. u + refused) \cap Used(heap) # {}
  BY DEF RefusedFull
<1>1. PICK B, at : ArenaState(heap, B, own, at, heap_used, refused)
  BY DEF ArenaInv
<1>2. heap \in Heaps /\ Chain(heap, B) /\ refused \in Nat /\ NoRoom(heap, B, refused + 1)
  BY <1>1 DEF ArenaState
<1>3. Used(heap) = InUse(heap, B)
  BY <1>2, UsedIsInUse
<1>4. HeapSize \in Nat
  BY ArenaAssumption
<1>5. u \in Nat /\ u + (refused + 1) <= HeapSize /\ (u + (refused + 1)) - 1 = u + refused
  BY <1>2, <1>4
<1>6. PICK h \in B : heap[h].used /\ Meets(heap, h, u, refused + 1)
  BY <1>2, <1>5 DEF NoRoom
<1>7. PICK x \in u .. u + (refused + 1) - 1 : h <= x /\ x < h + heap[h].size
  BY <1>6 DEF Meets
<1>8. h \in Nat /\ heap[h].size \in Nat
  BY <1>2, ChainNat
<1>9. x \in u .. u + refused /\ x \in h .. h + heap[h].size - 1
  BY <1>2, <1>5, <1>7, <1>8
<1>10. x \in InUse(heap, B)
  BY <1>6, <1>9 DEF InUse
<1> QED BY <1>3, <1>9, <1>10

\* The arena's invariant holds whatever the clients and the driver do.
THEOREM ArenaAlways == HalSpec => []ArenaInv
<1>1. HalInit => ArenaInv
  BY ArenaStart DEF HalInit
<1>2. ArenaInv /\ [HalNext]_<<vars, halVars, arenaVars>> => ArenaInv'
  BY ArenaSteps
<1> QED BY <1>1, <1>2, PTL DEF HalSpec

\* Memory a client holds keeps what the client wrote (sa_context.c:
\* sa_arena_alloc, _free, _realloc), the blocks cover the heap end to end and
\* heap_used is the size of those in use.
THEOREM AlwaysIntact == HalSpec => []Intact
<1>1. ArenaInv => Intact
  BY ArenaIntact
<1> QED BY <1>1, ArenaAlways, PTL

\* A request is refused ("out of device memory") only when no stretch between
\* the blocks in use would hold it.
THEOREM RefusedRightly == HalSpec => []RefusedFull
<1>1. ArenaInv => RefusedFull
  BY ArenaRefuses
<1> QED BY <1>1, ArenaAlways, PTL
=============================================================================
