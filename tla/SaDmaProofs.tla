----------------------------- MODULE SaDmaProofs -----------------------------
(***************************************************************************)
(* Theorems about the load and the store engine for every number of ports, *)
(* every size of the queues, of a burst and of a page, and every program:  *)
(* no burst is illegal, and the queues of the ports stay in step with one  *)
(* another, with the beats and with the counts of bursts.                  *)
(***************************************************************************)
EXTENDS SaDma, TLAPS, WellFoundedInduction, SequenceTheorems, FiniteSetTheorems

-----------------------------------------------------------------------------
(***************************************************************************)
(* Numbers.  Induction is on sets of naturals: the least element of what   *)
(* is left of Nat without the set.                                         *)
(***************************************************************************)

LEMMA Sizes ==
    /\ NPORTS \in Nat \ {0} /\ QD \in Nat \ {0} /\ SD \in Nat \ {0}
    /\ MaxBeats \in Nat \ {0} /\ BL \in {1, 2} /\ Page \in Nat \ {0} /\ Page % BL = 0
    /\ Port = 0 .. NPORTS - 1 /\ 0 \in Port /\ Port \subseteq Nat
BY DmaAssumption DEF Port

LEMMA Least ==
    ASSUME NEW S \in SUBSET Nat, S # {}
    PROVE  \E x \in S : \A y \in S : x <= y
<1> DEFINE R == {ss \in Nat \X Nat : ss[1] < ss[2]}
<1>1. IsWellFoundedOn(R, Nat)
  BY NatLessThanWellFounded, Zenon DEF OpToRel
<1>2. \A x, y \in S : ~(<<y, x>> \in R) => x <= y
  OBVIOUS
<1> HIDE DEF R
<1>3. \E x \in S : \A y \in S : ~(<<y, x>> \in R)
  BY <1>1, WFMin, Zenon
<1> QED BY <1>2, <1>3, Zenon

LEMMA AllOf ==
    ASSUME NEW S, 0 \in S, \A n \in Nat : n \in S => n + 1 \in S
    PROVE  Nat \subseteq S
<1> SUFFICES ASSUME Nat \ S # {} PROVE FALSE
  OBVIOUS
<1>1. PICK x \in Nat \ S : \A y \in Nat \ S : x <= y
  BY Least
<1>2. x # 0
  BY <1>1
<1>3. x - 1 \in Nat /\ (x - 1) + 1 = x
  BY <1>1, <1>2
<1>4. x - 1 \in S
  BY <1>1, <1>3
<1> QED BY <1>1, <1>3, <1>4

LEMMA DivIs ==
    ASSUME NEW m \in Nat \ {0}, NEW z \in Int, NEW r \in 0 .. m - 1, NEW x \in Int,
           x = m * z + r
    PROVE  x % m = r
<1> DEFINE s == x % m
           p == x \div m
<1>1. /\ s \in 0 .. m - 1 /\ p \in Int
      /\ x = m * p + s
  OBVIOUS
<1> HIDE DEF s, p
<1>2. m * (p - z) = r - s /\ p - z \in Int
  BY <1>1
<1> DEFINE d == p - z
           e == r - s
<1>3. m * d = e /\ d \in Int /\ e \in Int /\ -m < e /\ e < m
  BY <1>1, <1>2
<1> HIDE DEF d, e
<1>4. e = 0
  BY <1>3
<1> QED BY <1>1, <1>4 DEF e, s

\* The first port at or after one, by number.
LEMMA FirstIn ==
    ASSUME NEW s \in SUBSET Port, s # {}, NEW p \in Port
    PROVE  FirstFrom(s, p) \in s
<1> DEFINE key(x) == (x + NPORTS - p) % NPORTS
           K == {key(x) : x \in s}
<1>1. \A x \in s : key(x) \in Nat
  BY Sizes
<1>2. FirstFrom(s, p) = CHOOSE x \in s : \A y \in s : key(x) <= key(y)
  BY DEF FirstFrom
<1> HIDE DEF key
<1>3. K \in SUBSET Nat /\ K # {}
  BY <1>1
<1>4. PICK k \in K : \A y \in K : k <= y
  BY <1>3, Least, Zenon
<1>5. PICK x \in s : k = key(x)
  BY <1>4
<1>6. \A y \in s : key(x) <= key(y)
  BY <1>4, <1>5
<1> QED BY <1>2, <1>6

-----------------------------------------------------------------------------
(***************************************************************************)
(* Bursts: none is longer than the protocol and the page allow.            *)
(***************************************************************************)
BurstType == [addr : Nat, beats : Nat \ {0}, word : Int, lane : Int, s0 : {0, 1},
              tf : BOOLEAN, s : Nat, k : Nat]

Legal(b) == b.beats \in 1 .. MaxBeats /\ (b.addr % Page) + b.beats * BL <= Page

\* The numbers of a burst of n lanes from lane x on.
LEMMA Fits ==
    ASSUME NEW x \in Nat, NEW n \in Nat \ {0}, n <= Page - (x % Page),
           n <= MaxBeats * BL - (x % BL), NEW b, b = ((x % BL) + n + BL - 1) \div BL
    PROVE  /\ x % BL \in {0, 1} /\ x - (x % BL) \in Nat
           /\ b \in 1 .. MaxBeats
           /\ ((x - (x % BL)) % Page) + b * BL <= Page
<1> DEFINE A == x % Page
           d == x \div Page
           z == x % BL
<1>0. /\ MaxBeats \in Nat \ {0} /\ BL \in {1, 2} /\ Page \in Nat \ {0} /\ Page % BL = 0
  BY Sizes
<1>1. A \in 0 .. Page - 1 /\ d \in Int /\ x = Page * d + A
  BY <1>0
<1>2. n <= Page - A /\ n <= MaxBeats * BL - z /\ b = (z + n + BL - 1) \div BL
  OBVIOUS
<1>3. CASE BL = 1
  <2>1. z = 0 /\ x - z = x
    BY <1>3
  <2>2. b = n
    BY <1>2, <1>3, <2>1
  <2>3. b \in 1 .. MaxBeats
    BY <1>0, <1>2, <1>3, <2>1, <2>2
  <2>4. A + b * BL <= Page
    BY <1>0, <1>1, <1>2, <1>3, <2>2
  <2> QED BY <2>1, <2>3, <2>4
<1>4. CASE BL = 2
  <2> DEFINE m == Page \div 2
  <2>1. m \in Nat \ {0} /\ Page = 2 * m
    BY <1>0, <1>4
  <2>2. z \in {0, 1} /\ x - z \in Nat
    BY <1>4
  <2> HIDE DEF m
  <2> DEFINE f == m * d
             a == A % 2
             h == A \div 2
  <2>3. f \in Int /\ Page * d = 2 * f
    <3> DEFINE dd == d
    <3>1. dd \in Int /\ f = m * dd
      BY <1>1
    <3> HIDE DEF dd, f
    <3>2. f \in Int /\ Page * dd = 2 * f
      BY <2>1, <3>1
    <3> QED BY <3>2 DEF dd
  <2>4. a \in {0, 1} /\ h \in Int /\ A = 2 * h + a
    BY <1>1
  <2> HIDE DEF A, d, f, a, h
  <2>5. x = 2 * (f + h) + a /\ f + h \in Int
    BY <1>1, <2>3, <2>4
  <2>6. z = a
    <3> DEFINE u == f + h
    <3>1. u \in Int /\ x = 2 * u + a /\ a \in 0 .. 2 - 1 /\ 2 \in Nat \ {0} /\ x \in Int
      BY <2>4, <2>5
    <3> HIDE DEF u
    <3>2. x % 2 = a
      BY <3>1, DivIs, ZenonT(60)
    <3> QED BY <1>4, <3>2
  <2> HIDE DEF z
  <2>7. A - z \in 0 .. Page - 1 /\ x - z = Page * d + (A - z)
    <3> DEFINE g1 == Page * d
    <3>1. A \in 0 .. Page - 1 /\ x = g1 + A /\ g1 \in Int
      BY <1>1, <2>3
    <3>2. 0 <= A - z
      BY <1>1, <2>4, <2>6
    <3>3. z \in Nat /\ Page \in Nat
      BY <1>0, <2>4, <2>6
    <3> HIDE DEF g1
    <3>4. A - z \in 0 .. Page - 1 /\ x - z = g1 + (A - z)
      BY <3>1, <3>2, <3>3
    <3> QED BY <3>4 DEF g1
  <2>8. (x - z) % Page = A - z
    <3> DEFINE y == x - z
               r == A - z
    <3>1. Page \in Nat \ {0} /\ y \in Int /\ d \in Int /\ r \in 0 .. Page - 1 /\ y = Page * d + r
      BY <1>0, <1>1, <2>2, <2>7
    <3> HIDE DEF y, r
    <3>2. y % Page = r
      BY <3>1, DivIs
    <3> QED BY <3>2 DEF y, r
  <2>9. b \in Int /\ 2 * b <= z + n + 1 /\ z + n <= 2 * b
    BY <1>2, <1>4, <2>2
  <2>10. b \in 1 .. MaxBeats
    BY <1>0, <1>2, <1>4, <2>2, <2>9
  <2>11. (A - z) + b * 2 <= Page
    BY <1>0, <1>1, <1>2, <2>1, <2>2, <2>4, <2>6, <2>9
  <2> QED BY <1>4, <2>2, <2>8, <2>10, <2>11 DEF z
<1> QED BY <1>0, <1>3, <1>4

-----------------------------------------------------------------------------
(***************************************************************************)
(* Sums over the ports.                                                    *)
(***************************************************************************)

\* How many of the ports S come before x.
Below(S, x) == Cardinality(S \cap (0 .. x - 1))

LEMMA BelowFacts ==
    ASSUME NEW S \in SUBSET Port
    PROVE  /\ Cardinality(S) \in Nat
           /\ Below(S, 0) = 0 /\ Below(S, NPORTS) = Cardinality(S)
           /\ \A x \in Nat : Below(S, x) \in Nat
           /\ \A x \in Port : Below(S, x + 1) = Below(S, x) + (IF x \in S THEN 1 ELSE 0)
<1>1. IsFiniteSet(Port) /\ IsFiniteSet(S)
  <2>1. NPORTS - 1 \in Int /\ 0 \in Int /\ Port = 0 .. NPORTS - 1
    BY Sizes
  <2>2. IsFiniteSet(Port)
    BY <2>1, FS_Interval
  <2> QED BY <2>2, FS_Subset
<1>2. \A T : IsFiniteSet(S \cap T)
  BY <1>1, FS_Subset
<1>3. S \cap (0 .. 0 - 1) = {} /\ S \cap (0 .. NPORTS - 1) = S
  <2>1. Port = 0 .. NPORTS - 1
    BY Sizes
  <2>2. S \cap (0 .. NPORTS - 1) = S
    BY <2>1, Zenon
  <2>3. 0 .. 0 - 1 = {}
    OBVIOUS
  <2> QED BY <2>2, <2>3
<1>4. ASSUME NEW x \in Port
      PROVE  Below(S, x + 1) = Below(S, x) + (IF x \in S THEN 1 ELSE 0)
  <2> DEFINE T == S \cap (0 .. x - 1)
  <2>1. S \cap (0 .. (x + 1) - 1) = IF x \in S THEN T \cup {x} ELSE T
    BY Sizes
  <2>2. x \notin T /\ IsFiniteSet(T)
    BY <1>2, Sizes
  <2>3. Cardinality(T) \in Nat
    BY <2>2, FS_CardinalityType
  <2> HIDE DEF T
  <2>4. CASE x \in S
    BY <2>1, <2>2, <2>3, <2>4, FS_AddElement DEF Below, T
  <2>5. CASE x \notin S
    BY <2>1, <2>3, <2>5 DEF Below, T
  <2> QED BY <2>4, <2>5
<1>5. \A x \in Nat : Below(S, x) \in Nat
  BY <1>2, FS_CardinalityType DEF Below
<1>6. Cardinality(S) \in Nat
  BY <1>1, FS_CardinalityType
<1>7. Below(S, 0) = 0 /\ Below(S, NPORTS) = Cardinality(S)
  BY <1>3, FS_EmptySet DEF Below
<1> QED BY <1>4, <1>5, <1>6, <1>7

LEMMA NoneOut ==
    ASSUME NEW o, Total(o, 0), \A p \in Port : o[p] \in Nat
    PROVE  \A p \in Port : o[p] = 0
<1>1. PICK sum \in [0 .. NPORTS -> 0 .. 0] : \A p \in Port : sum[p + 1] = sum[p] + o[p]
  BY DEF Total
<1>2. ASSUME NEW p \in Port
      PROVE  o[p] = 0
  <2>1. p \in 0 .. NPORTS /\ p + 1 \in 0 .. NPORTS
    BY Sizes
  <2>2. sum[p] = 0 /\ sum[p + 1] = 0
    BY <1>1, <2>1
  <2> QED BY <1>1, <2>2
<1> QED BY <1>2

LEMMA AllNone ==
    ASSUME NEW o, \A p \in Port : o[p] = 0
    PROVE  Total(o, 0)
<1> DEFINE sum == [x \in 0 .. NPORTS |-> 0]
<1>1. /\ sum \in [0 .. NPORTS -> 0 .. 0] /\ sum[0] = 0 /\ sum[NPORTS] = 0
  BY Sizes
<1>2. \A p \in Port : sum[p + 1] = sum[p] + o[p]
  BY Sizes
<1> HIDE DEF sum
<1> QED BY <1>1, <1>2 DEF Total

\* On the ports a one burst begins, on the ports e one ends.
LEMMA TotalStep ==
    ASSUME NEW n \in Nat, NEW o, NEW o1, Total(o, n),
           NEW a \in SUBSET Port, NEW e \in SUBSET Port,
           \A p \in Port : o[p] \in Nat /\ o1[p] \in Nat,
           \A p \in Port : o1[p] = o[p] + (IF p \in a THEN 1 ELSE 0) - (IF p \in e THEN 1 ELSE 0)
    PROVE  /\ n + Cardinality(a) - Cardinality(e) \in Nat
           /\ Total(o1, n + Cardinality(a) - Cardinality(e))
<1>1. PICK sum \in [0 .. NPORTS -> 0 .. n] :
            /\ sum[0] = 0 /\ sum[NPORTS] = n
            /\ \A p \in Port : sum[p + 1] = sum[p] + o[p]
  BY DEF Total
<1> DEFINE s1 == [x \in 0 .. NPORTS |-> sum[x] + Below(a, x) - Below(e, x)]
           m == n + Cardinality(a) - Cardinality(e)
<1>2. /\ \A x \in 0 .. NPORTS : s1[x] \in Int
      /\ s1[0] = 0 /\ s1[NPORTS] = m /\ m \in Int
  <2>1. /\ Cardinality(a) \in Nat /\ Cardinality(e) \in Nat
        /\ Below(a, 0) = 0 /\ Below(a, NPORTS) = Cardinality(a)
        /\ Below(e, 0) = 0 /\ Below(e, NPORTS) = Cardinality(e)
        /\ \A x \in Nat : Below(a, x) \in Nat /\ Below(e, x) \in Nat
    BY BelowFacts
  <2>2. 0 \in 0 .. NPORTS /\ NPORTS \in 0 .. NPORTS /\ 0 .. NPORTS \subseteq Nat
    BY Sizes
  <2>3. \A x \in 0 .. NPORTS : sum[x] \in Nat
    BY <1>1
  <2>4. ASSUME NEW x \in 0 .. NPORTS
        PROVE  s1[x] = sum[x] + Below(a, x) - Below(e, x) /\ s1[x] \in Int
    BY <2>1, <2>2, <2>3
  <2>5. s1[0] = sum[0] + Below(a, 0) - Below(e, 0)
        /\ s1[NPORTS] = sum[NPORTS] + Below(a, NPORTS) - Below(e, NPORTS)
    BY <2>2
  <2> HIDE DEF s1
  <2>6. s1[0] = 0 /\ s1[NPORTS] = m /\ m \in Int
    BY <1>1, <2>1, <2>5
  <2> QED BY <2>4, <2>6
<1>3. ASSUME NEW p \in Port
      PROVE  s1[p + 1] = s1[p] + o1[p]
  <2>1. p \in 0 .. NPORTS /\ p + 1 \in 0 .. NPORTS /\ p \in Nat
    BY Sizes
  <2>2. /\ Below(a, p) \in Nat /\ Below(e, p) \in Nat
        /\ Below(a, p + 1) = Below(a, p) + (IF p \in a THEN 1 ELSE 0)
        /\ Below(e, p + 1) = Below(e, p) + (IF p \in e THEN 1 ELSE 0)
    BY <2>1, BelowFacts
  <2>3. sum[p] \in Nat /\ sum[p + 1] = sum[p] + o[p] /\ o[p] \in Nat
    BY <1>1, <2>1
  <2>4. s1[p] = sum[p] + Below(a, p) - Below(e, p)
        /\ s1[p + 1] = sum[p + 1] + Below(a, p + 1) - Below(e, p + 1)
    BY <2>1
  <2> DEFINE i1 == IF p \in a THEN 1 ELSE 0
             i2 == IF p \in e THEN 1 ELSE 0
  <2>6. i1 \in {0, 1} /\ i2 \in {0, 1} /\ o1[p] = o[p] + i1 - i2
        /\ Below(a, p + 1) = Below(a, p) + i1 /\ Below(e, p + 1) = Below(e, p) + i2
    BY <2>2
  <2> HIDE DEF s1, i1, i2
  <2> QED BY <2>2, <2>3, <2>4, <2>6, SMTT(30)
<1>4. \A p \in Port : o1[p] \in Nat
  OBVIOUS
<1> HIDE DEF s1, m
<1> DEFINE U == {x \in Nat : x \in 0 .. NPORTS => s1[x] >= 0}
<1>5. Nat \subseteq U
  <2>1. 0 \in U
    BY <1>2
  <2>2. ASSUME NEW x \in Nat, x \in U
        PROVE  x + 1 \in U
    <3>1. CASE x + 1 \in 0 .. NPORTS
      <4>1. x \in Port /\ x \in 0 .. NPORTS
        BY <3>1, Sizes
      <4> QED BY <1>2, <1>3, <1>4, <2>2, <4>1, SMTT(30)
    <3> QED BY <3>1
  <2> HIDE DEF U
  <2> QED BY <2>1, <2>2, AllOf
<1>6. \A x \in 0 .. NPORTS : s1[x] >= 0
  BY <1>5, Sizes
<1> DEFINE V == {j \in Nat : j \in 0 .. NPORTS => s1[NPORTS - j] <= m}
<1>7. Nat \subseteq V
  <2>1. 0 \in V
    BY <1>2, Sizes
  <2>2. ASSUME NEW j \in Nat, j \in V
        PROVE  j + 1 \in V
    <3>1. CASE j + 1 \in 0 .. NPORTS
      <4> DEFINE x == NPORTS - (j + 1)
      <4>1. x \in Port /\ x \in 0 .. NPORTS /\ x + 1 \in 0 .. NPORTS
            /\ j \in 0 .. NPORTS /\ NPORTS - j = x + 1
        BY <3>1, Sizes
      <4>2. s1[NPORTS - j] <= m
        BY <2>2, <4>1
      <4> HIDE DEF x
      <4>3. s1[x + 1] <= m /\ s1[x + 1] = s1[x] + o1[x] /\ o1[x] \in Nat
        BY <1>3, <1>4, <4>1, <4>2
      <4>4. s1[x] <= m
        BY <1>2, <4>1, <4>3
      <4> QED BY <4>4 DEF x
    <3> QED BY <3>1
  <2> HIDE DEF V
  <2> QED BY <2>1, <2>2, AllOf
<1>8. \A x \in 0 .. NPORTS : s1[x] <= m
  <2>1. ASSUME NEW x \in 0 .. NPORTS
        PROVE  s1[x] <= m
    <3>1. NPORTS - x \in Nat /\ NPORTS - x \in 0 .. NPORTS /\ NPORTS - (NPORTS - x) = x
      BY Sizes
    <3> QED BY <1>7, <3>1
  <2> QED BY <2>1
<1>9. m \in Nat /\ s1 \in [0 .. NPORTS -> 0 .. m]
  <2>1. m >= 0
    BY <1>2, <1>6, Sizes
  <2>2. \A x \in 0 .. NPORTS : s1[x] \in 0 .. m
    BY <1>2, <1>6, <1>8
  <2>3. s1 = [x \in 0 .. NPORTS |-> s1[x]]
    BY DEF s1
  <2> QED BY <1>2, <2>1, <2>2, <2>3
<1> QED BY <1>2, <1>3, <1>9 DEF Total, m

-----------------------------------------------------------------------------
(***************************************************************************)
(* The generator.                                                          *)
(***************************************************************************)
GenFields == {"active", "gen", "rows", "len", "r", "off", "row_ddr", "row_word",
              "cur_word", "cur_lane", "issued", "rr"}

GenType(x) ==
    /\ DOMAIN x = GenFields
    /\ x.active \in BOOLEAN /\ x.gen \in BOOLEAN
    /\ x.rows \in Nat /\ x.len \in Nat /\ x.r \in Nat /\ x.off \in Nat
    /\ x.row_ddr \in Nat /\ x.row_word \in Int /\ x.cur_word \in Int /\ x.cur_lane \in Int
    /\ x.issued \in Nat /\ x.rr \in Port

\* While there are bursts to issue, a row has lanes left.
GenOK(x) == GenType(x) /\ (x.gen => x.active /\ x.off < x.len)

LEMMA PortAfter ==
    ASSUME NEW p \in Port
    PROVE  NextPort(p) \in Port
BY Sizes DEF NextPort

LEMMA AcceptedOK ==
    ASSUME GenType(g), NEW x \in CmdType
    PROVE  GenOK(Accepted(x)) /\ Accepted(x).issued = 0
<1>1. /\ x.rows \in Nat \ {0} /\ x.len \in Nat \ {0} /\ x.ddr \in Nat /\ x.word \in Nat
  BY DEF CmdType
<1>2. x.rows * x.len \in Nat \ {0}
  BY <1>1
<1> DEFINE rs == IF Flat(x) THEN 1 ELSE x.rows
           ln == IF Flat(x) THEN x.rows * x.len ELSE x.len
           da == x.ddr
           wo == x.word
           y == [g EXCEPT !.active = TRUE, !.gen = TRUE, !.rows = rs, !.len = ln,
                          !.r = 0, !.off = 0, !.row_ddr = da, !.row_word = wo,
                          !.cur_word = wo, !.cur_lane = 0, !.issued = 0]
<1>3. rs \in Nat /\ ln \in Nat \ {0} /\ da \in Nat /\ wo \in Int
  BY <1>1, <1>2
<1>4. Accepted(x) = y
  BY DEF Accepted
<1> HIDE DEF rs, ln, da, wo
<1>5. /\ GenType(y) /\ y.active /\ y.off = 0 /\ y.len = ln /\ y.issued = 0
  <2>1. DOMAIN y = GenFields /\ y.active = TRUE /\ y.gen = TRUE /\ y.off = 0 /\ y.len = ln
    BY DEF GenType, GenFields
  <2>2. y.issued = 0 /\ y.rows = rs /\ y.r = 0 /\ y.row_ddr = da /\ y.cur_lane = 0
    BY DEF GenType, GenFields
  <2>3. y.row_word = wo /\ y.cur_word = wo /\ y.rr = g.rr /\ g.rr \in Port
    BY DEF GenType, GenFields
  <2> HIDE DEF y
  <2>4. y.active \in BOOLEAN /\ y.gen \in BOOLEAN /\ y.active
    BY <2>1
  <2>5. y.len \in Nat /\ y.off \in Nat /\ y.issued \in Nat /\ y.rows \in Nat
        /\ y.r \in Nat /\ y.row_ddr \in Nat /\ y.cur_lane \in Int
        /\ y.row_word \in Int /\ y.cur_word \in Int /\ y.rr \in Port
    BY <1>3, <2>1, <2>2, <2>3
  <2>6. GenType(y)
    BY <2>1, <2>4, <2>5 DEF GenType
  <2> QED BY <2>1, <2>2, <2>4, <2>6
<1> HIDE DEF y
<1> QED BY <1>3, <1>4, <1>5 DEF GenOK

\* The next burst has a lane, and no more than the row, the page and the length
\* of a burst have left.
LEMMA Lanes ==
    ASSUME GenOK(g), g.gen
    PROVE  /\ addr \in Nat
           /\ nl \in Nat \ {0} /\ nl <= g.len - g.off
           /\ nl <= Page - (addr % Page) /\ nl <= MaxBeats * BL - (addr % BL)
<1>1. /\ g.row_ddr \in Nat /\ g.off \in Nat /\ g.len \in Nat /\ g.off < g.len
      /\ addr = g.row_ddr + g.off
  BY DEF GenOK, GenType, addr
<1>2. /\ MaxBeats \in Nat \ {0} /\ BL \in {1, 2} /\ Page \in Nat \ {0}
  BY Sizes
<1>3. addr \in Nat /\ addr % Page \in 0 .. Page - 1 /\ s0 \in 0 .. BL - 1 /\ s0 = addr % BL
  BY <1>1, <1>2 DEF s0
<1>4. MaxBeats * BL \in Nat /\ MaxBeats * BL >= BL
  BY <1>2
<1>5. /\ lanes_row \in Nat \ {0} /\ lanes_row = g.len - g.off
      /\ lanes_4k \in Nat \ {0} /\ lanes_4k = Page - (addr % Page)
      /\ lanes_max \in Nat \ {0} /\ lanes_max = MaxBeats * BL - s0
  BY <1>1, <1>2, <1>3, <1>4 DEF lanes_row, lanes_4k, lanes_max
<1>6. /\ nl \in {lanes_row, lanes_4k, lanes_max}
      /\ nl <= lanes_row /\ nl <= lanes_4k /\ nl <= lanes_max
  BY <1>5 DEF nl
<1> QED BY <1>3, <1>5, <1>6

LEMMA BurstOK ==
    ASSUME GenOK(g), g.gen
    PROVE  Burst \in BurstType /\ Legal(Burst) /\ Burst # NoBurst
<1> DEFINE b == (s0 + nl + BL - 1) \div BL
<1>1. /\ addr \in Nat
      /\ nl \in Nat \ {0} /\ nl <= g.len - g.off
      /\ nl <= Page - (addr % Page) /\ nl <= MaxBeats * BL - (addr % BL)
  BY Lanes
<1>2. b = ((addr % BL) + nl + BL - 1) \div BL
  BY DEF s0
<1> HIDE DEF b
<1>3. /\ s0 \in {0, 1} /\ addr - s0 \in Nat /\ b \in 1 .. MaxBeats
      /\ ((addr - s0) % Page) + b * BL <= Page
  BY <1>1, <1>2, Fits DEF s0
<1>4. /\ Burst.addr = addr - s0 /\ Burst.beats = b
      /\ Burst = [addr |-> addr - s0, beats |-> b, word |-> g.cur_word, lane |-> g.cur_lane,
                  s0 |-> s0, tf |-> (s0 + nl) % BL = 0, s |-> g.r, k |-> g.off \div BL]
  BY DEF Burst, b
<1>5. /\ g.cur_word \in Int /\ g.cur_lane \in Int /\ g.r \in Nat /\ g.off \div BL \in Nat
  BY Sizes DEF GenOK, GenType
<1>6. Legal(Burst)
  BY <1>3, <1>4 DEF Legal
<1>7. b \in Nat \ {0}
  BY <1>3, Sizes
<1>8. Burst \in BurstType
  BY <1>3, <1>4, <1>5, <1>7 DEF BurstType
<1>9. Burst # NoBurst
  BY <1>4, <1>7 DEF NoBurst
<1> QED BY <1>6, <1>8, <1>9

LEMMA GeneratedOK ==
    ASSUME GenOK(g), cmd \in CmdType
    PROVE  /\ GenOK(Generated) /\ Generated.active = g.active
           /\ Generated.issued = g.issued + (IF issue_ok THEN 1 ELSE 0)
<1>1. GenType(g) /\ g.issued \in Nat /\ NextPort(g.rr) \in Port
  BY PortAfter DEF GenOK, GenType
<1>2. CASE issue_ok
  <2>1. g.gen
    BY <1>2 DEF issue_ok
  <2>2. /\ nl \in Nat \ {0} /\ nl <= g.len - g.off
    BY <2>1, Lanes
  <2>3. /\ g.row_ddr \in Nat /\ g.off \in Nat /\ g.len \in Nat /\ g.off < g.len /\ g.active
        /\ g.r \in Nat /\ g.row_word \in Int /\ g.cur_word \in Int /\ g.cur_lane \in Int
    BY <2>1 DEF GenOK, GenType
  <2>4. cmd.lpw \in Nat \ {0} /\ cmd.pitch \in Nat /\ cmd.len \in Nat /\ cmd.rows \in Nat
        /\ Stride \in Nat
    BY DEF CmdType, Stride
  <2> DEFINE x == IF g.off + nl = g.len THEN NextRow ELSE InRow
             is == x.issued + 1
             nx == NextPort(x.rr)
             y == [x EXCEPT !.issued = is, !.rr = nx]
  <2>5. GenType(x) /\ x.active = g.active /\ (x.gen => x.off < x.len)
        /\ x.issued = g.issued /\ x.rr = g.rr
    <3>1. CASE g.off + nl = g.len
      <4> DEFINE wd == g.row_word + (IF Stride = 1 THEN Words(cmd) ELSE 1)
                 gn == g.r + 1 # g.rows
                 rn == g.r + 1
                 dn == g.row_ddr + cmd.pitch
                 v == [g EXCEPT !.off = 0, !.r = rn, !.row_ddr = dn, !.cur_lane = 0,
                                !.row_word = wd, !.cur_word = wd, !.gen = gn]
      <4>1. wd \in Int /\ gn \in BOOLEAN /\ rn \in Nat /\ dn \in Nat
        BY <2>3, <2>4 DEF Words
      <4>2. NextRow = v
        BY Zenon DEF NextRow
      <4> HIDE DEF wd, rn, dn, gn
      <4>3. /\ GenType(v) /\ v.active = g.active /\ v.off = 0
            /\ v.len = g.len /\ v.issued = g.issued /\ v.rr = g.rr
        BY <1>1, <4>1 DEF GenType, GenFields
      <4> HIDE DEF v
      <4>4. x = v /\ x.off < x.len
        BY <2>3, <3>1, <4>2, <4>3 DEF GenType
      <4> QED BY <4>3, <4>4
    <3>2. CASE g.off + nl # g.len
      <4> DEFINE wd == g.cur_word + ((g.cur_lane + nl) \div cmd.lpw) * Stride
                 ln == (g.cur_lane + nl) % cmd.lpw
                 of == g.off + nl
                 v == [g EXCEPT !.off = of, !.cur_word = wd, !.cur_lane = ln]
      <4>1. wd \in Int /\ ln \in Int /\ of \in Nat /\ of < g.len
        BY <2>2, <2>3, <2>4, <3>2
      <4>2. InRow = v
        BY DEF InRow
      <4> HIDE DEF wd, ln, of
      <4>3. GenType(v) /\ v.active = g.active /\ v.off = of /\ v.len = g.len
            /\ v.issued = g.issued /\ v.rr = g.rr
        BY <1>1, <4>1 DEF GenType, GenFields
      <4> QED BY <3>2, <4>1, <4>2, <4>3
    <3> QED BY <3>1, <3>2
  <2>6. Generated = y
    BY <1>2 DEF Generated, Issued
  <2>8. is = g.issued + 1 /\ is \in Nat /\ nx \in Port
    BY <1>1, <2>5
  <2> HIDE DEF x, is, nx
  <2>7. GenType(y) /\ y.active = g.active /\ (y.gen => y.off < y.len)
        /\ y.issued = g.issued + 1
    BY <2>5, <2>8 DEF GenType, GenFields
  <2> HIDE DEF y
  <2> QED BY <1>2, <2>3, <2>6, <2>7 DEF GenOK
<1>3. CASE ~issue_ok
  <2> DEFINE v == [g EXCEPT !.rr = NextPort(@)]
  <2>1. Generated = v \/ Generated = g
    BY <1>3 DEF Generated
  <2>2. GenOK(v) /\ v.active = g.active /\ v.issued = g.issued
    BY <1>1 DEF GenOK, GenType
  <2>3. g.issued + 0 = g.issued
    BY <1>1
  <2> HIDE DEF v
  <2> QED BY <1>3, <2>1, <2>2, <2>3
<1> QED BY <1>2, <1>3

-----------------------------------------------------------------------------
(***************************************************************************)
(* A port of the store engine: its W beats under way are those of the      *)
(* oldest bursts the slave has accepted, in order; the beats still to be   *)
(* read are those of q.                                                    *)
(***************************************************************************)
Place == (Int \X Int) \cup {<<>>}
WBeatType == [from : UNION {[x -> Place] : x \in SUBSET {0, 1}}, last : BOOLEAN]
BusType == [addr : Nat, beats : Nat \ {0}, n : Nat]

\* Beats of the oldest burst that are gone.
Served(b) == IF b = <<>> THEN 0 ELSE b[1].n

\* e[j]: where in s the jth burst of b ends; k bursts end in s, and t beats of
\* the next are in s.
Marks(e, k, s, b, t) ==
    /\ e[0] = 0 - Served(b) /\ Len(s) = e[k] + t
    /\ \A j \in 1 .. k : e[j] = e[j - 1] + b[j].beats /\ e[j] >= 1
    /\ \A i \in 1 .. Len(s) : s[i].last <=> \E j \in 1 .. k : e[j] = i

\* s: W beats, b: bursts accepted and not served, u: bursts to read from, t: beats
\* read of the first of them.
Line(s, b, u, t) ==
    /\ s \in Seq(WBeatType) /\ b \in Seq(BusType) /\ u \in Seq(BurstType) /\ t \in Nat
    /\ Len(u) <= Len(b)
    /\ \A j \in 1 .. Len(u) : b[Len(b) - Len(u) + j].beats = u[j].beats
    /\ \A j \in 2 .. Len(b) : b[j].n = 0
    /\ IF u = <<>> THEN t = 0 ELSE t < u[1].beats
    /\ \E e \in [0 .. Len(b) - Len(u) -> 0 - Served(b) .. Len(s)] :
            Marks(e, Len(b) - Len(u), s, b, t)

LEMMA LineTypes ==
    ASSUME NEW s, NEW b, NEW u, NEW t, Line(s, b, u, t)
    PROVE  /\ Len(s) \in Nat /\ Len(b) \in Nat /\ Len(u) \in Nat /\ t \in Nat
           /\ Len(b) - Len(u) \in Nat
           /\ \A i \in 1 .. Len(s) : s[i].last \in BOOLEAN
           /\ \A j \in 1 .. Len(b) : b[j].beats \in Nat \ {0} /\ b[j].n \in Nat
           /\ \A j \in 1 .. Len(u) : u[j].beats \in Nat \ {0}
           /\ Served(b) \in Nat
           /\ (s = <<>> <=> Len(s) = 0) /\ (b = <<>> <=> Len(b) = 0) /\ (u = <<>> <=> Len(u) = 0)
<1>1. /\ s \in Seq(WBeatType) /\ b \in Seq(BusType) /\ u \in Seq(BurstType) /\ t \in Nat
      /\ Len(u) <= Len(b)
  BY DEF Line
<1>2. /\ Len(s) \in Nat /\ Len(b) \in Nat /\ Len(u) \in Nat
      /\ (s = <<>> <=> Len(s) = 0) /\ (b = <<>> <=> Len(b) = 0) /\ (u = <<>> <=> Len(u) = 0)
  BY <1>1, EmptySeq
<1>3. \A i \in 1 .. Len(s) : s[i].last \in BOOLEAN
  <2>1. \A i \in 1 .. Len(s) : s[i] \in WBeatType
    BY <1>1
  <2>2. \A x \in WBeatType : x.last \in BOOLEAN
    BY Zenon DEF WBeatType
  <2> QED BY <2>1, <2>2
<1>4. \A j \in 1 .. Len(b) : b[j].beats \in Nat \ {0} /\ b[j].n \in Nat
  <2>1. \A j \in 1 .. Len(b) : b[j] \in BusType
    BY <1>1
  <2> QED BY <2>1 DEF BusType
<1>5. \A j \in 1 .. Len(u) : u[j].beats \in Nat \ {0}
  <2>1. \A j \in 1 .. Len(u) : u[j] \in BurstType
    BY <1>1
  <2>2. \A x \in BurstType : x.beats \in Nat \ {0}
    BY DEF BurstType
  <2> QED BY <2>1, <2>2
<1>6. Served(b) \in Nat
  BY <1>2, <1>4 DEF Served
<1> QED BY <1>1, <1>2, <1>3, <1>4, <1>5, <1>6

LEMMA LineHead ==
    ASSUME NEW s, NEW b, NEW u, NEW t, Line(s, b, u, t), s # <<>>
    PROVE  b # <<>> /\ s[1].last = (b[1].n + 1 = b[1].beats)
<1> DEFINE k == Len(b) - Len(u)
<1>1. /\ Len(s) \in Nat /\ Len(b) \in Nat /\ Len(u) \in Nat /\ t \in Nat /\ k \in Nat
      /\ Len(s) >= 1 /\ s[1].last \in BOOLEAN
      /\ (b = <<>> <=> Len(b) = 0) /\ (u = <<>> <=> Len(u) = 0)
  BY LineTypes
<1>2. /\ \A j \in 1 .. Len(b) : b[j].beats \in Nat \ {0} /\ b[j].n \in Nat
      /\ Served(b) \in Nat
  BY LineTypes
<1>3. PICK e \in [0 .. k -> 0 - Served(b) .. Len(s)] : Marks(e, k, s, b, t)
  BY DEF Line
<1>4. /\ \A j \in 1 .. Len(u) : b[k + j].beats = u[j].beats
      /\ IF u = <<>> THEN t = 0 ELSE t < u[1].beats
  BY DEF Line
<1> HIDE DEF k
<1>5. /\ e[0] = 0 - Served(b) /\ Len(s) = e[k] + t
      /\ \A j \in 1 .. k : e[j] = e[j - 1] + b[j].beats /\ e[j] >= 1
      /\ s[1].last <=> \E j \in 1 .. k : e[j] = 1
  BY <1>1, <1>3 DEF Marks
<1>6. b # <<>>
  <2>1. SUFFICES ASSUME b = <<>> PROVE FALSE
    OBVIOUS
  <2>2. Len(u) = 0 /\ k = 0 /\ Served(b) = 0
    BY <1>1, <2>1 DEF k, Served
  <2> QED BY <1>1, <1>4, <1>5, <2>2
<1>7. Served(b) = b[1].n /\ 1 \in 1 .. Len(b)
  BY <1>1, <1>6 DEF Served
<1>8. CASE k = 0
  <2>1. ~s[1].last
    BY <1>5, <1>8
  <2>2. t - b[1].n >= 1
    BY <1>1, <1>2, <1>5, <1>7, <1>8
  <2>3. u # <<>> /\ 1 \in 1 .. Len(u) /\ b[1].beats = u[1].beats
    <3>1. Len(u) = Len(b)
      BY <1>1, <1>8 DEF k
    <3>2. u # <<>> /\ 1 \in 1 .. Len(u)
      BY <1>1, <1>6, <3>1
    <3> QED BY <1>4, <1>8, <3>2
  <2>4. b[1].n + 1 # b[1].beats
    BY <1>1, <1>2, <1>4, <1>7, <2>2, <2>3, SMTT(30)
  <2> QED BY <1>1, <1>6, <2>1, <2>4
<1>9. CASE k # 0
  <2>1. 1 \in 1 .. k /\ 1 - 1 = 0 /\ 0 \in 0 .. k /\ 1 \in 0 .. k
    BY <1>1, <1>9
  <2>2. e[1] = e[0] + b[1].beats /\ e[1] >= 1 /\ e[0] = 0 - b[1].n
    BY <1>5, <1>7, <2>1
  <2>3. ASSUME NEW j \in 1 .. k, e[j] = 1
        PROVE  j = 1
    <3>1. SUFFICES ASSUME j # 1 PROVE FALSE
      OBVIOUS
    <3>2. j - 1 \in 1 .. k /\ j \in 1 .. Len(b) /\ j - 1 \in 0 .. k
      BY <1>1, <3>1 DEF k
    <3>3. e[j] = e[j - 1] + b[j].beats /\ e[j - 1] >= 1 /\ b[j].beats \in Nat \ {0}
      BY <1>2, <1>5, <3>2
    <3>4. e[j - 1] \in Int
      BY <1>1, <1>2, <1>3, <3>2
    <3> QED BY <2>3, <3>3, <3>4
  <2>4. s[1].last <=> e[1] = 1
    BY <1>5, <2>1, <2>3
  <2>5. e[1] = 1 <=> b[1].n + 1 = b[1].beats
    BY <1>2, <1>7, <2>2
  <2> QED BY <1>1, <1>6, <2>4, <2>5
<1> QED BY <1>8, <1>9

\* The slave takes the oldest W beat.
Gone(b, last) == IF last THEN Tail(b) ELSE <<[Head(b) EXCEPT !.n = @ + 1]>> \o Tail(b)

LEMMA LinePop ==
    ASSUME NEW s, NEW b, NEW u, NEW t, Line(s, b, u, t), s # <<>>
    PROVE  Line(Tail(s), Gone(b, s[1].last), u, t)
<1> DEFINE k == Len(b) - Len(u)
           s1 == Tail(s)
           n == b[1].n
<1>0. /\ s \in Seq(WBeatType) /\ b \in Seq(BusType) /\ u \in Seq(BurstType)
      /\ Len(u) <= Len(b)
      /\ \A j \in 1 .. Len(u) : b[k + j].beats = u[j].beats
      /\ \A j \in 2 .. Len(b) : b[j].n = 0
      /\ IF u = <<>> THEN t = 0 ELSE t < u[1].beats
  BY DEF Line
<1>1. /\ Len(s) \in Nat /\ Len(b) \in Nat /\ Len(u) \in Nat /\ t \in Nat /\ k \in Nat
      /\ Len(s) >= 1 /\ s[1].last \in BOOLEAN
      /\ (b = <<>> <=> Len(b) = 0) /\ (u = <<>> <=> Len(u) = 0)
  BY LineTypes
<1>2. /\ \A j \in 1 .. Len(b) : b[j].beats \in Nat \ {0} /\ b[j].n \in Nat
      /\ Served(b) \in Nat
  BY LineTypes
<1>3. PICK e \in [0 .. k -> 0 - Served(b) .. Len(s)] : Marks(e, k, s, b, t)
  BY DEF Line
<1>4. b # <<>> /\ s[1].last = (n + 1 = b[1].beats)
  BY LineHead
<1>5. /\ Served(b) = n /\ 1 \in 1 .. Len(b) /\ Len(b) >= 1 /\ n \in Nat /\ k <= Len(b)
  BY <1>1, <1>2, <1>4 DEF Served
<1>6. /\ s1 \in Seq(WBeatType) /\ Len(s1) = Len(s) - 1
      /\ \A i \in 1 .. Len(s) - 1 : s1[i] = s[i + 1]
  BY <1>0, <1>1
<1>7. /\ e[0] = 0 - n /\ Len(s) = e[k] + t
      /\ \A j \in 1 .. k : e[j] = e[j - 1] + b[j].beats /\ e[j] >= 1
      /\ \A i \in 1 .. Len(s) : s[i].last <=> \E j \in 1 .. k : e[j] = i
  BY <1>3, <1>5 DEF Marks
<1>8. \A j \in 0 .. k : e[j] \in Int /\ 0 - n <= e[j] /\ e[j] <= Len(s)
  BY <1>1, <1>3, <1>5
<1> HIDE DEF k, s1, n
<1>9. CASE s[1].last
  <2> DEFINE b1 == Tail(b)
             e1 == [j \in 0 .. k - 1 |-> e[j + 1] - 1]
  <2>1. k >= 1 /\ 1 \in 1 .. k /\ 1 \in 0 .. k /\ 1 - 1 = 0
    BY <1>1, <1>7, <1>9
  <2>2. e[1] = 1
    <3>1. n + 1 = b[1].beats /\ n \in Nat
      BY <1>4, <1>5, <1>9, Zenon
    <3>2. e[1] = e[0] + b[1].beats /\ e[0] = 0 - n
      BY <1>7, <2>1
    <3>3. e[1] = (0 - n) + (n + 1)
      BY <3>1, <3>2
    <3> QED BY <3>1, <3>3
  <2>3. /\ b1 \in Seq(BusType) /\ Len(b1) = Len(b) - 1
        /\ \A j \in 1 .. Len(b) - 1 : b1[j] = b[j + 1]
    BY <1>0, <1>4
  <2>4. Served(b1) = 0
    <3>1. CASE b1 = <<>>
      BY <3>1 DEF Served
    <3>2. CASE b1 # <<>>
      <4>1. Len(b1) # 0
        BY <2>3, <3>2, EmptySeq
      <4>2. 1 \in 1 .. Len(b) - 1 /\ 2 \in 2 .. Len(b)
        BY <1>1, <2>3, <4>1
      <4>3. b1[1] = b[2] /\ b[2].n = 0
        BY <1>0, <2>3, <4>2
      <4> QED BY <3>2, <4>3 DEF Served
    <3> QED BY <3>1, <3>2
  <2> HIDE DEF b1
  <2>5. ASSUME NEW j \in 0 .. k - 1
        PROVE  e1[j] = e[j + 1] - 1 /\ e[j + 1] >= 1 /\ e1[j] \in 0 .. Len(s) - 1
    <3>1. j + 1 \in 1 .. k /\ j + 1 \in 0 .. k
      BY <1>1
    <3> QED BY <1>1, <1>7, <1>8, <3>1
  <2>6. e1 \in [0 .. k - 1 -> 0 - Served(b1) .. Len(s1)]
    BY <1>6, <2>4, <2>5
  <2> HIDE DEF e1
  <2>7. e1[0] = 0 - Served(b1) /\ Len(s1) = e1[k - 1] + t
    <3>1. 0 \in 0 .. k - 1 /\ k - 1 \in 0 .. k - 1 /\ (k - 1) + 1 = k /\ 0 + 1 = 1
      BY <1>1, <2>1
    <3>2. e1[0] = e[1] - 1 /\ e1[k - 1] = e[k] - 1
      BY <2>5, <3>1
    <3>3. e[k] \in Int
      BY <1>1, <1>8
    <3>4. e1[0] = 0 /\ Served(b1) = 0
      BY <2>2, <2>4, <3>2
    <3>5. (e[k] + t) - 1 = (e[k] - 1) + t
      BY <1>1, <3>3
    <3>6. Len(s1) = (e[k] + t) - 1
      BY <1>6, <1>7, Zenon
    <3>7. Len(s1) = e1[k - 1] + t
      BY <3>2, <3>5, <3>6, Zenon
    <3>8. e1[0] = 0 - Served(b1)
      <4>1. 0 - 0 = 0
        OBVIOUS
      <4> QED BY <3>4, <4>1, Zenon
    <3> QED BY <3>7, <3>8
  <2>8. ASSUME NEW j \in 1 .. k - 1
        PROVE  e1[j] = e1[j - 1] + b1[j].beats /\ e1[j] >= 1
    <3>1. /\ j \in 0 .. k - 1 /\ j - 1 \in 0 .. k - 1 /\ (j - 1) + 1 = j /\ (j + 1) - 1 = j
          /\ j + 1 \in 1 .. k /\ j \in 1 .. k /\ j \in 1 .. Len(b) - 1 /\ j + 1 \in 1 .. Len(b)
          /\ j \in 0 .. k
      BY <1>1, <1>5
    <3>2. e1[j] = e[j + 1] - 1 /\ e1[j - 1] = e[j] - 1
      BY <2>5, <3>1
    <3>3. e[j + 1] = e[j] + b[j + 1].beats /\ e[j] >= 1 /\ b1[j] = b[j + 1]
      BY <1>7, <2>3, <3>1
    <3>4. e[j] \in Int /\ b[j + 1].beats \in Nat \ {0}
      BY <1>2, <1>8, <3>1
    <3> QED BY <3>2, <3>3, <3>4
  <2>9. ASSUME NEW i \in 1 .. Len(s1)
        PROVE  s1[i].last <=> \E j \in 1 .. k - 1 : e1[j] = i
    <3>1. i + 1 \in 1 .. Len(s) /\ s1[i] = s[i + 1] /\ i \in Nat /\ i >= 1
      BY <1>1, <1>6, SMTT(30)
    <3>2. s[i + 1].last <=> \E j \in 1 .. k : e[j] = i + 1
      BY <1>7, <3>1
    <3>3. ASSUME NEW j \in 1 .. k, e[j] = i + 1
          PROVE  \E x \in 1 .. k - 1 : e1[x] = i
      <4>1. j # 1
        BY <2>2, <3>1, <3>3
      <4>2. j - 1 \in 1 .. k - 1 /\ j - 1 \in 0 .. k - 1 /\ (j - 1) + 1 = j
        BY <1>1, <4>1
      <4>3. e1[j - 1] = e[j] - 1
        BY <2>5, <4>2
      <4>4. e1[j - 1] = i
        BY <3>1, <3>3, <4>3
      <4> QED BY <4>2, <4>4
    <3>4. ASSUME NEW j \in 1 .. k - 1, e1[j] = i
          PROVE  \E x \in 1 .. k : e[x] = i + 1
      <4>1. j \in 0 .. k - 1 /\ j + 1 \in 1 .. k /\ j + 1 \in 0 .. k
        BY <1>1
      <4>2. e1[j] = e[j + 1] - 1 /\ e[j + 1] \in Int
        BY <1>8, <2>5, <4>1
      <4>3. e[j + 1] = i + 1
        BY <3>1, <3>4, <4>2
      <4> QED BY <4>1, <4>3
    <3> QED BY <3>1, <3>2, <3>3, <3>4
  <2>10. Marks(e1, k - 1, s1, b1, t)
    BY <2>7, <2>8, <2>9 DEF Marks
  <2>11. Len(b1) - Len(u) = k - 1 /\ Len(u) <= Len(b1)
    BY <1>1, <2>1, <2>3 DEF k
  <2>12. \A j \in 1 .. Len(u) : b1[Len(b1) - Len(u) + j].beats = u[j].beats
    <3>1. ASSUME NEW j \in 1 .. Len(u)
          PROVE  b1[Len(b1) - Len(u) + j].beats = u[j].beats
      <4>1. (k - 1) + j \in 1 .. Len(b) - 1 /\ ((k - 1) + j) + 1 = k + j
        BY <1>1, <2>1 DEF k
      <4>2. b1[(k - 1) + j] = b[k + j]
        BY <2>3, <4>1
      <4> QED BY <1>0, <2>11, <4>2 DEF k
    <3> QED BY <3>1
  <2>13. \A j \in 2 .. Len(b1) : b1[j].n = 0
    <3>1. ASSUME NEW j \in 2 .. Len(b1)
          PROVE  b1[j].n = 0
      <4>1. j \in 1 .. Len(b) - 1 /\ j + 1 \in 2 .. Len(b)
        BY <1>1, <2>3
      <4> QED BY <1>0, <2>3, <4>1
    <3> QED BY <3>1
  <2>14. Line(s1, b1, u, t)
    BY <1>0, <1>1, <1>6, <2>3, <2>6, <2>10, <2>11, <2>12, <2>13 DEF Line
  <2> QED BY <1>9, <2>14 DEF Gone, b1, s1
<1>10. CASE ~s[1].last
  <2> DEFINE x == [Head(b) EXCEPT !.n = @ + 1]
             b1 == <<x>> \o Tail(b)
             e1 == [j \in 0 .. k |-> e[j] - 1]
  <2>1. Head(b) = b[1] /\ b[1] \in BusType
    BY <1>0, <1>4, <1>5
  <2>2. x \in BusType /\ x.n = n + 1 /\ x.beats = b[1].beats
    BY <2>1 DEF BusType, n
  <2> HIDE DEF x
  <2>3. /\ b1 \in Seq(BusType) /\ Len(b1) = Len(b) /\ b1[1] = x
        /\ \A j \in 2 .. Len(b) : b1[j] = b[j]
    <3> DEFINE z == Tail(b)
    <3>1. z \in Seq(BusType) /\ Len(z) = Len(b) - 1 /\ \A j \in 1 .. Len(b) - 1 : z[j] = b[j + 1]
      BY <1>0, <1>4
    <3>2. <<x>> \in Seq(BusType) /\ Len(<<x>>) = 1 /\ <<x>>[1] = x
      BY <2>2
    <3> HIDE DEF z
    <3>3. /\ <<x>> \o z \in Seq(BusType) /\ Len(<<x>> \o z) = 1 + Len(z)
          /\ \A j \in 1 .. 1 + Len(z) : (<<x>> \o z)[j] = IF j <= 1 THEN <<x>>[j] ELSE z[j - 1]
      BY <3>1, <3>2, ConcatProperties
    <3>4. \A j \in 2 .. Len(b) : (<<x>> \o z)[j] = b[j]
      <4>1. ASSUME NEW j \in 2 .. Len(b)
            PROVE  (<<x>> \o z)[j] = b[j]
        <5>1. j \in 1 .. 1 + Len(z) /\ ~(j <= 1) /\ j - 1 \in 1 .. Len(b) - 1 /\ (j - 1) + 1 = j
          BY <1>1, <3>1
        <5> QED BY <3>1, <3>3, <5>1
      <4> QED BY <4>1
    <3>5. (<<x>> \o z)[1] = x /\ Len(<<x>> \o z) = Len(b)
      BY <1>1, <1>5, <3>1, <3>2, <3>3
    <3> QED BY <3>3, <3>4, <3>5 DEF z
  <2> HIDE DEF b1
  <2>4. Served(b1) = n + 1
    <3>1. b1 # <<>>
      BY <1>5, <2>3, EmptySeq
    <3> QED BY <2>2, <2>3, <3>1 DEF Served
  <2>5. \A j \in 1 .. k : e[j] # 1
    BY <1>1, <1>7, <1>10, SMTT(30)
  <2>6. ASSUME NEW j \in 0 .. k
        PROVE  e1[j] = e[j] - 1 /\ e1[j] \in 0 - (n + 1) .. Len(s) - 1
    BY <1>1, <1>5, <1>8, SMTT(30)
  <2>7. e1 \in [0 .. k -> 0 - Served(b1) .. Len(s1)]
    BY <1>6, <2>4, <2>6
  <2> HIDE DEF e1
  <2>8. e1[0] = 0 - Served(b1) /\ Len(s1) = e1[k] + t
    <3>1. 0 \in 0 .. k /\ k \in 0 .. k
      BY <1>1
    <3>2. e1[0] = e[0] - 1 /\ e1[k] = e[k] - 1 /\ e[k] \in Int
      BY <1>8, <2>6, <3>1
    <3> QED BY <1>1, <1>5, <1>6, <1>7, <2>4, <3>2
  <2>9. ASSUME NEW j \in 1 .. k
        PROVE  e1[j] = e1[j - 1] + b1[j].beats /\ e1[j] >= 1
    <3>1. j \in 0 .. k /\ j - 1 \in 0 .. k /\ j \in 1 .. Len(b)
      BY <1>1, <1>5
    <3>2. e1[j] = e[j] - 1 /\ e1[j - 1] = e[j - 1] - 1
      BY <2>6, <3>1
    <3>3. e[j] = e[j - 1] + b[j].beats /\ e[j] >= 1 /\ e[j] # 1
      BY <1>7, <2>5
    <3>4. b1[j].beats = b[j].beats
      <4>1. CASE j = 1
        BY <2>2, <2>3, <4>1
      <4>2. CASE j # 1
        <5>1. j \in 2 .. Len(b)
          BY <3>1, <4>2
        <5> QED BY <2>3, <5>1
      <4> QED BY <4>1, <4>2
    <3>5. e[j - 1] \in Int /\ e[j] \in Int /\ b[j].beats \in Nat
      BY <1>2, <1>8, <3>1
    <3> QED BY <3>2, <3>3, <3>4, <3>5
  <2>10. ASSUME NEW i \in 1 .. Len(s1)
         PROVE  s1[i].last <=> \E j \in 1 .. k : e1[j] = i
    <3>1. i + 1 \in 1 .. Len(s) /\ s1[i] = s[i + 1] /\ i \in Nat
      BY <1>1, <1>6
    <3>2. s[i + 1].last <=> \E j \in 1 .. k : e[j] = i + 1
      BY <1>7, <3>1
    <3>3. \A j \in 1 .. k : e[j] = i + 1 <=> e1[j] = i
      <4>1. ASSUME NEW j \in 1 .. k
            PROVE  e[j] = i + 1 <=> e1[j] = i
        <5>1. j \in 0 .. k
          BY <1>1
        <5>2. e1[j] = e[j] - 1 /\ e[j] \in Int
          BY <1>8, <2>6, <5>1
        <5> QED BY <3>1, <5>2
      <4> QED BY <4>1
    <3> QED BY <3>1, <3>2, <3>3
  <2>11. Marks(e1, k, s1, b1, t)
    BY <2>8, <2>9, <2>10 DEF Marks
  <2>12. Len(b1) - Len(u) = k /\ Len(u) <= Len(b1)
    BY <1>0, <2>3 DEF k
  <2>13. \A j \in 1 .. Len(u) : b1[Len(b1) - Len(u) + j].beats = u[j].beats
    <3>1. ASSUME NEW j \in 1 .. Len(u)
          PROVE  b1[Len(b1) - Len(u) + j].beats = u[j].beats
      <4>1. k + j \in 1 .. Len(b) /\ b[k + j].beats = u[j].beats
        BY <1>0, <1>1 DEF k
      <4>2. b1[k + j].beats = b[k + j].beats
        <5>1. CASE k + j = 1
          BY <2>2, <2>3, <5>1
        <5>2. CASE k + j # 1
          <6>1. k + j \in 2 .. Len(b)
            BY <1>1, <4>1, <5>2
          <6> QED BY <2>3, <6>1
        <5> QED BY <5>1, <5>2
      <4> QED BY <2>12, <4>1, <4>2
    <3> QED BY <3>1
  <2>14. \A j \in 2 .. Len(b1) : b1[j].n = 0
    BY <1>0, <2>3
  <2>15. Line(s1, b1, u, t)
    BY <1>0, <1>1, <1>6, <2>3, <2>7, <2>11, <2>12, <2>13, <2>14 DEF Line
  <2> QED BY <1>10, <2>15 DEF Gone, b1, x, s1
<1> QED BY <1>1, <1>9, <1>10

\* A beat is read: s gets its W beat.
LEMMA LinePush ==
    ASSUME NEW s, NEW b, NEW u, NEW t, Line(s, b, u, t), u # <<>>,
           NEW x \in WBeatType, x.last = (t + 1 = u[1].beats)
    PROVE  Line(Append(s, x), b, IF x.last THEN Tail(u) ELSE u, IF x.last THEN 0 ELSE t + 1)
<1> DEFINE k == Len(b) - Len(u)
           s1 == Append(s, x)
<1>0. /\ s \in Seq(WBeatType) /\ b \in Seq(BusType) /\ u \in Seq(BurstType)
      /\ Len(u) <= Len(b)
      /\ \A j \in 1 .. Len(u) : b[k + j].beats = u[j].beats
      /\ \A j \in 2 .. Len(b) : b[j].n = 0
      /\ t < u[1].beats
  BY DEF Line
<1>1. /\ Len(s) \in Nat /\ Len(b) \in Nat /\ Len(u) \in Nat /\ t \in Nat /\ k \in Nat
      /\ Len(u) >= 1 /\ x.last \in BOOLEAN
  BY LineTypes DEF WBeatType
<1>2. /\ \A j \in 1 .. Len(b) : b[j].beats \in Nat \ {0} /\ b[j].n \in Nat
      /\ \A j \in 1 .. Len(u) : u[j].beats \in Nat \ {0}
      /\ Served(b) \in Nat
  BY LineTypes
<1>3. PICK e \in [0 .. k -> 0 - Served(b) .. Len(s)] : Marks(e, k, s, b, t)
  BY DEF Line
<1>4. /\ s1 \in Seq(WBeatType) /\ Len(s1) = Len(s) + 1 /\ s1[Len(s) + 1] = x
      /\ \A i \in 1 .. Len(s) : s1[i] = s[i]
  BY <1>0
<1>5. /\ e[0] = 0 - Served(b) /\ Len(s) = e[k] + t
      /\ \A j \in 1 .. k : e[j] = e[j - 1] + b[j].beats /\ e[j] >= 1
      /\ \A i \in 1 .. Len(s) : s[i].last <=> \E j \in 1 .. k : e[j] = i
  BY <1>3 DEF Marks
<1> HIDE DEF s1
<1>6. \A j \in 0 .. k : e[j] \in Int /\ 0 - Served(b) <= e[j] /\ e[j] <= Len(s)
  <2> HIDE DEF k
  <2>1. \A j \in 0 .. k : e[j] \in 0 - Served(b) .. Len(s)
    BY <1>3
  <2> QED BY <1>1, <1>2, <2>1
<1>7. 1 \in 1 .. Len(u) /\ k + 1 \in 1 .. Len(b) /\ b[k + 1].beats = u[1].beats
      /\ u[1].beats \in Nat \ {0}
  <2>1. 1 \in 1 .. Len(u) /\ k + 1 \in 1 .. Len(b)
    BY <1>0, <1>1 DEF k
  <2> QED BY <1>0, <1>2, <2>1
<1>8. k \in 0 .. k /\ e[k] \in Int
  BY <1>1, <1>6
<1> HIDE DEF k, s1
<1>9. CASE ~x.last
  <2>0. ~(t + 1 = u[1].beats)
    BY <1>9, Zenon
  <2>1. t + 1 < u[1].beats /\ t + 1 \in Nat
    BY <1>0, <1>1, <1>7, <2>0
  <2>2. e \in [0 .. k -> 0 - Served(b) .. Len(s1)]
    <3>1. \A j \in 0 .. k : e[j] \in 0 - Served(b) .. Len(s1)
      BY <1>1, <1>2, <1>4, <1>6
    <3> QED BY <1>3, <3>1
  <2>3. Len(s1) = e[k] + (t + 1)
    BY <1>1, <1>4, <1>5, <1>8
  <2>4. ASSUME NEW i \in 1 .. Len(s1)
        PROVE  s1[i].last <=> \E j \in 1 .. k : e[j] = i
    <3>1. CASE i = Len(s) + 1
      <4>1. \A j \in 1 .. k : e[j] # i
        <5>1. ASSUME NEW j \in 1 .. k
              PROVE  e[j] # i
          <6>1. j \in 0 .. k
            BY <1>1
          <6> QED BY <1>1, <1>6, <3>1, <6>1
        <5> QED BY <5>1
      <4> QED BY <1>4, <1>9, <3>1, <4>1
    <3>2. CASE i # Len(s) + 1
      <4>1. i \in 1 .. Len(s)
        BY <1>1, <1>4, <3>2
      <4> QED BY <1>4, <1>5, <4>1
    <3> QED BY <3>1, <3>2
  <2>5. Marks(e, k, s1, b, t + 1)
    BY <1>5, <2>3, <2>4 DEF Marks
  <2>6. Line(s1, b, u, t + 1)
    BY <1>0, <1>1, <1>4, <2>1, <2>2, <2>5 DEF Line, k
  <2> QED BY <1>9, <2>6 DEF s1
<1>10. CASE x.last
  <2> DEFINE u1 == Tail(u)
             e1 == [j \in 0 .. k + 1 |-> IF j = k + 1 THEN Len(s) + 1 ELSE e[j]]
  <2>1. t + 1 = u[1].beats
    BY <1>10
  <2>2. /\ u1 \in Seq(BurstType) /\ Len(u1) = Len(u) - 1
        /\ \A j \in 1 .. Len(u) - 1 : u1[j] = u[j + 1]
    BY <1>0
  <2> HIDE DEF u1
  <2>3. /\ e1[k + 1] = Len(s) + 1
        /\ \A j \in 0 .. k : e1[j] = e[j]
    <3>1. k + 1 \in 0 .. k + 1 /\ \A j \in 0 .. k : j \in 0 .. k + 1 /\ j # k + 1
      BY <1>1
    <3> QED BY <3>1
  <2>4. e1 \in [0 .. k + 1 -> 0 - Served(b) .. Len(s1)]
    <3>1. ASSUME NEW j \in 0 .. k + 1
          PROVE  e1[j] \in 0 - Served(b) .. Len(s1)
      <4>1. CASE j = k + 1
        BY <1>1, <1>2, <1>4, <2>3, <4>1
      <4>2. CASE j # k + 1
        <5>1. j \in 0 .. k
          BY <1>1, <4>2
        <5>2. e1[j] = e[j] /\ e[j] \in Int /\ 0 - Served(b) <= e[j] /\ e[j] <= Len(s)
          BY <1>6, <2>3, <5>1
        <5> HIDE DEF e1
        <5> QED BY <1>1, <1>2, <1>4, <5>2
      <4> QED BY <4>1, <4>2
    <3> QED BY <3>1
  <2> HIDE DEF e1
  <2>5. e1[0] = 0 - Served(b) /\ Len(s1) = e1[k + 1] + 0
    <3>1. 0 \in 0 .. k
      BY <1>1
    <3>2. Len(s1) = (Len(s) + 1) + 0
      BY <1>1, <1>4
    <3> QED BY <1>5, <2>3, <3>1, <3>2, Zenon
  <2>6. ASSUME NEW j \in 1 .. k + 1
        PROVE  e1[j] = e1[j - 1] + b[j].beats /\ e1[j] >= 1
    <3>1. CASE j = k + 1
      <4>1. j - 1 = k /\ e1[j - 1] = e[k] /\ e1[j] = Len(s) + 1
        BY <1>1, <1>8, <2>3, <3>1
      <4>2. b[j].beats = t + 1
        BY <1>7, <2>1, <3>1
      <4>3. (e[k] + t) + 1 = e[k] + (t + 1)
        BY <1>1, <1>8
      <4>4. e1[j] = e1[j - 1] + b[j].beats
        BY <1>5, <4>1, <4>2, <4>3, Zenon
      <4> QED BY <1>1, <4>1, <4>4
    <3>2. CASE j # k + 1
      <4>1. j \in 1 .. k /\ j \in 0 .. k /\ j - 1 \in 0 .. k
        BY <1>1, <3>2
      <4> QED BY <1>5, <2>3, <4>1
    <3> QED BY <3>1, <3>2
  <2>7. ASSUME NEW i \in 1 .. Len(s1)
        PROVE  s1[i].last <=> \E j \in 1 .. k + 1 : e1[j] = i
    <3>1. CASE i = Len(s) + 1
      <4>1. k + 1 \in 1 .. k + 1 /\ e1[k + 1] = i
        BY <1>1, <2>3, <3>1
      <4> QED BY <1>4, <1>10, <3>1, <4>1
    <3>2. CASE i # Len(s) + 1
      <4>1. i \in 1 .. Len(s)
        BY <1>1, <1>4, <3>2
      <4>2. s1[i].last <=> \E j \in 1 .. k : e[j] = i
        BY <1>4, <1>5, <4>1
      <4>3. ASSUME NEW j \in 1 .. k
            PROVE  j \in 1 .. k + 1 /\ e1[j] = e[j]
        <5>1. j \in 0 .. k /\ j \in 1 .. k + 1
          BY <1>1
        <5> QED BY <2>3, <5>1
      <4>4. ASSUME NEW j \in 1 .. k + 1, e1[j] = i
            PROVE  j \in 1 .. k
        <5>1. j # k + 1
          BY <2>3, <3>2, <4>4
        <5> QED BY <1>1, <5>1
      <4> QED BY <4>2, <4>3, <4>4
    <3> QED BY <3>1, <3>2
  <2>8. Marks(e1, k + 1, s1, b, 0)
    BY <2>5, <2>6, <2>7 DEF Marks
  <2>9. Len(b) - Len(u1) = k + 1 /\ Len(u1) <= Len(b)
    BY <1>0, <1>1, <2>2 DEF k
  <2>10. \A j \in 1 .. Len(u1) : b[Len(b) - Len(u1) + j].beats = u1[j].beats
    <3>1. ASSUME NEW j \in 1 .. Len(u1)
          PROVE  b[Len(b) - Len(u1) + j].beats = u1[j].beats
      <4>1. j + 1 \in 1 .. Len(u) /\ (k + 1) + j = k + (j + 1) /\ j \in 1 .. Len(u) - 1
        BY <1>1, <2>2
      <4>2. b[k + (j + 1)].beats = u[j + 1].beats /\ u1[j] = u[j + 1]
        BY <1>0, <2>2, <4>1 DEF k
      <4> QED BY <2>9, <4>1, <4>2
    <3> QED BY <3>1
  <2>11. IF u1 = <<>> THEN 0 = 0 ELSE 0 < u1[1].beats
    <3>1. CASE u1 # <<>>
      <4>1. Len(u1) # 0
        BY <2>2, <3>1, EmptySeq
      <4>2. 1 \in 1 .. Len(u) - 1 /\ 2 \in 1 .. Len(u)
        BY <1>1, <2>2, <4>1
      <4>3. u1[1] = u[2] /\ u[2].beats \in Nat \ {0}
        BY <1>2, <2>2, <4>2
      <4> QED BY <3>1, <4>3
    <3> QED BY <3>1
  <2>12. 0 \in Nat
    OBVIOUS
  <2>13. Line(s1, b, u1, 0)
    BY <1>0, <1>4, <2>2, <2>4, <2>8, <2>9, <2>10, <2>11, <2>12 DEF Line
  <2> QED BY <1>10, <2>13 DEF s1, u1
<1> QED BY <1>1, <1>9, <1>10

LEMMA OneMore ==
    ASSUME NEW S, NEW s \in Seq(S), NEW x \in S
    PROVE  /\ s \o <<x>> = Append(s, x) /\ s \o <<>> = s
           /\ s \o <<x>> \in Seq(S) /\ Len(s \o <<x>>) = Len(s) + 1
           /\ (s \o <<x>>)[Len(s) + 1] = x
           /\ \A i \in 1 .. Len(s) : (s \o <<x>>)[i] = s[i]
<1>1. s \o <<x>> = Append(s, x)
  OBVIOUS
<1>2. s \o <<>> = s
  OBVIOUS
<1>3. /\ Append(s, x) \in Seq(S) /\ Len(Append(s, x)) = Len(s) + 1
      /\ Append(s, x)[Len(s) + 1] = x
      /\ \A i \in 1 .. Len(s) : Append(s, x)[i] = s[i]
  OBVIOUS
<1> QED BY <1>1, <1>2, <1>3

\* The slave accepts a burst.
LEMMA LineAccept ==
    ASSUME NEW s, NEW b, NEW u, NEW t, Line(s, b, u, t),
           NEW z \in BusType, z.n = 0, NEW y \in BurstType, z.beats = y.beats
    PROVE  Line(s, b \o <<z>>, u \o <<y>>, t)
<1> DEFINE k == Len(b) - Len(u)
           b1 == b \o <<z>>
           u1 == u \o <<y>>
<1>0. /\ s \in Seq(WBeatType) /\ b \in Seq(BusType) /\ u \in Seq(BurstType)
      /\ Len(u) <= Len(b)
      /\ \A j \in 1 .. Len(u) : b[k + j].beats = u[j].beats
      /\ \A j \in 2 .. Len(b) : b[j].n = 0
      /\ IF u = <<>> THEN t = 0 ELSE t < u[1].beats
  BY DEF Line
<1>1. /\ Len(s) \in Nat /\ Len(b) \in Nat /\ Len(u) \in Nat /\ t \in Nat /\ k \in Nat
      /\ (b = <<>> <=> Len(b) = 0) /\ (u = <<>> <=> Len(u) = 0)
  BY LineTypes
<1>2. PICK e \in [0 .. k -> 0 - Served(b) .. Len(s)] : Marks(e, k, s, b, t)
  BY DEF Line
<1>3. /\ b1 \in Seq(BusType) /\ Len(b1) = Len(b) + 1 /\ b1[Len(b) + 1] = z
      /\ \A j \in 1 .. Len(b) : b1[j] = b[j]
  BY <1>0, OneMore
<1>4. /\ u1 \in Seq(BurstType) /\ Len(u1) = Len(u) + 1 /\ u1[Len(u) + 1] = y
      /\ \A j \in 1 .. Len(u) : u1[j] = u[j]
  BY <1>0, OneMore
<1> HIDE DEF k, b1, u1
<1>5. Served(b1) = Served(b) /\ b1 # <<>> /\ u1 # <<>>
  <2>1. b1 # <<>> /\ u1 # <<>>
    BY <1>1, <1>3, <1>4, EmptySeq
  <2>2. CASE b = <<>>
    <3>1. b1[1] = z
      BY <1>1, <1>3, <2>2
    <3> QED BY <2>1, <2>2, <3>1 DEF Served
  <2>3. CASE b # <<>>
    <3>1. b1[1] = b[1]
      BY <1>1, <1>3, <2>3
    <3> QED BY <2>1, <2>3, <3>1 DEF Served
  <2> QED BY <2>1, <2>2, <2>3
<1>6. Marks(e, k, s, b1, t)
  <2>1. \A j \in 1 .. k : b1[j] = b[j]
    <3>1. \A j \in 1 .. k : j \in 1 .. Len(b)
      BY <1>1 DEF k
    <3> QED BY <1>3, <3>1
  <2> QED BY <1>2, <1>5, <2>1 DEF Marks
<1>7. Len(b1) - Len(u1) = k /\ Len(u1) <= Len(b1)
  BY <1>0, <1>1, <1>3, <1>4 DEF k
<1>8. ASSUME NEW j \in 1 .. Len(u1)
      PROVE  b1[k + j].beats = u1[j].beats
  <2>1. CASE j = Len(u) + 1
    <3>1. k + j = Len(b) + 1
      BY <1>1, <2>1 DEF k
    <3> QED BY <1>3, <1>4, <2>1, <3>1
  <2>2. CASE j # Len(u) + 1
    <3>1. j \in 1 .. Len(u)
      BY <1>1, <1>4, <2>2
    <3>2. k + j \in 1 .. Len(b)
      BY <1>1, <3>1 DEF k
    <3>3. b[k + j].beats = u[j].beats
      BY <1>0, <3>1 DEF k
    <3> QED BY <1>3, <1>4, <3>1, <3>2, <3>3
  <2> QED BY <2>1, <2>2
<1>9. ASSUME NEW j \in 2 .. Len(b1)
      PROVE  b1[j].n = 0
  <2>1. CASE j = Len(b) + 1
    BY <1>3, <2>1
  <2>2. CASE j # Len(b) + 1
    <3>1. j \in 2 .. Len(b) /\ j \in 1 .. Len(b)
      BY <1>1, <1>3, <2>2
    <3> QED BY <1>0, <1>3, <3>1
  <2> QED BY <2>1, <2>2
<1>10. t < u1[1].beats
  <2>1. CASE u = <<>>
    <3>1. u1[1] = y /\ t = 0
      BY <1>0, <1>1, <1>4, <2>1
    <3>2. y.beats \in Nat \ {0}
      BY DEF BurstType
    <3> QED BY <3>1, <3>2
  <2>2. CASE u # <<>>
    <3>1. u1[1] = u[1]
      BY <1>1, <1>4, <2>2
    <3> QED BY <1>0, <2>2, <3>1
  <2> QED BY <2>1, <2>2
<1>11. e \in [0 .. k -> 0 - Served(b1) .. Len(s)]
  BY <1>2, <1>5
<1>12. Line(s, b1, u1, t)
  BY <1>0, <1>1, <1>3, <1>4, <1>5, <1>6, <1>7, <1>8, <1>9, <1>10, <1>11 DEF Line
<1> QED BY <1>12 DEF b1, u1

\* With no burst accepted nothing is under way.
LEMMA LineEmpty ==
    ASSUME NEW s, NEW b, NEW u, NEW t, Line(s, b, u, t), b = <<>>
    PROVE  s = <<>> /\ u = <<>> /\ t = 0
<1>1. /\ Len(s) \in Nat /\ Len(b) = 0 /\ Len(u) \in Nat
      /\ (s = <<>> <=> Len(s) = 0) /\ (u = <<>> <=> Len(u) = 0)
  BY LineTypes
<1>2. Len(u) <= Len(b) /\ IF u = <<>> THEN t = 0 ELSE t < u[1].beats
  BY DEF Line
<1>3. s = <<>>
  BY LineHead
<1> QED BY <1>1, <1>2, <1>3

-----------------------------------------------------------------------------
(***************************************************************************)
(* The invariant.                                                          *)
(***************************************************************************)
RxType == [addr : Nat, last : BOOLEAN, ok : BOOLEAN]

\* The local read under way.
Reading(r) ==
    /\ DOMAIN r = {"port", "word", "lane", "last", "merge", "upper", "all", "strb", "lo"}
    /\ r.port \in Port /\ r.word \in Int /\ r.lane \in Int /\ r.last \in BOOLEAN
    /\ r.merge \in BOOLEAN /\ r.upper \in BOOLEAN /\ r.all \in BOOLEAN
    /\ r.strb \in SUBSET {0, 1} /\ r.lo \in Place

\* The W beat that this edge adds to the skid of port p.
Pend(p) == IF rd # NoRead /\ rd.all /\ rd.port = p THEN <<WBeat(rd)>> ELSE <<>>

CmdsOK ==
    /\ cmd \in CmdType /\ todo \in Seq(CmdType)
    /\ \A i \in 1 .. Len(todo) : todo[i].eng = cmd.eng

SelType(x) ==
    /\ DOMAIN x = {"rr", "hold", "port"}
    /\ x.rr \in Port /\ x.hold \in BOOLEAN /\ x.port \in Port

ChOK == \A p \in Port : ch[p] # NoBurst => ch[p] \in BurstType /\ Legal(ch[p])

QueuesOK ==
    \A p \in Port :
        /\ q[p] \in Seq(BurstType) /\ bus[p] \in Seq(BusType)
        /\ rx[p] \in Seq(RxType) /\ sk[p] \in Seq(WBeatType)
        /\ beat[p] \in Nat /\ owe[p] \in Nat /\ cnt[p] \in Nat

CountsOK ==
    /\ completed \in Nat /\ g.issued - completed \in Nat
    /\ Total([p \in Port |-> Out(p)], g.issued - completed)
    /\ ~g.active => g.issued = completed

LoadOK ==
    /\ \A p \in Port : sk[p] = <<>> /\ cnt[p] = 0 /\ Len(q[p]) <= QD
    /\ sel.hold => q[sel.port] # <<>> /\ rx[sel.port] # <<>>

StoreOK ==
    /\ rd # NoRead => Reading(rd)
    /\ sel.hold <=> rd # NoRead /\ ~rd.all
    /\ sel.hold => rd.port = sel.port /\ q[sel.port] # <<>>
    /\ \A p \in Port :
          /\ Len(q[p]) + (IF ch[p] = NoBurst THEN 0 ELSE 1) <= QD
          /\ Line(sk[p] \o Pend(p), bus[p], q[p], beat[p])
          /\ cnt[p] = Len(sk[p]) + (IF rd # NoRead /\ rd.port = p THEN 1 ELSE 0)
          /\ cnt[p] <= SD

DmaInv ==
    /\ CmdsOK /\ GenOK(g) /\ SelType(sel) /\ ChOK /\ QueuesOK /\ CountsOK
    /\ IF IsLoad THEN LoadOK ELSE StoreOK

LEMMA OutNat ==
    ASSUME QueuesOK
    PROVE  \A p \in Port : Out(p) \in Nat /\ Len(q[p]) \in Nat /\ Len(bus[p]) \in Nat
BY DEF QueuesOK, Out

Start == {<<>>} \cup (IF ~g.active /\ todo # <<>> THEN {<<Head(todo)>>} ELSE {})

\* A command starts, ends, or a burst is issued.
LEMMA IssueStep ==
    ASSUME CmdsOK, GenOK(g), ChOK, NEW start \in Start, NEW rdy, NEW pops, NEW served,
           NEW busy, Issue(start, rdy, pops, served, busy)
    PROVE  /\ CmdsOK' /\ GenOK(g') /\ ChOK' /\ cmd'.eng = cmd.eng
           /\ start = <<>> => cmd' = cmd
           /\ start # <<>> => ~g.active /\ ~issue_ok /\ g'.issued = 0 /\ g'.active
           /\ start = <<>> => g'.issued = g.issued + (IF issue_ok THEN 1 ELSE 0)
           /\ ~g'.active /\ start = <<>> =>
                ~issue_ok /\ (g.active => completed = g.issued)
<1>0. /\ GenType(g) /\ (g.gen => g.active)
      /\ cmd \in CmdType /\ todo \in Seq(CmdType)
      /\ \A i \in 1 .. Len(todo) : todo[i].eng = cmd.eng
  BY DEF GenOK, CmdsOK
<1>1. ChOK'
  <2>1. \A p \in Port : ch'[p] = IF issue_ok /\ p = g.rr THEN Burst
                                 ELSE IF p \in rdy THEN NoBurst ELSE ch[p]
    BY DEF Issue
  <2>2. issue_ok => Burst \in BurstType /\ Legal(Burst)
    BY BurstOK DEF issue_ok
  <2>3. ASSUME NEW p \in Port, ch'[p] # NoBurst
        PROVE  ch'[p] \in BurstType /\ Legal(ch'[p])
    BY <2>1, <2>2, <2>3, Zenon DEF ChOK
  <2> QED BY <2>3, Zenon DEF ChOK
<1>2. CASE start = <<>>
  <2>1. todo' = todo /\ cmd' = cmd /\ CmdsOK'
    BY <1>0, <1>2 DEF Issue, CmdsOK
  <2>2. g' = IF finished(busy) THEN [g EXCEPT !.active = FALSE] ELSE Generated
    BY <1>2 DEF Issue
  <2>3. CASE finished(busy)
    <3>1. g' = [g EXCEPT !.active = FALSE] /\ ~g.gen /\ completed = g.issued
      BY <2>2, <2>3 DEF finished
    <3>2. ~issue_ok
      BY <3>1 DEF issue_ok
    <3>3. /\ g'.active = FALSE /\ g'.gen = g.gen /\ g'.issued = g.issued /\ DOMAIN g' = GenFields
          /\ g'.rows = g.rows /\ g'.len = g.len /\ g'.r = g.r /\ g'.off = g.off
          /\ g'.row_ddr = g.row_ddr /\ g'.row_word = g.row_word
          /\ g'.cur_word = g.cur_word /\ g'.cur_lane = g.cur_lane /\ g'.rr = g.rr
      BY <1>0, <3>1 DEF GenType, GenFields
    <3>4. g.issued \in Nat /\ g.issued + 0 = g.issued
      BY <1>0 DEF GenType
    <3>5. GenOK(g')
      BY <1>0, <3>1, <3>3 DEF GenOK, GenType
    <3> QED BY <1>1, <1>2, <2>1, <3>1, <3>2, <3>3, <3>4, <3>5
  <2>4. CASE ~finished(busy)
    <3>1. g' = Generated
      BY <2>2, <2>4
    <3>2. /\ GenOK(g') /\ g'.active = g.active
          /\ g'.issued = g.issued + (IF issue_ok THEN 1 ELSE 0)
      BY <1>0, <3>1, GeneratedOK
    <3>3. ~g.active => ~issue_ok
      BY <1>0 DEF issue_ok
    <3> QED BY <1>1, <1>2, <2>1, <3>2, <3>3
  <2> QED BY <2>3, <2>4
<1>3. CASE start # <<>>
  <2>1. ~g.active /\ todo # <<>> /\ start = <<Head(todo)>>
    BY <1>3 DEF Start
  <2> DEFINE c == Head(todo)
             rest == Tail(todo)
  <2>2. /\ c \in CmdType /\ c.eng = cmd.eng /\ rest \in Seq(CmdType)
        /\ Len(rest) = Len(todo) - 1 /\ \A i \in 1 .. Len(todo) - 1 : rest[i] = todo[i + 1]
    BY <1>0, <2>1
  <2>3. cmd' = c /\ todo' = rest /\ g' = Accepted(c)
    BY <1>3, <2>1 DEF Issue
  <2> HIDE DEF c, rest
  <2>4. ASSUME NEW i \in 1 .. Len(rest)
        PROVE  rest[i].eng = c.eng
    <3>1. i + 1 \in 1 .. Len(todo) /\ i \in 1 .. Len(todo) - 1
      BY <1>0, <2>2
    <3> QED BY <1>0, <2>2, <3>1
  <2>5. CmdsOK'
    BY <2>2, <2>3, <2>4 DEF CmdsOK
  <2>6. GenOK(g') /\ g'.issued = 0
    BY <1>0, <2>2, <2>3, AcceptedOK
  <2>7. g'.active
    BY <1>0, <2>3 DEF Accepted, GenType, GenFields
  <2>8. ~issue_ok
    BY <1>0, <2>1 DEF issue_ok
  <2> QED BY <1>1, <1>3, <2>1, <2>2, <2>3, <2>5, <2>6, <2>7, <2>8
<1> QED BY <1>2, <1>3

\* Bursts are counted once when they are issued and once when they end.
LEMMA CountStep ==
    ASSUME GenOK(g), QueuesOK, CountsOK, GenOK(g'), NEW start \in Start, NEW e \in SUBSET Port,
           completed' = Counted(start, e),
           start # <<>> => ~g.active /\ ~issue_ok /\ g'.issued = 0 /\ g'.active,
           start = <<>> => g'.issued = g.issued + (IF issue_ok THEN 1 ELSE 0),
           ~g'.active /\ start = <<>> => ~issue_ok /\ (g.active => completed = g.issued),
           \A p \in Port : Out(p)' = Out(p) + (IF issue_ok /\ p = g.rr THEN 1 ELSE 0)
                                            - (IF p \in e THEN 1 ELSE 0),
           \A p \in Port : Out(p)' \in Nat
    PROVE  CountsOK'
<1> DEFINE o == [p \in Port |-> Out(p)]
           o1 == [p \in Port |-> Out(p)']
           n == g.issued - completed
           n1 == g'.issued - completed'
           a == IF issue_ok THEN {g.rr} ELSE {}
<1>1. /\ n \in Nat /\ Total(o, n) /\ completed \in Nat
      /\ ~g.active => n = 0
      /\ g.issued \in Nat /\ g'.issued \in Nat /\ g.rr \in Port
  BY DEF CountsOK, GenOK, GenType
<1>2. /\ \A p \in Port : o[p] \in Nat /\ o1[p] \in Nat
      /\ \A p \in Port : o1[p] = o[p] + (IF p \in a THEN 1 ELSE 0) - (IF p \in e THEN 1 ELSE 0)
  BY OutNat
<1>3. a \in SUBSET Port /\ Cardinality(a) = IF issue_ok THEN 1 ELSE 0
  BY <1>1, FS_EmptySet, FS_Singleton
<1>4. Cardinality(e) \in Nat
  <2>1. IsFiniteSet(Port)
    BY Sizes, FS_Interval
  <2> QED BY <2>1, FS_Subset, FS_CardinalityType
<1> HIDE DEF o, o1
<1>5. ASSUME \A p \in Port : o[p] = 0, ~issue_ok
      PROVE  e = {} /\ Cardinality(e) = 0
  <2>1. ASSUME NEW p \in e
        PROVE  FALSE
    <3>1. o1[p] = 0 + 0 - 1 /\ o1[p] \in Nat
      BY <1>2, <1>5, <2>1
    <3> QED BY <3>1
  <2>2. e = {}
    BY <2>1
  <2> QED BY <2>2, FS_EmptySet
<1>6. n1 \in Nat /\ completed' \in Nat /\ Total(o1, n1) /\ (~g'.active => g'.issued = completed')
  <2>1. CASE start = <<>>
    <3>1. completed' = completed + Cardinality(e)
      BY <2>1 DEF Counted
    <3>2. n1 = n + Cardinality(a) - Cardinality(e)
      BY <1>1, <1>3, <1>4, <2>1, <3>1, SMTT(30)
    <3>3. n + Cardinality(a) - Cardinality(e) \in Nat
          /\ Total(o1, n + Cardinality(a) - Cardinality(e))
      <4> HIDE DEF n, a
      <4> QED BY <1>1, <1>2, <1>3, TotalStep, Zenon
    <3>4. ASSUME ~g'.active
          PROVE  g'.issued = completed'
      <4>1. n = 0 /\ ~issue_ok
        BY <1>1, <2>1, <3>4
      <4>2. \A p \in Port : o[p] = 0
        BY <1>1, <1>2, <4>1, NoneOut
      <4>3. Cardinality(e) = 0
        BY <1>5, <4>1, <4>2
      <4>4. g'.issued = g.issued + 0
        BY <2>1, <4>1, Zenon
      <4>5. completed' = completed + 0
        BY <3>1, <4>3, Zenon
      <4>6. g.issued = completed
        BY <1>1, <4>1
      <4> QED BY <4>4, <4>5, <4>6, Zenon
    <3>5. completed' \in Nat
      BY <1>1, <1>4, <3>1
    <3>6. n1 \in Nat /\ Total(o1, n1)
      BY <3>2, <3>3, Zenon
    <3> QED BY <3>4, <3>5, <3>6, Zenon
  <2>2. CASE start # <<>>
    <3>1. completed' = 0 /\ n1 = 0 /\ n = 0 /\ ~issue_ok /\ g'.active
      BY <1>1, <2>2 DEF Counted
    <3>2. \A p \in Port : o[p] = 0
      BY <1>1, <1>2, <3>1, NoneOut
    <3>3. e = {} /\ a = {}
      BY <1>5, <3>1, <3>2
    <3>4. \A p \in Port : o1[p] = 0
      BY <1>2, <3>2, <3>3, SMTT(30)
    <3> QED BY <3>1, <3>4, AllNone
  <2> QED BY <2>1, <2>2
<1> QED BY <1>6 DEF CountsOK, o1

One(in) == IF in THEN 1 ELSE 0

\* A queue whose oldest entry may leave (o = 1) and that may get another (i = 1).
Moves(S, s, r, i, o) ==
    /\ r \in Seq(S) /\ Len(r) \in Nat /\ Len(r) = Len(s) + i - o
    /\ o = 0 /\ s # <<>> => r # <<>>
    /\ o = 0 /\ i = 0 => r = s

LEMMA QueueMoves ==
    ASSUME NEW S, NEW s \in Seq(S), NEW o \in {0, 1}, o = 1 => s # <<>>,
           NEW i \in {0, 1}, NEW x, i = 1 => x \in S,
           NEW r, r = (IF o = 1 THEN Tail(s) ELSE s) \o (IF i = 1 THEN <<x>> ELSE <<>>)
    PROVE  Moves(S, s, r, i, o)
<1> DEFINE t == IF o = 1 THEN Tail(s) ELSE s
<1>1. /\ t \in Seq(S) /\ Len(t) = Len(s) - o /\ Len(s) \in Nat
      /\ o = 0 => t = s
  BY EmptySeq
<1> HIDE DEF t
<1>2. ASSUME i = 1
      PROVE  r \in Seq(S) /\ Len(r) = Len(s) + i - o /\ r # <<>>
  <2>1. r = t \o <<x>>
    BY <1>2, Zenon DEF t
  <2>2. r \in Seq(S) /\ Len(r) = Len(t) + 1
    BY <1>1, <1>2, <2>1, OneMore
  <2> QED BY <1>1, <1>2, <2>2, EmptySeq
<1>3. ASSUME i = 0
      PROVE  r \in Seq(S) /\ Len(r) = Len(s) + i - o /\ r = t
  <2>1. r = t \o <<>>
    BY <1>3 DEF t
  <2>2. r = t
    BY <1>1, <2>1, ConcatEmptySeq
  <2> QED BY <1>1, <1>3, <2>2
<1>4. r \in Seq(S) /\ Len(r) = Len(s) + i - o /\ Len(r) \in Nat
  <2>1. r \in Seq(S) /\ Len(r) = Len(s) + i - o
    BY <1>2, <1>3
  <2> QED BY <2>1, LenProperties
<1>5. /\ o = 0 /\ s # <<>> => r # <<>>
      /\ o = 0 /\ i = 0 => r = s
  BY <1>1, <1>2, <1>3
<1> QED BY <1>4, <1>5 DEF Moves

\* The slave sends a beat.
LEMMA LessBeatType ==
    ASSUME NEW s \in Seq(BusType), s # <<>>
    PROVE  LessBeat(s) \in Seq(BusType)
<1> DEFINE h == Head(s)
           n == h.n + 1
           x == [h EXCEPT !.n = n]
<1>1. h \in BusType /\ Tail(s) \in Seq(BusType)
  OBVIOUS
<1> HIDE DEF h
<1>2. n \in Nat
  BY <1>1 DEF BusType
<1> HIDE DEF n
<1>3. x \in BusType
  BY <1>1, <1>2 DEF BusType
<1> HIDE DEF x
<1>4. <<x>> \o Tail(s) \in Seq(BusType)
  BY <1>1, <1>3
<1> QED BY <1>1, <1>4 DEF LessBeat, x, n, h

\* The port whose beat is taken.
LEMMA SelectedIn ==
    ASSUME SelType(sel), NEW s \in SUBSET Port, sel.hold \/ s # {}
    PROVE  /\ Selected(s) \in Port
           /\ sel.hold => Selected(s) = sel.port
           /\ ~sel.hold => Selected(s) \in s
<1>1. sel.rr \in Port /\ sel.port \in Port /\ sel.hold \in BOOLEAN
  BY DEF SelType
<1>2. CASE sel.hold
  BY <1>1, <1>2 DEF Selected
<1>3. CASE ~sel.hold
  <2>1. Selected(s) = FirstFrom(s, sel.rr)
    BY <1>3 DEF Selected
  <2> QED BY <1>1, <1>3, <2>1, FirstIn
<1> QED BY <1>2, <1>3

LEMMA SelNextType ==
    ASSUME SelType(sel), NEW p \in Port, NEW all \in BOOLEAN
    PROVE  /\ SelType(SelNext(p, all)) /\ (SelNext(p, all).hold <=> ~all)
           /\ ~all => SelNext(p, all).port = p
<1>1. sel.rr \in Port /\ sel.port \in Port /\ DOMAIN sel = {"rr", "hold", "port"}
  BY DEF SelType
<1>2. CASE all
  <2> DEFINE n == NextPort(p)
             o == sel.port
  <2>1. n \in Port /\ o \in Port
    BY <1>1, PortAfter
  <2>2. SelNext(p, all) = [rr |-> n, hold |-> FALSE, port |-> o]
    BY <1>2 DEF SelNext
  <2> HIDE DEF n, o
  <2>3. SelType(SelNext(p, all)) /\ ~SelNext(p, all).hold
    BY <2>1, <2>2 DEF SelType
  <2> QED BY <1>2, <2>3, Zenon
<1>3. CASE ~all
  <2>1. SelNext(p, all) = [sel EXCEPT !.hold = TRUE, !.port = p]
    BY <1>3 DEF SelNext
  <2> QED BY <1>1, <1>3, <2>1 DEF SelType
<1> QED BY <1>2, <1>3

LEMMA LoadStep ==
    ASSUME DmaInv, IsLoad, NEW start \in Start,
           NEW rdy \in SUBSET {p \in Port : ch[p] # NoBurst},
           NEW come \in SUBSET {p \in Port : bus[p] # <<>> /\ Len(rx[p]) < 2}, NEW bad,
           NEW xready, NEW busy,
           LoadEdge(start, rdy, come, bad, xready, busy)
    PROVE  DmaInv'
<1> DEFINE ready == IF gmode THEN {} ELSE Ready
           any == sel.hold \/ ready # {}
           p == Selected(ready)
           b == Head(rx[p])
           given == IF gmode /\ g.active /\ xready THEN Ready ELSE {}
           taken == IF any /\ whole(p, b.last) THEN {p} ELSE given
           ends == {x \in taken : Head(rx[x]).last}
           srv == [x \in Port |-> IF x \in come THEN LessBeat(bus[x]) ELSE bus[x]]
<1>0. /\ CmdsOK /\ GenOK(g) /\ SelType(sel) /\ ChOK /\ QueuesOK /\ CountsOK /\ LoadOK
  BY DEF DmaInv
<1>1. /\ Issue(start, rdy, ends, srv, busy)
      /\ rx' = [x \in Port |-> (IF x \in taken THEN Tail(rx[x]) ELSE rx[x])
                                  \o IF x \in come THEN <<Arrived(x, bad)>> ELSE <<>>]
      /\ beat' = [x \in Port |-> IF x \in ends THEN 0
                                 ELSE IF x \in taken THEN beat[x] + 1 ELSE beat[x]]
      /\ sel' = IF any THEN SelNext(p, taken = {p}) ELSE sel
      /\ completed' = Counted(start, ends)
      /\ UNCHANGED <<rd, sk, cnt, owe>>
  BY DEF LoadEdge
<1>2. /\ CmdsOK' /\ GenOK(g') /\ ChOK' /\ cmd'.eng = cmd.eng
      /\ start # <<>> => ~g.active /\ ~issue_ok /\ g'.issued = 0 /\ g'.active
      /\ start = <<>> => g'.issued = g.issued + (IF issue_ok THEN 1 ELSE 0)
      /\ ~g'.active /\ start = <<>> => ~issue_ok /\ (g.active => completed = g.issued)
  BY <1>0, <1>1, IssueStep, Zenon
<1>3. /\ \A x \in Port : q'[x] = (IF x \in ends THEN Tail(q[x]) ELSE q[x]) \o Pushed(x, rdy)
      /\ \A x \in Port : bus'[x] = srv[x] \o
            IF x \in rdy
            THEN <<[addr |-> ch[x].addr, beats |-> ch[x].beats, n |-> 0]>> ELSE <<>>
  BY <1>1 DEF Issue
<1>4. IsLoad'
  BY <1>2 DEF IsLoad
<1>5. Ready \subseteq Port /\ \A x \in Ready : q[x] # <<>> /\ rx[x] # <<>>
  BY DEF Ready
<1>6. /\ any => p \in Port /\ q[p] # <<>> /\ rx[p] # <<>>
      /\ any /\ sel.hold => p = sel.port
  <2>1. ready \subseteq Ready
    OBVIOUS
  <2> HIDE DEF ready
  <2>2. any => p \in Port /\ (sel.hold => p = sel.port) /\ (~sel.hold => p \in ready)
    BY <1>0, <1>5, <2>1, SelectedIn, Zenon
  <2> QED BY <1>0, <1>5, <2>1, <2>2 DEF LoadOK
<1>7. taken \subseteq Port /\ \A x \in taken : q[x] # <<>> /\ rx[x] # <<>>
  <2> HIDE DEF p, any
  <2> QED BY <1>5, <1>6
<1>8. any /\ ~(taken = {p}) => ~sel.hold /\ ~(p \in taken)
  <2>1. sel.hold => whole(p, b.last)
    BY DEF whole
  <2>2. ready # {} => given = {}
    OBVIOUS
  <2> HIDE DEF p, b, ready, given
  <2> QED BY <2>1, <2>2
<1> HIDE DEF ready, any, p, b, given, taken, srv

<1>9. ASSUME NEW x \in Port
      PROVE  /\ q'[x] \in Seq(BurstType) /\ Len(q'[x]) \in Nat
             /\ Len(q'[x]) = Len(q[x]) + One(issue_ok /\ x = g.rr) - One(x \in ends)
             /\ ~(x \in ends) /\ q[x] # <<>> => q'[x] # <<>>
  <2> DEFINE i == One(issue_ok /\ x = g.rr)
             o == One(x \in ends)
             y == Burst
  <2>0. /\ i \in {0, 1} /\ (i = 1 <=> issue_ok /\ x = g.rr)
        /\ o \in {0, 1} /\ (o = 1 <=> x \in ends) /\ (o = 0 <=> ~(x \in ends))
    BY DEF One
  <2>1. q'[x] = (IF o = 1 THEN Tail(q[x]) ELSE q[x]) \o (IF i = 1 THEN <<y>> ELSE <<>>)
    <3> HIDE DEF i, o, ends
    <3> QED BY <1>3, <2>0, Zenon DEF Pushed
  <2>2. o = 1 => q[x] # <<>>
    BY <1>7, <2>0
  <2>3. i = 1 => y \in BurstType
    BY <1>0, <2>0, BurstOK DEF issue_ok
  <2>4. q[x] \in Seq(BurstType)
    BY <1>0 DEF QueuesOK
  <2> DEFINE s == q[x]
             r == q'[x]
  <2> HIDE DEF i, o, y
  <2>5. Moves(BurstType, s, r, i, o)
    BY <2>0, <2>1, <2>2, <2>3, <2>4, QueueMoves
  <2>6. Len(q'[x]) = Len(q[x]) + One(issue_ok /\ x = g.rr) - One(x \in ends)
    BY <2>5, Zenon DEF Moves, i, o
  <2> QED BY <2>0, <2>5, <2>6, Zenon DEF Moves
<1>10. ASSUME NEW x \in Port
       PROVE  /\ rx'[x] \in Seq(RxType)
              /\ ~(x \in taken) /\ rx[x] # <<>> => rx'[x] # <<>>
  <2> DEFINE i == One(x \in come)
             o == One(x \in taken)
             y == Arrived(x, bad)
  <2>0. /\ i \in {0, 1} /\ (i = 1 <=> x \in come)
        /\ o \in {0, 1} /\ (o = 1 <=> x \in taken) /\ (o = 0 <=> ~(x \in taken))
    BY DEF One
  <2>1. rx'[x] = (IF o = 1 THEN Tail(rx[x]) ELSE rx[x]) \o (IF i = 1 THEN <<y>> ELSE <<>>)
    <3> HIDE DEF i, o
    <3> QED BY <1>1, <2>0
  <2>2. o = 1 => rx[x] # <<>>
    BY <1>7, <2>0
  <2>3. i = 1 => y \in RxType
    <3>1. SUFFICES ASSUME x \in come PROVE y \in RxType
      BY <2>0
    <3>2. bus[x] # <<>> /\ bus[x] \in Seq(BusType)
      BY <1>0, <3>1 DEF QueuesOK
    <3> DEFINE h == Head(bus[x])
               ad == h.addr + h.n * BL
               la == h.n + 1 = h.beats
               ok == x \notin bad
    <3>3. h \in BusType
      BY <3>2
    <3>4. y = [addr |-> ad, last |-> la, ok |-> ok]
      BY DEF Arrived
    <3> HIDE DEF h
    <3>5. h.addr \in Nat /\ h.n \in Nat
      BY <3>3 DEF BusType
    <3>6. ad \in Nat /\ la \in BOOLEAN /\ ok \in BOOLEAN
      BY <3>5, Sizes
    <3> HIDE DEF ad, la, ok, y
    <3> QED BY <3>4, <3>6 DEF RxType
  <2>4. rx[x] \in Seq(RxType)
    BY <1>0 DEF QueuesOK
  <2> HIDE DEF i, o, y
  <2>5. /\ rx'[x] \in Seq(RxType)
        /\ o = 0 /\ rx[x] # <<>> => rx'[x] # <<>>
    <3>1. Moves(RxType, rx[x], rx'[x], i, o)
      BY <2>0, <2>1, <2>2, <2>3, <2>4, QueueMoves
    <3> QED BY <3>1, Zenon DEF Moves
  <2> QED BY <2>0, <2>5, Zenon
<1>11. ASSUME NEW x \in Port
       PROVE  bus'[x] \in Seq(BusType)
  <2> DEFINE i == One(x \in rdy)
             y == [addr |-> ch[x].addr, beats |-> ch[x].beats, n |-> 0]
             s == srv[x]
  <2>0. i \in {0, 1} /\ (i = 1 <=> x \in rdy) /\ 0 # 1 /\ 0 \in {0, 1}
    BY DEF One
  <2>1. bus'[x] = s \o (IF i = 1 THEN <<y>> ELSE <<>>)
    <3> HIDE DEF i
    <3> QED BY <1>3, <2>0, Zenon
  <2>2. bus'[x] = (IF 0 = 1 THEN Tail(s) ELSE s) \o (IF i = 1 THEN <<y>> ELSE <<>>)
    BY <2>0, <2>1, Zenon
  <2>3. i = 1 => y \in BusType
    <3>1. i = 1 => ch[x] \in BurstType
      BY <1>0, <2>0 DEF ChOK
    <3> QED BY <3>1 DEF BurstType, BusType
  <2>4. s \in Seq(BusType)
    <3>1. bus[x] \in Seq(BusType)
      BY <1>0 DEF QueuesOK
    <3>2. s = IF x \in come THEN LessBeat(bus[x]) ELSE bus[x]
      BY DEF srv
    <3> QED BY <3>1, <3>2, LessBeatType
  <2> HIDE DEF i, y, s
  <2>5. Moves(BusType, s, bus'[x], i, 0)
    BY <2>0, <2>2, <2>3, <2>4, QueueMoves
  <2> QED BY <2>5, Zenon DEF Moves
<1>12. QueuesOK'
  <2>1. ASSUME NEW x \in Port
        PROVE  /\ sk'[x] \in Seq(WBeatType) /\ owe'[x] \in Nat /\ cnt'[x] \in Nat
               /\ beat'[x] \in Nat
    <3>1. beat[x] \in Nat /\ sk[x] \in Seq(WBeatType) /\ owe[x] \in Nat /\ cnt[x] \in Nat
      BY <1>0 DEF QueuesOK
    <3>2. beat'[x] = IF x \in ends THEN 0 ELSE IF x \in taken THEN beat[x] + 1 ELSE beat[x]
      BY <1>1
    <3> HIDE DEF ends
    <3> QED BY <1>1, <3>1, <3>2
  <2> QED BY <1>9, <1>10, <1>11, <2>1 DEF QueuesOK
<1>13. CountsOK'
  <2>1. ends \in SUBSET Port
    BY <1>7
  <2>2. \A x \in Port : Out(x) = Len(q[x]) /\ Out(x)' = Len(q'[x])
    BY <1>4 DEF Out
  <2>3. \A x \in Port : /\ Out(x)' = Out(x) + (IF issue_ok /\ x = g.rr THEN 1 ELSE 0)
                                            - (IF x \in ends THEN 1 ELSE 0)
                        /\ Out(x)' \in Nat
    BY <1>9, <2>2, Zenon DEF One
  <2> HIDE DEF ends
  <2> QED BY <1>0, <1>1, <1>2, <2>1, <2>3, CountStep
<1>14. LoadOK'
  <2>1. ASSUME NEW x \in Port
        PROVE  sk'[x] = <<>> /\ cnt'[x] = 0 /\ Len(q'[x]) <= QD
    <3>1. sk[x] = <<>> /\ cnt[x] = 0 /\ Len(q[x]) <= QD /\ Len(q[x]) \in Nat
      BY <1>0, OutNat DEF LoadOK
    <3>2. issue_ok /\ x = g.rr => Len(q[x]) < QD
      BY <3>1, Sizes DEF issue_ok, q_full
    <3> DEFINE i == One(issue_ok /\ x = g.rr)
               o == One(x \in ends)
    <3>3. /\ i \in {0, 1} /\ (i = 1 => issue_ok /\ x = g.rr) /\ o \in {0, 1}
      BY DEF One
    <3>4. Len(q'[x]) = Len(q[x]) + i - o
      BY <1>9, Zenon
    <3> HIDE DEF i, o
    <3>5. i = 1 => Len(q[x]) < QD
      BY <3>2, <3>3
    <3>6. Len(q'[x]) <= QD
      BY <3>1, <3>3, <3>4, <3>5, Sizes
    <3> QED BY <1>1, <3>1, <3>6
  <2>2. ASSUME sel'.hold
        PROVE  q'[sel'.port] # <<>> /\ rx'[sel'.port] # <<>>
    <3> DEFINE all == taken = {p}
    <3>1. any
      <4>1. ~any => sel' = sel /\ ~sel.hold
        BY <1>1 DEF any
      <4> QED BY <2>2, <4>1
    <3>2. sel' = SelNext(p, all) /\ p \in Port /\ all \in BOOLEAN
      BY <1>1, <1>6, <3>1
    <3>3. ~all /\ sel'.port = p
      BY <1>0, <2>2, <3>2, SelNextType
    <3>4. ~(p \in taken)
      BY <1>8, <3>1, <3>3
    <3> QED BY <1>6, <1>9, <1>10, <3>1, <3>2, <3>3, <3>4
  <2> QED BY <2>1, <2>2 DEF LoadOK
<1>15. SelType(sel')
  BY <1>0, <1>1, <1>6, SelNextType
<1> QED BY <1>2, <1>4, <1>12, <1>13, <1>14, <1>15 DEF DmaInv

\* The local read of this edge, and the W beat it becomes.
LEMMA ReadOK ==
    ASSUME cmd \in CmdType, NEW p \in Port, q[p] \in Seq(BurstType), q[p] # <<>>,
           beat[p] \in Nat, sel.hold \in BOOLEAN, sel.hold => Reading(rd)
    PROVE  /\ Reading(Read(p)) /\ Read(p) # NoRead /\ Read(p).port = p
           /\ Read(p).last <=> LastBeat(p)
           /\ Read(p).all <=> whole(p, LastBeat(p))
<1> DEFINE la == LastBeat(p)
           n == sum0(p) + (IF upper(p) THEN 1 ELSE 0)
           wo == WordOf(p, n)
           ln == LaneOf(n)
           me == merge(p, la)
           al == whole(p, la)
           st == (IF lower(p) THEN {0} ELSE {}) \cup (IF above(p, la) THEN {1} ELSE {})
           lo == IF sel.hold THEN <<rd.word, rd.lane>> ELSE <<>>
           up == sel.hold
<1>1. Head1(p) \in BurstType
  BY DEF Head1
<1>2. /\ Head1(p).lane \in Int /\ Head1(p).word \in Int /\ Head1(p).s0 \in Int
      /\ cmd.lpw \in Nat \ {0} /\ Stride \in Int
  BY <1>1 DEF BurstType, CmdType, Stride
<1>3. n \in Int
  <2>1. beat[p] * BL \in Int
    BY Sizes
  <2> QED BY <1>2, <2>1 DEF sum0
<1>4. wo \in Int /\ ln \in Int
  <2> HIDE DEF n
  <2>1. n \div cmd.lpw \in Int /\ n % cmd.lpw \in Int
    BY <1>2, <1>3
  <2> DEFINE d == n \div cmd.lpw
  <2> HIDE DEF d
  <2>2. d \in Int /\ d * Stride \in Int
    BY <1>2, <2>1 DEF d
  <2> QED BY <1>2, <2>1, <2>2 DEF WordOf, LaneOf, d
<1>5. la \in BOOLEAN /\ me \in BOOLEAN /\ al \in BOOLEAN /\ up \in BOOLEAN /\ st \in SUBSET {0, 1}
  BY Zenon DEF LastBeat, merge, whole
<1>6. lo \in Place
  BY DEF Reading, Place
<1>7. Read(p) = [port |-> p, word |-> wo, lane |-> ln, last |-> la, merge |-> me,
                 upper |-> up, all |-> al, strb |-> st, lo |-> lo]
  BY DEF Read
<1> HIDE DEF wo, ln, la, me, al, st, lo, up
<1>8. /\ DOMAIN Read(p) = {"port", "word", "lane", "last", "merge", "upper", "all", "strb", "lo"}
      /\ Read(p).port = p /\ Read(p).word = wo /\ Read(p).lane = ln /\ Read(p).last = la
      /\ Read(p).merge = me /\ Read(p).upper = up /\ Read(p).all = al
      /\ Read(p).strb = st /\ Read(p).lo = lo
  BY <1>7
<1>9. Reading(Read(p))
  BY <1>4, <1>5, <1>6, <1>8, Zenon DEF Reading
<1>10. Read(p) # NoRead
  <2>1. p # -1 /\ NoRead.port = -1
    BY Sizes DEF NoRead
  <2> QED BY <1>8, <2>1
<1> QED BY <1>8, <1>9, <1>10, Zenon DEF la, al

LEMMA WBeatOK ==
    ASSUME cmd \in CmdType, NEW r, Reading(r)
    PROVE  WBeat(r) \in WBeatType /\ WBeat(r).last = r.last
<1>1. /\ r.word \in Int /\ r.lane \in Int /\ r.last \in BOOLEAN
      /\ r.strb \in SUBSET {0, 1} /\ r.lo \in Place /\ cmd.lpw \in Nat \ {0}
  BY DEF Reading, CmdType
<1>2. ASSUME NEW i \in r.strb
      PROVE  Source(r, i) \in Place
  <2>1. (r.lane + 1) % cmd.lpw \in Int
    BY <1>1
  <2>2. /\ <<r.word, r.lane>> \in Place
        /\ <<r.word, (r.lane + 1) % cmd.lpw>> \in Place
    BY <1>1, <2>1 DEF Place
  <2> QED BY <1>1, <2>2 DEF Source
<1> DEFINE f == [i \in r.strb |-> Source(r, i)]
<1>3. f \in [r.strb -> Place]
  BY <1>2
<1>4. WBeat(r) = [from |-> f, last |-> r.last]
  BY DEF WBeat
<1> HIDE DEF f
<1>5. f \in UNION {[x -> Place] : x \in SUBSET {0, 1}}
  BY <1>1, <1>3
<1> QED BY <1>1, <1>4, <1>5 DEF WBeatType

LEMMA TailMore ==
    ASSUME NEW S, NEW s \in Seq(S), s # <<>>, NEW x \in S
    PROVE  /\ Tail(s \o <<x>>) = Tail(s) \o <<x>> /\ (s \o <<x>>)[1] = Head(s)
           /\ s \o <<x>> # <<>>
<1> DEFINE a == s \o <<x>>
           t == Tail(s)
           b == t \o <<x>>
<1>1. /\ Len(s) \in Nat /\ Len(s) >= 1 /\ t \in Seq(S) /\ Len(t) = Len(s) - 1
      /\ \A i \in 1 .. Len(s) - 1 : t[i] = s[i + 1]
  BY EmptySeq
<1>2. /\ a \in Seq(S) /\ Len(a) = Len(s) + 1 /\ a[Len(s) + 1] = x
      /\ \A i \in 1 .. Len(s) : a[i] = s[i]
  BY OneMore
<1> HIDE DEF t
<1>3. /\ b \in Seq(S) /\ Len(b) = Len(t) + 1 /\ b[Len(t) + 1] = x
      /\ \A i \in 1 .. Len(t) : b[i] = t[i]
  BY <1>1, OneMore
<1> HIDE DEF a, b
<1>4. a # <<>>
  BY <1>1, <1>2, EmptySeq
<1>5. /\ Tail(a) \in Seq(S) /\ Len(Tail(a)) = Len(s)
      /\ \A i \in 1 .. Len(s) : Tail(a)[i] = a[i + 1]
  BY <1>1, <1>2, <1>4
<1>6. ASSUME NEW i \in 1 .. Len(s)
      PROVE  Tail(a)[i] = b[i]
  <2>1. CASE i = Len(s)
    BY <1>1, <1>2, <1>3, <1>5, <2>1
  <2>2. CASE i # Len(s)
    <3>1. i \in 1 .. Len(s) - 1 /\ i + 1 \in 1 .. Len(s) /\ i \in 1 .. Len(t)
      BY <1>1, <2>2
    <3> QED BY <1>1, <1>2, <1>3, <1>5, <3>1
  <2> QED BY <2>1, <2>2
<1>7. Len(b) = Len(s)
  BY <1>1, <1>3
<1>8. Tail(a) = b
  BY <1>3, <1>5, <1>6, <1>7, SeqEqual
<1>9. a[1] = Head(s)
  BY <1>1, <1>2
<1> QED BY <1>4, <1>8, <1>9 DEF a, b, t

\* While no command is active, a port of the store engine has nothing.
LEMMA StoreIdle ==
    ASSUME DmaInv, ~IsLoad, ~g.active
    PROVE  \A p \in Port : q[p] = <<>> /\ sk[p] = <<>> /\ owe[p] = 0 /\ ch[p] = NoBurst
<1> DEFINE o == [x \in Port |-> Out(x)]
<1>1. QueuesOK /\ CountsOK /\ StoreOK /\ GenOK(g)
  BY DEF DmaInv
<1>2. g.issued - completed = 0
  BY <1>1 DEF CountsOK, GenOK, GenType
<1>3. Total(o, 0) /\ \A x \in Port : o[x] \in Nat
  BY <1>1, <1>2, OutNat DEF CountsOK
<1>4. \A x \in Port : o[x] = 0
  <2> HIDE DEF o
  <2> QED BY <1>3, NoneOut
<1>5. ASSUME NEW p \in Port
      PROVE  q[p] = <<>> /\ sk[p] = <<>> /\ owe[p] = 0 /\ ch[p] = NoBurst
  <2>1. Len(bus[p]) + owe[p] + (IF ch[p] = NoBurst THEN 0 ELSE 1) = 0
    BY <1>4 DEF Out
  <2>2. Len(bus[p]) \in Nat /\ owe[p] \in Nat /\ bus[p] \in Seq(BusType) /\ sk[p] \in Seq(WBeatType)
    BY <1>1, OutNat DEF QueuesOK
  <2>3. Len(bus[p]) = 0 /\ owe[p] = 0 /\ ch[p] = NoBurst
    BY <2>1, <2>2
  <2>4. bus[p] = <<>>
    BY <2>2, <2>3, EmptySeq
  <2>5. q[p] = <<>> /\ sk[p] \o Pend(p) = <<>>
    <3> DEFINE a == sk[p] \o Pend(p)
               b == bus[p]
               u == q[p]
               t == beat[p]
    <3>1. Line(a, b, u, t) /\ b = <<>>
      BY <1>1, <2>4 DEF StoreOK
    <3> HIDE DEF a, b, u, t
    <3>2. a = <<>> /\ u = <<>>
      BY <3>1, LineEmpty
    <3> QED BY <3>2 DEF a, u
  <2>6. sk[p] = <<>>
    <3>1. CASE Pend(p) = <<>>
      BY <2>2, <2>5, <3>1, ConcatEmptySeq
    <3>2. CASE Pend(p) # <<>>
      <4>1. rd # NoRead /\ Pend(p) = <<WBeat(rd)>>
        BY <3>2 DEF Pend
      <4>2. WBeat(rd) \in WBeatType
        BY <1>1, <4>1, WBeatOK DEF StoreOK, DmaInv, CmdsOK
      <4>3. Len(sk[p] \o Pend(p)) = Len(sk[p]) + 1 /\ Len(sk[p]) \in Nat
        BY <2>2, <4>1, <4>2, OneMore
      <4> QED BY <2>5, <4>3, EmptySeq
    <3> QED BY <3>1, <3>2
  <2> QED BY <2>3, <2>5, <2>6
<1> QED BY <1>5

\* The same with W beats that are still being read.
LEMMA LinePopMore ==
    ASSUME NEW s \in Seq(WBeatType), NEW pend, pend = <<>> \/ \E w \in WBeatType : pend = <<w>>,
           NEW b, NEW u, NEW t, Line(s \o pend, b, u, t), s # <<>>
    PROVE  Line(Tail(s) \o pend, Gone(b, Head(s).last), u, t)
<1> DEFINE ss == s \o pend
<1>1. ss # <<>> /\ ss[1] = Head(s) /\ Tail(ss) = Tail(s) \o pend
  <2>1. CASE pend = <<>>
    <3>1. s \o <<>> = s /\ Tail(s) \o <<>> = Tail(s) /\ s[1] = Head(s)
      BY ConcatEmptySeq
    <3> QED BY <2>1, <3>1
  <2>2. CASE pend # <<>>
    <3>1. PICK w \in WBeatType : pend = <<w>>
      BY <2>2
    <3> QED BY <3>1, TailMore
  <2> QED BY <2>1, <2>2
<1> HIDE DEF ss
<1>2. Line(Tail(ss), Gone(b, ss[1].last), u, t)
  BY <1>1, LinePop DEF ss
<1> QED BY <1>1, <1>2

LEMMA GoneLen ==
    ASSUME NEW b \in Seq(BusType), b # <<>>, NEW last \in BOOLEAN
    PROVE  Len(Gone(b, last)) = Len(b) - One(last) /\ Len(b) \in Nat
<1> DEFINE x == [Head(b) EXCEPT !.n = @ + 1]
           t == Tail(b)
<1>1. t \in Seq(BusType) /\ Len(t) = Len(b) - 1 /\ Len(b) \in Nat
  BY EmptySeq
<1>2. Gone(b, last) = IF last THEN t ELSE <<x>> \o t
  BY DEF Gone
<1> HIDE DEF x, t
<1>3. Len(<<x>> \o t) = 1 + Len(t)
  <2> DEFINE S == BusType \cup {x}
  <2>1. t \in Seq(S) /\ <<x>> \in Seq(S) /\ Len(<<x>>) = 1
    BY <1>1
  <2> HIDE DEF S
  <2> QED BY <2>1, ConcatProperties
<1> QED BY <1>1, <1>2, <1>3 DEF One

LEMMA StoreStep ==
    ASSUME DmaInv, ~IsLoad, NEW start \in Start,
           NEW rdy \in SUBSET {p \in Port : ch[p] # NoBurst},
           NEW wrdy \in SUBSET {p \in Port : sk[p] # <<>>},
           NEW resp \in SUBSET {p \in Port : owe[p] > 0}, NEW bad,
           StoreEdge(start, rdy, wrdy, resp, bad)
    PROVE  DmaInv'
<1> DEFINE ready == {x \in Port : RoomFor(x)}
           any == sel.hold \/ ready # {}
           p == Selected(ready)
           la == LastBeat(p)
           all == any /\ whole(p, la)
           lasts == {x \in wrdy : Head(sk[x]).last}
           srv == [x \in Port |->
                    IF x \in lasts THEN Tail(bus[x])
                    ELSE IF x \in wrdy
                    THEN <<[Head(bus[x]) EXCEPT !.n = @ + 1]>> \o Tail(bus[x])
                    ELSE bus[x]]
           pops == IF all /\ la THEN {p} ELSE {}
           w == WBeat(rd)'
<1>0. /\ CmdsOK /\ GenOK(g) /\ SelType(sel) /\ ChOK /\ QueuesOK /\ CountsOK /\ StoreOK
      /\ cmd \in CmdType
  BY DEF DmaInv, CmdsOK
<1>1. /\ Issue(start, rdy, pops, srv, FALSE)
      /\ rd' = IF any THEN Read(p) ELSE NoRead
      /\ sel' = IF any THEN SelNext(p, all) ELSE sel
      /\ beat' = [x \in Port |-> IF all /\ x = p THEN IF la THEN 0 ELSE beat[x] + 1 ELSE beat[x]]
      /\ sk' = [x \in Port |->
                  (IF x \in wrdy THEN Tail(sk[x]) ELSE sk[x])
                      \o IF rd # NoRead /\ rd.all /\ rd.port = x THEN <<WBeat(rd)>> ELSE <<>>]
      /\ cnt' = [x \in Port |-> cnt[x] + (IF any /\ ~sel.hold /\ x = p THEN 1 ELSE 0)
                                       - (IF x \in wrdy THEN 1 ELSE 0)]
      /\ owe' = [x \in Port |-> owe[x] + (IF x \in lasts THEN 1 ELSE 0)
                                       - (IF x \in resp THEN 1 ELSE 0)]
      /\ completed' = Counted(start, resp)
      /\ UNCHANGED rx
  BY DEF StoreEdge
<1>2. /\ CmdsOK' /\ GenOK(g') /\ ChOK' /\ cmd'.eng = cmd.eng
      /\ start = <<>> => cmd' = cmd
      /\ start # <<>> => ~g.active /\ ~issue_ok /\ g'.issued = 0 /\ g'.active
      /\ start = <<>> => g'.issued = g.issued + (IF issue_ok THEN 1 ELSE 0)
      /\ ~g'.active /\ start = <<>> => ~issue_ok /\ (g.active => completed = g.issued)
  <2> HIDE DEF pops, srv
  <2> QED BY <1>0, <1>1, IssueStep, Zenon
<1>3. /\ \A x \in Port : q'[x] = (IF x \in pops THEN Tail(q[x]) ELSE q[x]) \o Pushed(x, rdy)
      /\ \A x \in Port : bus'[x] = srv[x] \o
            IF x \in rdy
            THEN <<[addr |-> ch[x].addr, beats |-> ch[x].beats, n |-> 0]>> ELSE <<>>
      /\ \A x \in Port : ch'[x] = IF issue_ok /\ x = g.rr THEN Burst
                                  ELSE IF x \in rdy THEN NoBurst ELSE ch[x]
  <2> HIDE DEF pops, srv
  <2> QED BY <1>1 DEF Issue
<1>4. ~IsLoad'
  BY <1>2 DEF IsLoad
<1>5. /\ any => p \in Port /\ q[p] # <<>>
      /\ any /\ sel.hold => p = sel.port /\ p = rd.port /\ rd # NoRead /\ ~rd.all /\ all
      /\ any /\ ~sel.hold => cnt[p] < SD
  <2>1. /\ ready \subseteq Port /\ \A x \in ready : q[x] # <<>> /\ cnt[x] < SD
    BY DEF RoomFor
  <2> HIDE DEF ready
  <2>2. any => p \in Port /\ (sel.hold => p = sel.port) /\ (~sel.hold => p \in ready)
    BY <1>0, <2>1, SelectedIn, Zenon
  <2>3. sel.hold => whole(p, la)
    BY DEF whole
  <2>4. sel.hold => rd.port = sel.port /\ q[sel.port] # <<>> /\ rd # NoRead /\ ~rd.all
    BY <1>0 DEF StoreOK
  <2> HIDE DEF p, la
  <2> QED BY <2>1, <2>2, <2>3, <2>4
<1>6. any \/ wrdy # {} => start = <<>>
  <2>1. CASE g.active
    <3>1. start = <<>>
      BY <2>1 DEF Start
    <3> QED BY <3>1
  <2>2. CASE ~g.active
    <3>1. \A x \in Port : q[x] = <<>> /\ sk[x] = <<>>
      BY <2>2, StoreIdle
    <3>2. ~any /\ wrdy = {}
      <4> HIDE DEF any, p
      <4> QED BY <1>5, <3>1
    <3> QED BY <3>2
  <2> QED BY <2>1, <2>2
<1>7. ASSUME any
      PROVE  /\ Reading(rd') /\ rd' # NoRead /\ rd'.port = p
             /\ rd'.all <=> all
             /\ w \in WBeatType /\ (w.last <=> la)
  <2>1. rd' = Read(p) /\ cmd' = cmd
    BY <1>1, <1>2, <1>6, <1>7
  <2>2. sel.hold \in BOOLEAN /\ (sel.hold => Reading(rd))
    BY <1>0 DEF SelType, StoreOK
  <2>3. p \in Port /\ q[p] \in Seq(BurstType) /\ q[p] # <<>> /\ beat[p] \in Nat
    <3> HIDE DEF p, any
    <3> QED BY <1>0, <1>5, <1>7 DEF QueuesOK
  <2>4. /\ Reading(Read(p)) /\ Read(p) # NoRead /\ Read(p).port = p
        /\ Read(p).last <=> la
        /\ Read(p).all <=> whole(p, la)
    <3> HIDE DEF p
    <3> QED BY <1>0, <2>2, <2>3, ReadOK
  <2>5. w = WBeat(Read(p))
    <3> DEFINE r == Read(p)
    <3>1. rd' = r
      BY <2>1
    <3> HIDE DEF r
    <3>2. WBeat(rd)' = WBeat(r)
      BY <2>1, <3>1 DEF WBeat, Source
    <3> QED BY <3>2 DEF r
  <2>6. w \in WBeatType /\ w.last = Read(p).last
    <3> HIDE DEF w
    <3> QED BY <1>0, <2>4, <2>5, WBeatOK
  <2> HIDE DEF p, la, w
  <2> QED BY <1>7, <2>1, <2>4, <2>6, Zenon
<1>8. ASSUME NEW x \in Port
      PROVE  Pend(x)' = IF all /\ x = p THEN <<w>> ELSE <<>>
  <2>1. Pend(x)' = IF rd' # NoRead /\ rd'.all /\ rd'.port = x THEN <<w>> ELSE <<>>
    BY DEF Pend
  <2>2. ~any => rd' = NoRead /\ ~all
    BY <1>1
  <2> HIDE DEF p, w, any
  <2> QED BY <1>7, <2>1, <2>2
<1>9. all => any
  OBVIOUS
<1>10. la \in BOOLEAN /\ (la <=> beat[p] + 1 = Head(q[p]).beats)
  BY DEF LastBeat, Head1
<1>11. /\ \A x \in Port : beat'[x] = IF all /\ x = p THEN IF la THEN 0 ELSE beat[x] + 1 ELSE beat[x]
       /\ \A x \in Port : sk'[x] = (IF x \in wrdy THEN Tail(sk[x]) ELSE sk[x]) \o Pend(x)
       /\ \A x \in Port : x \in pops <=> all /\ x = p /\ la
       /\ pops \subseteq Port
  <2>1. \A x \in Port : beat'[x] = IF all /\ x = p THEN IF la THEN 0 ELSE beat[x] + 1 ELSE beat[x]
    <3> HIDE DEF p, la, all
    <3> QED BY <1>1
  <2>2. \A x \in Port : sk'[x] = (IF x \in wrdy THEN Tail(sk[x]) ELSE sk[x]) \o Pend(x)
    BY <1>1 DEF Pend
  <2>3. /\ \A x \in Port : x \in pops <=> all /\ x = p /\ la
        /\ pops \subseteq Port
    <3> HIDE DEF p, la, any
    <3> QED BY <1>5, <1>9
  <2> QED BY <2>1, <2>2, <2>3
<1>12. \A x \in Port : srv[x] = IF x \in wrdy THEN Gone(bus[x], Head(sk[x]).last) ELSE bus[x]
  BY DEF Gone
<1> HIDE DEF ready, any, p, la, all, lasts, srv, pops, w
<1>13. ASSUME NEW x \in Port
       PROVE  sk'[x] \in Seq(WBeatType) /\ Line(sk[x] \o Pend(x), bus[x], q[x], beat[x])'
  <2> DEFINE s == sk[x]
             pend == Pend(x)
             b == bus[x]
             u == q[x]
             t == beat[x]
             taken == x \in wrdy
             more == all /\ x = p
             in == x \in rdy
             z == [addr |-> ch[x].addr, beats |-> ch[x].beats, n |-> 0]
             y == ch[x]
             s1 == sk'[x]
             b1 == srv[x]
             u1 == IF x \in pops THEN Tail(q[x]) ELSE q[x]
             t1 == beat'[x]
  <2>1. s \in Seq(WBeatType) /\ u \in Seq(BurstType) /\ t \in Nat
    BY <1>0 DEF QueuesOK
  <2>2. pend = <<>> \/ \E v \in WBeatType : pend = <<v>>
    BY <1>0, WBeatOK DEF Pend, StoreOK
  <2>3. Line(s \o pend, b, u, t)
    BY <1>0 DEF StoreOK
  <2>4. taken => s # <<>>
    OBVIOUS
  <2>5. more => u # <<>>
    BY <1>5, <1>9
  <2>6. more => w \in WBeatType /\ w.last = (t + 1 = u[1].beats)
    <3>1. SUFFICES ASSUME all, x = p
                   PROVE  w \in WBeatType /\ w.last = (t + 1 = u[1].beats)
      OBVIOUS
    <3>2. w \in WBeatType /\ (w.last <=> la)
      BY <1>7, <1>9, <3>1
    <3>3. w.last \in BOOLEAN
      BY <3>2, Zenon DEF WBeatType
    <3>4. Head(u) = u[1]
      BY <2>1, <2>5, <3>1
    <3>5. la <=> t + 1 = u[1].beats
      BY <1>10, <3>1, <3>4
    <3> QED BY <3>2, <3>3, <3>5
  <2>7. in => /\ y \in BurstType /\ z \in BusType /\ z.n = 0 /\ z.beats = y.beats
    <3>1. in => y \in BurstType
      BY <1>0 DEF ChOK
    <3>2. z.n = 0 /\ z.beats = y.beats
      OBVIOUS
    <3>3. in => z \in BusType
      BY <3>1 DEF BurstType, BusType
    <3> QED BY <3>1, <3>2, <3>3
  <2>8. s1 = (IF taken THEN Tail(s) ELSE s) \o pend
    BY <1>11, Zenon
  <2>9. b1 = IF taken THEN Gone(b, Head(s).last) ELSE b
    BY <1>12, Zenon
  <2>10. u1 = IF more /\ w.last THEN Tail(u) ELSE u
    BY <1>7, <1>9, <1>11
  <2>11. t1 = IF more THEN IF w.last THEN 0 ELSE t + 1 ELSE t
    BY <1>7, <1>9, <1>11
  <2>12. /\ sk'[x] = s1 /\ beat'[x] = t1
         /\ bus'[x] = b1 \o (IF in THEN <<z>> ELSE <<>>)
         /\ q'[x] = u1 \o (IF in THEN <<y>> ELSE <<>>)
         /\ Pend(x)' = IF more THEN <<w>> ELSE <<>>
    BY <1>3, <1>8, Zenon DEF Pushed
  <2> HIDE DEF s, pend, b, u, t, taken, more, in, z, y, s1, b1, u1, t1
  <2>13. Line(s1, b1, u, t)
    <3>1. CASE taken
      <4>1. Line(Tail(s) \o pend, Gone(b, Head(s).last), u, t)
        BY <2>1, <2>2, <2>3, <2>4, <3>1, LinePopMore
      <4>2. s1 = Tail(s) \o pend /\ b1 = Gone(b, Head(s).last)
        BY <2>8, <2>9, <3>1
      <4> QED BY <4>1, <4>2
    <3>2. CASE ~taken
      <4>1. s1 = s \o pend /\ b1 = b
        BY <2>8, <2>9, <3>2
      <4> QED BY <2>3, <4>1
    <3> QED BY <3>1, <3>2
  <2>14. s1 \in Seq(WBeatType) /\ b1 \in Seq(BusType)
    BY <2>13 DEF Line
  <2>15. Line(s1 \o (IF more THEN <<w>> ELSE <<>>), b1, u1, t1)
    <3>1. CASE more
      <4>1. s1 \o <<w>> = Append(s1, w)
        BY <2>6, <2>14, <3>1, OneMore
      <4>2. Line(Append(s1, w), b1, IF w.last THEN Tail(u) ELSE u, IF w.last THEN 0 ELSE t + 1)
        BY <2>5, <2>6, <2>13, <3>1, LinePush
      <4>3. u1 = (IF w.last THEN Tail(u) ELSE u) /\ t1 = IF w.last THEN 0 ELSE t + 1
        BY <2>10, <2>11, <3>1
      <4> QED BY <3>1, <4>1, <4>2, <4>3, Zenon
    <3>2. CASE ~more
      <4>1. s1 \o <<>> = s1
        BY <2>14, ConcatEmptySeq
      <4>2. u1 = u /\ t1 = t
        BY <2>10, <2>11, <3>2
      <4> QED BY <2>13, <3>2, <4>1, <4>2, Zenon
    <3> QED BY <3>1, <3>2
  <2> DEFINE s2 == s1 \o (IF more THEN <<w>> ELSE <<>>)
  <2>16. Line(s2, b1 \o (IF in THEN <<z>> ELSE <<>>), u1 \o (IF in THEN <<y>> ELSE <<>>), t1)
    <3> HIDE DEF s2
    <3>1. CASE in
      <4>1. Line(s2, b1 \o <<z>>, u1 \o <<y>>, t1)
        BY <2>7, <2>15, <3>1, LineAccept DEF s2
      <4> QED BY <3>1, <4>1, Zenon
    <3>2. CASE ~in
      <4>1. u1 \in Seq(BurstType)
        BY <2>15 DEF Line
      <4>2. b1 \o <<>> = b1 /\ u1 \o <<>> = u1
        BY <2>14, <4>1, ConcatEmptySeq
      <4> QED BY <2>15, <3>2, <4>2, Zenon DEF s2
    <3> QED BY <3>1, <3>2
  <2> QED BY <2>12, <2>14, <2>16, Zenon DEF s2
<1>14. \A x \in Port : /\ q'[x] \in Seq(BurstType) /\ bus'[x] \in Seq(BusType)
                       /\ sk'[x] \in Seq(WBeatType) /\ beat'[x] \in Nat
  BY <1>13 DEF Line
<1>15. ASSUME NEW x \in Port
       PROVE  Len(q'[x]) = Len(q[x]) + One(x \in rdy) - One(x \in pops)
              /\ (~(x \in pops) /\ q[x] # <<>> => q'[x] # <<>>)
  <2> DEFINE i == One(x \in rdy)
             o == One(x \in pops)
             y == ch[x]
             s == q[x]
             r == q'[x]
  <2>0. /\ i \in {0, 1} /\ (i = 1 <=> x \in rdy)
        /\ o \in {0, 1} /\ (o = 1 <=> x \in pops) /\ (o = 0 <=> ~(x \in pops))
    BY DEF One
  <2>1. r = (IF o = 1 THEN Tail(s) ELSE s) \o (IF i = 1 THEN <<y>> ELSE <<>>)
    <3> HIDE DEF i, o
    <3> QED BY <1>3, <2>0, Zenon DEF Pushed
  <2>2. o = 1 => s # <<>>
    BY <1>5, <1>9, <1>11, <2>0
  <2>3. i = 1 => y \in BurstType
    BY <1>0, <2>0 DEF ChOK
  <2>4. s \in Seq(BurstType)
    BY <1>0 DEF QueuesOK
  <2> HIDE DEF i, o, y, s, r
  <2>5. Moves(BurstType, s, r, i, o)
    BY <2>0, <2>1, <2>2, <2>3, <2>4, QueueMoves
  <2> QED BY <2>0, <2>5, Zenon DEF Moves, i, o, s, r
<1>16. ASSUME NEW x \in Port
       PROVE  Len(sk'[x]) = Len(sk[x]) + One(rd # NoRead /\ rd.all /\ rd.port = x) - One(x \in wrdy)
  <2> DEFINE i == One(rd # NoRead /\ rd.all /\ rd.port = x)
             o == One(x \in wrdy)
             y == WBeat(rd)
             s == sk[x]
             r == sk'[x]
  <2>0. /\ i \in {0, 1} /\ (i = 1 <=> rd # NoRead /\ rd.all /\ rd.port = x)
        /\ o \in {0, 1} /\ (o = 1 <=> x \in wrdy) /\ (o = 0 <=> ~(x \in wrdy))
    BY DEF One
  <2>1. r = (IF o = 1 THEN Tail(s) ELSE s) \o (IF i = 1 THEN <<y>> ELSE <<>>)
    <3> HIDE DEF i, o
    <3> QED BY <1>11, <2>0, Zenon DEF Pend
  <2>2. o = 1 => s # <<>>
    BY <2>0
  <2>3. i = 1 => y \in WBeatType
    BY <1>0, <2>0, WBeatOK DEF StoreOK
  <2>4. s \in Seq(WBeatType)
    BY <1>0 DEF QueuesOK
  <2> HIDE DEF i, o, y, s, r
  <2>5. Moves(WBeatType, s, r, i, o)
    BY <2>0, <2>1, <2>2, <2>3, <2>4, QueueMoves
  <2> QED BY <2>5, Zenon DEF Moves, i, o, s, r
<1>17. ASSUME NEW x \in Port
       PROVE  Len(bus'[x]) = Len(bus[x]) + One(x \in rdy) - One(x \in lasts)
  <2>1. bus[x] \in Seq(BusType) /\ Len(bus[x]) \in Nat
    BY <1>0 DEF QueuesOK
  <2>2. Len(srv[x]) = Len(bus[x]) - One(x \in lasts) /\ srv[x] \in Seq(BusType)
    <3>1. CASE x \in wrdy
      <4> DEFINE la1 == Head(sk[x]).last
      <4>1. sk[x] # <<>> /\ sk[x] \in Seq(WBeatType)
        BY <1>0, <3>1 DEF QueuesOK
      <4>2. la1 \in BOOLEAN
        <5>1. Head(sk[x]) \in WBeatType
          BY <4>1
        <5> QED BY <5>1, Zenon DEF WBeatType
      <4>3. Line(sk[x] \o Pend(x), bus[x], q[x], beat[x])
        BY <1>0 DEF StoreOK
      <4>4. Pend(x) = <<>> \/ \E v \in WBeatType : Pend(x) = <<v>>
        BY <1>0, WBeatOK DEF Pend, StoreOK
      <4>5. sk[x] \o Pend(x) # <<>>
        BY <4>1, <4>4, TailMore, ConcatEmptySeq
      <4>6. bus[x] # <<>>
        BY <4>3, <4>5, LineHead
      <4>7. srv[x] = Gone(bus[x], la1)
        BY <1>12, <3>1
      <4>8. x \in lasts <=> la1
        BY <3>1 DEF lasts
      <4>9. Line(Tail(sk[x]) \o Pend(x), srv[x], q[x], beat[x])
        BY <4>1, <4>3, <4>4, <4>7, LinePopMore
      <4>10. srv[x] \in Seq(BusType)
        BY <4>9 DEF Line
      <4>11. Len(srv[x]) = Len(bus[x]) - One(la1)
        <5> HIDE DEF la1
        <5> QED BY <2>1, <4>2, <4>6, <4>7, GoneLen
      <4> QED BY <4>8, <4>10, <4>11 DEF One
    <3>2. CASE ~(x \in wrdy)
      <4>1. srv[x] = bus[x] /\ ~(x \in lasts)
        BY <1>12, <3>2 DEF lasts
      <4> QED BY <2>1, <4>1 DEF One
    <3> QED BY <3>1, <3>2
  <2> DEFINE z == [addr |-> ch[x].addr, beats |-> ch[x].beats, n |-> 0]
  <2>3. bus'[x] = srv[x] \o IF x \in rdy THEN <<z>> ELSE <<>>
    BY <1>3, Zenon
  <2>4. x \in rdy => z \in BusType
    <3>1. x \in rdy => ch[x] \in BurstType
      BY <1>0 DEF ChOK
    <3> QED BY <3>1 DEF BurstType, BusType
  <2> HIDE DEF z
  <2>5. Len(bus'[x]) = Len(srv[x]) + One(x \in rdy)
    <3> DEFINE sv == srv[x]
               r == bus'[x]
    <3>1. /\ sv \in Seq(BusType) /\ Len(sv) \in Nat
          /\ r = sv \o (IF x \in rdy THEN <<z>> ELSE <<>>)
      BY <2>2, <2>3, LenProperties
    <3> HIDE DEF sv, r
    <3>2. CASE x \in rdy
      <4>1. r = sv \o <<z>> /\ One(x \in rdy) = 1
        BY <3>1, <3>2 DEF One
      <4>2. Len(r) = Len(sv) + 1
        BY <2>4, <3>1, <3>2, <4>1, OneMore
      <4> QED BY <4>1, <4>2, Zenon DEF sv, r
    <3>3. CASE ~(x \in rdy)
      <4>1. r = sv \o <<>> /\ One(x \in rdy) = 0
        BY <3>1, <3>3 DEF One
      <4>2. r = sv
        BY <3>1, <4>1, ConcatEmptySeq
      <4>3. Len(r) = Len(sv) + 0
        BY <3>1, <4>2
      <4> QED BY <4>1, <4>3, Zenon DEF sv, r
    <3> QED BY <3>2, <3>3
  <2> QED BY <2>1, <2>2, <2>5 DEF One
<1>18. ASSUME NEW x \in Port
       PROVE  /\ owe'[x] = owe[x] + One(x \in lasts) - One(x \in resp)
              /\ owe'[x] \in Nat
  <2>1. owe'[x] = owe[x] + (IF x \in lasts THEN 1 ELSE 0) - (IF x \in resp THEN 1 ELSE 0)
    BY <1>1
  <2>2. owe[x] \in Nat /\ (x \in resp => owe[x] > 0)
    BY <1>0 DEF QueuesOK
  <2> QED BY <2>1, <2>2 DEF One
<1>19. ASSUME NEW x \in Port
       PROVE  /\ cnt'[x] = Len(sk'[x]) + (IF rd' # NoRead /\ rd'.port = x THEN 1 ELSE 0)
              /\ cnt'[x] <= SD /\ cnt'[x] \in Nat
  <2> DEFINE here == rd # NoRead /\ rd.port = x
             w1 == One(x \in wrdy)
             pe == One(rd # NoRead /\ rd.all /\ rd.port = x)
             n1 == One(any /\ ~sel.hold /\ x = p)
             h0 == One(here)
             h1 == One(rd' # NoRead /\ rd'.port = x)
  <2>1. cnt'[x] = cnt[x] + n1 - w1
    BY <1>1, Zenon DEF One
  <2>2. cnt[x] = Len(sk[x]) + h0 /\ cnt[x] <= SD /\ cnt[x] \in Nat
    BY <1>0 DEF StoreOK, QueuesOK, One
  <2>3. Len(sk'[x]) = Len(sk[x]) + pe - w1 /\ Len(sk'[x]) \in Nat /\ Len(sk[x]) \in Nat
    BY <1>0, <1>14, <1>16, LenProperties DEF QueuesOK
  <2>4. /\ w1 \in {0, 1} /\ pe \in {0, 1} /\ n1 \in {0, 1} /\ h0 \in {0, 1} /\ h1 \in {0, 1}
        /\ n1 = 1 => cnt[x] < SD
    BY <1>5 DEF One
  <2>5. h0 + n1 = pe + h1
    <3>1. h1 = One(any /\ x = p)
      <4>1. ~any => rd' = NoRead
        BY <1>1
      <4> QED BY <1>7, <4>1 DEF One
    <3>2. sel.hold <=> rd # NoRead /\ ~rd.all
      BY <1>0 DEF StoreOK
    <3>3. sel.hold => any /\ p = rd.port
      BY <1>5 DEF any
    <3>4. CASE sel.hold
      BY <3>1, <3>2, <3>3, <3>4 DEF One
    <3>5. CASE ~sel.hold
      BY <3>1, <3>2, <3>5 DEF One
    <3> QED BY <3>4, <3>5
  <2>6. h1 = IF rd' # NoRead /\ rd'.port = x THEN 1 ELSE 0
    BY DEF One
  <2> HIDE DEF w1, pe, n1, h0, h1, here
  <2>7. SD \in Nat
    BY Sizes
  <2>8. cnt'[x] = Len(sk'[x]) + h1 /\ cnt'[x] <= SD /\ cnt'[x] \in Nat
    <3> DEFINE c == cnt[x]
               c1 == cnt'[x]
               k == Len(sk[x])
               k1 == Len(sk'[x])
    <3>1. /\ c1 = c + n1 - w1 /\ c = k + h0 /\ c <= SD /\ c \in Nat /\ k1 = k + pe - w1
          /\ k1 \in Nat /\ k \in Nat
      BY <2>1, <2>2, <2>3
    <3>2. n1 = 1 => c < SD
      BY <2>4
    <3> HIDE DEF c, c1, k, k1
    <3>3. c1 = k1 + h1 /\ c1 <= SD /\ c1 \in Nat
      BY <2>4, <2>5, <2>7, <3>1, <3>2
    <3> QED BY <3>3 DEF c1, k1
  <2> QED BY <2>6, <2>8, Zenon
<1>20. QueuesOK'
  <2>1. rx' = rx
    BY <1>1
  <2>2. \A x \in Port : rx[x] \in Seq(RxType)
    BY <1>0 DEF QueuesOK
  <2> QED BY <1>14, <1>18, <1>19, <2>1, <2>2 DEF QueuesOK
<1>21. ASSUME NEW x \in Port
       PROVE  /\ One(ch'[x] # NoBurst) = One(ch[x] # NoBurst) + One(issue_ok /\ x = g.rr)
                                         - One(x \in rdy)
              /\ issue_ok /\ x = g.rr => Len(q[x]) < QD /\ ch[x] = NoBurst
  <2>1. issue_ok /\ x = g.rr => ch[x] = NoBurst /\ Burst # NoBurst
    BY <1>0, BurstOK DEF issue_ok
  <2>2. x \in rdy => ch[x] # NoBurst
    OBVIOUS
  <2>3. issue_ok /\ x = g.rr => Len(q[x]) < QD
    <3>1. SUFFICES ASSUME issue_ok, x = g.rr PROVE Len(q[x]) < QD
      OBVIOUS
    <3>2. ~(Len(q[x]) + 0 >= QD)
      BY <2>1, <3>1, Zenon DEF issue_ok, q_full
    <3>3. Len(q[x]) \in Nat
      BY <1>0, OutNat
    <3> QED BY <3>2, <3>3, Sizes
  <2>4. ch'[x] = IF issue_ok /\ x = g.rr THEN Burst ELSE IF x \in rdy THEN NoBurst ELSE ch[x]
    BY <1>3
  <2>5. One(ch'[x] # NoBurst) = One(ch[x] # NoBurst) + One(issue_ok /\ x = g.rr) - One(x \in rdy)
    <3>1. CASE issue_ok /\ x = g.rr
      BY <2>1, <2>2, <2>4, <3>1 DEF One
    <3>2. CASE ~(issue_ok /\ x = g.rr)
      BY <2>2, <2>4, <3>2 DEF One
    <3> QED BY <3>1, <3>2
  <2> QED BY <2>1, <2>3, <2>5
<1>22. ASSUME NEW x \in Port
       PROVE  Len(q'[x]) + (IF ch'[x] = NoBurst THEN 0 ELSE 1) <= QD
  <2> DEFINE n == Len(q[x])
             n1 == Len(q'[x])
             c == One(ch[x] # NoBurst)
             c1 == One(ch'[x] # NoBurst)
             is == One(issue_ok /\ x = g.rr)
             rd1 == One(x \in rdy)
             po == One(x \in pops)
  <2>1. n \in Nat /\ n1 \in Nat /\ QD \in Nat
    BY <1>0, <1>14, OutNat, LenProperties, Sizes
  <2>2. n1 = n + rd1 - po /\ c1 = c + is - rd1
    BY <1>15, <1>21
  <2>3. n + c <= QD /\ (is = 1 => n < QD /\ c = 0)
    <3>1. n + (IF ch[x] = NoBurst THEN 0 ELSE 1) <= QD
      BY <1>0 DEF StoreOK
    <3>2. c = IF ch[x] = NoBurst THEN 0 ELSE 1
      BY DEF One
    <3>3. is = 1 => issue_ok /\ x = g.rr
      BY DEF One
    <3>4. is = 1 => n < QD /\ c = 0
      BY <1>21, <3>2, <3>3
    <3> QED BY <3>1, <3>2, <3>4, Zenon
  <2>4. c \in {0, 1} /\ c1 \in {0, 1} /\ is \in {0, 1} /\ rd1 \in {0, 1} /\ po \in {0, 1}
    BY DEF One
  <2>5. c1 = IF ch'[x] = NoBurst THEN 0 ELSE 1
    BY DEF One
  <2> HIDE DEF n, n1, c, c1, is, rd1, po
  <2>6. n1 + c1 <= QD
    BY <2>1, <2>2, <2>3, <2>4
  <2> QED BY <2>5, <2>6, Zenon DEF n1
<1>23. CountsOK'
  <2>1. resp \in SUBSET Port
    OBVIOUS
  <2>2. ASSUME NEW x \in Port
        PROVE  /\ Out(x)' = Out(x) + (IF issue_ok /\ x = g.rr THEN 1 ELSE 0)
                                   - (IF x \in resp THEN 1 ELSE 0)
               /\ Out(x)' \in Nat
    <3> DEFINE b == Len(bus[x])
               b1 == Len(bus'[x])
               w0 == owe[x]
               w1 == owe'[x]
               c == One(ch[x] # NoBurst)
               c1 == One(ch'[x] # NoBurst)
               is == One(issue_ok /\ x = g.rr)
               rd1 == One(x \in rdy)
               ls == One(x \in lasts)
               re == One(x \in resp)
    <3>1. Out(x) = b + w0 + c /\ Out(x)' = b1 + w1 + c1
      BY <1>4, Zenon DEF Out, One
    <3>2. b \in Nat /\ b1 \in Nat /\ w0 \in Nat /\ w1 \in Nat
      BY <1>0, <1>14, <1>18, LenProperties DEF QueuesOK
    <3>3. b1 = b + rd1 - ls /\ w1 = w0 + ls - re /\ c1 = c + is - rd1
      BY <1>17, <1>18, <1>21
    <3>4. /\ c \in {0, 1} /\ c1 \in {0, 1} /\ is \in {0, 1} /\ rd1 \in {0, 1}
          /\ ls \in {0, 1} /\ re \in {0, 1}
      BY DEF One
    <3>5. is = (IF issue_ok /\ x = g.rr THEN 1 ELSE 0) /\ re = IF x \in resp THEN 1 ELSE 0
      BY DEF One
    <3> HIDE DEF b, b1, w0, w1, c, c1, is, rd1, ls, re
    <3>6. b1 + w1 + c1 = (b + w0 + c) + is - re /\ b1 + w1 + c1 \in Nat
      BY <3>2, <3>3, <3>4
    <3> QED BY <3>1, <3>5, <3>6, Zenon
  <2>3. completed' = Counted(start, resp)
    BY <1>1
  <2> QED BY <1>0, <1>2, <2>1, <2>2, <2>3, CountStep
<1>24. SelType(sel')
  <2>1. CASE any
    <3>1. sel' = SelNext(p, all) /\ p \in Port /\ all \in BOOLEAN
      BY <1>1, <1>5, <2>1 DEF all
    <3> QED BY <1>0, <3>1, SelNextType
  <2>2. CASE ~any
    BY <1>0, <1>1, <2>2
  <2> QED BY <2>1, <2>2
<1>25. StoreOK'
  <2>1. rd' # NoRead => Reading(rd')
    BY <1>1, <1>7
  <2>2. /\ sel'.hold <=> rd' # NoRead /\ ~rd'.all
        /\ sel'.hold => rd'.port = sel'.port /\ q'[sel'.port] # <<>>
    <3>1. CASE any
      <4>1. sel' = SelNext(p, all) /\ p \in Port /\ all \in BOOLEAN
        BY <1>1, <1>5, <3>1 DEF all
      <4>2. (sel'.hold <=> ~all) /\ (~all => sel'.port = p)
        BY <1>0, <4>1, SelNextType
      <4>3. ~all => q'[p] # <<>>
        BY <1>5, <1>11, <1>15, <3>1
      <4> QED BY <1>7, <3>1, <4>2, <4>3
    <3>2. CASE ~any
      BY <1>1, <3>2 DEF any
    <3> QED BY <3>1, <3>2
  <2> QED BY <1>13, <1>19, <1>22, <2>1, <2>2 DEF StoreOK
<1> QED BY <1>2, <1>4, <1>20, <1>23, <1>24, <1>25 DEF DmaInv

-----------------------------------------------------------------------------
(***************************************************************************)
(* The theorems.                                                           *)
(***************************************************************************)
LEMMA InitOK == DmaInit => DmaInv
<1> SUFFICES ASSUME DmaInit PROVE DmaInv
  OBVIOUS
<1>1. /\ todo \in Programs /\ cmd = todo[1] /\ completed = 0
      /\ ch = [p \in Port |-> NoBurst]
      /\ q = [p \in Port |-> <<>>] /\ bus = q /\ rx = q /\ sk = q
      /\ beat = [p \in Port |-> 0] /\ cnt = beat /\ owe = beat
      /\ sel = [rr |-> 0, hold |-> FALSE, port |-> 0]
      /\ rd = NoRead
  BY DEF DmaInit
<1>2. CmdsOK
  <2>1. todo # <<>> /\ todo \in Seq(CmdType) /\ \A i \in 1 .. Len(todo) : todo[i].eng = todo[1].eng
    BY <1>1, DmaAssumption
  <2>2. todo[1] \in CmdType
    BY <2>1, EmptySeq
  <2> QED BY <1>1, <2>1, <2>2 DEF CmdsOK
<1>3. GenOK(g) /\ g.issued = 0
  <2>1. g = [active |-> FALSE, gen |-> FALSE, rows |-> 0, len |-> 0, r |-> 0, off |-> 0,
             row_ddr |-> 0, row_word |-> 0, cur_word |-> 0, cur_lane |-> 0,
             issued |-> 0, rr |-> 0]
    BY DEF DmaInit
  <2>2. /\ DOMAIN g = GenFields /\ g.active = FALSE /\ g.gen = FALSE
        /\ g.rows = 0 /\ g.len = 0 /\ g.r = 0 /\ g.off = 0 /\ g.row_ddr = 0
        /\ g.row_word = 0 /\ g.cur_word = 0 /\ g.cur_lane = 0 /\ g.issued = 0 /\ g.rr = 0
    BY <2>1 DEF GenFields
  <2>3. 0 \in Nat /\ 0 \in Int /\ 0 \in Port
    BY Sizes
  <2>4. GenType(g)
    BY <2>2, <2>3, Zenon DEF GenType
  <2> QED BY <2>2, <2>4, Zenon DEF GenOK
<1>4. SelType(sel) /\ ~sel.hold
  BY <1>1, Sizes DEF SelType
<1>5. ASSUME NEW p \in Port
      PROVE  /\ q[p] = <<>> /\ bus[p] = <<>> /\ rx[p] = <<>> /\ sk[p] = <<>>
             /\ beat[p] = 0 /\ cnt[p] = 0 /\ owe[p] = 0 /\ ch[p] = NoBurst /\ Pend(p) = <<>>
  BY <1>1 DEF Pend
<1>6. ChOK /\ QueuesOK
  <2>1. \A S : <<>> \in Seq(S)
    OBVIOUS
  <2>2. 0 \in Nat
    OBVIOUS
  <2> QED BY <1>5, <2>1, <2>2, Zenon DEF ChOK, QueuesOK
<1>7. CountsOK
  <2>1. \A p \in Port : Out(p) = 0
    BY <1>5 DEF Out
  <2> DEFINE o == [p \in Port |-> Out(p)]
  <2>2. \A p \in Port : o[p] = 0
    BY <2>1
  <2> HIDE DEF o
  <2>3. Total(o, 0)
    BY <2>2, AllNone
  <2>4. g.issued - completed = 0
    BY <1>1, <1>3
  <2> QED BY <1>1, <1>3, <2>3, <2>4 DEF CountsOK, o
<1>8. LoadOK
  BY <1>4, <1>5, Sizes DEF LoadOK
<1>9. StoreOK
  <2>1. ASSUME NEW p \in Port
        PROVE  Line(<<>>, <<>>, <<>>, 0)
    <3> DEFINE e == [j \in 0 .. 0 |-> 0]
    <3>1. e \in [0 .. 0 - 0 -> 0 - Served(<<>>) .. 0] /\ e[0] = 0 /\ Served(<<>>) = 0
      BY DEF Served
    <3> HIDE DEF e
    <3>2. Marks(e, 0 - 0, <<>>, <<>>, 0)
      BY <3>1 DEF Marks
    <3>3. Len(<<>>) = 0 /\ \A S : <<>> \in Seq(S)
      OBVIOUS
    <3> QED BY <3>1, <3>2, <3>3 DEF Line
  <2>2. \A p \in Port : sk[p] \o Pend(p) = <<>>
    BY <1>5
  <2>3. rd = NoRead /\ ~sel.hold
    BY <1>1, <1>4
  <2>4. ASSUME NEW p \in Port
        PROVE  /\ Len(q[p]) + (IF ch[p] = NoBurst THEN 0 ELSE 1) <= QD
               /\ Line(sk[p] \o Pend(p), bus[p], q[p], beat[p])
               /\ cnt[p] = Len(sk[p]) + (IF rd # NoRead /\ rd.port = p THEN 1 ELSE 0)
               /\ cnt[p] <= SD
    <3>1. Len(<<>>) = 0 /\ 0 + 0 <= QD /\ 0 <= SD /\ 0 + 0 = 0
      BY Sizes
    <3>2. sk[p] \o Pend(p) = <<>> /\ Line(<<>>, <<>>, <<>>, 0)
      BY <2>1, <2>2
    <3> QED BY <1>5, <2>3, <3>1, <3>2, Zenon
  <2> QED BY <2>3, <2>4, Zenon DEF StoreOK
<1> QED BY <1>2, <1>3, <1>4, <1>6, <1>7, <1>8, <1>9 DEF DmaInv

LEMMA NextOK == DmaInv /\ [DmaNext]_vars => DmaInv'
<1> SUFFICES ASSUME DmaInv, [DmaNext]_vars PROVE DmaInv'
  OBVIOUS
<1>1. CASE DmaNext
  <2>1. PICK start \in Start, rdy \in SUBSET {p \in Port : ch[p] # NoBurst} :
            \/ /\ IsLoad
               /\ \E come \in SUBSET {p \in Port : bus[p] # <<>> /\ Len(rx[p]) < 2} :
                  \E bad \in IF TRUE \in CanFail THEN SUBSET come ELSE {{}} :
                  \E xready, busy \in IF gmode THEN BOOLEAN ELSE {FALSE} :
                    LoadEdge(start, rdy, come, bad, xready, busy)
            \/ /\ ~IsLoad
               /\ \E wrdy \in SUBSET {p \in Port : sk[p] # <<>>},
                     resp \in SUBSET {p \in Port : owe[p] > 0} :
                  \E bad \in IF TRUE \in CanFail THEN SUBSET resp ELSE {{}} :
                    StoreEdge(start, rdy, wrdy, resp, bad)
    BY <1>1, Zenon DEF DmaNext, Start
  <2>2. CASE IsLoad
    <3>1. PICK come \in SUBSET {p \in Port : bus[p] # <<>> /\ Len(rx[p]) < 2} :
               \E bad, xready, busy : LoadEdge(start, rdy, come, bad, xready, busy)
      BY <2>1, <2>2, Zenon
    <3>2. PICK bad, xready, busy : LoadEdge(start, rdy, come, bad, xready, busy)
      BY <3>1
    <3> QED BY <2>2, <3>2, LoadStep
  <2>3. CASE ~IsLoad
    <3>1. PICK wrdy \in SUBSET {p \in Port : sk[p] # <<>>},
               resp \in SUBSET {p \in Port : owe[p] > 0} :
               \E bad : StoreEdge(start, rdy, wrdy, resp, bad)
      BY <2>1, <2>3, Zenon
    <3>2. PICK bad : StoreEdge(start, rdy, wrdy, resp, bad)
      BY <3>1
    <3> QED BY <2>3, <3>2, StoreStep
  <2> QED BY <2>2, <2>3
<1>2. CASE UNCHANGED vars
  <2>1. /\ todo' = todo /\ cmd' = cmd /\ g' = g /\ ch' = ch /\ q' = q /\ bus' = bus
        /\ beat' = beat /\ sel' = sel /\ completed' = completed /\ rx' = rx /\ rd' = rd
        /\ sk' = sk /\ cnt' = cnt /\ owe' = owe
    BY <1>2 DEF vars, ldst
  <2> QED BY <2>1 DEF DmaInv, CmdsOK, ChOK, QueuesOK, CountsOK, LoadOK, StoreOK, IsLoad, Pend,
                      Out, WBeat, Source
<1> QED BY <1>1, <1>2

\* The load engine (sa_ld.v) and the store engine (sa_st.v) keep, on every clock,
\* what their queues, pointers and counters say of one another: the next burst
\* lies in its row, page and length; the W beats of a port, those being read
\* included, end where the bursts the slave has accepted end; the credit counter
\* is the number of beats in the skid; and the bursts counted as issued and not
\* ended are those in the queues.
THEOREM DmaInductive == DmaSpec => []DmaInv
BY InitOK, NextOK, PTL DEF DmaSpec

\* No burst the engines put on AR or AW crosses 4 KB or has more than MaxBeats
\* beats (lanes_4k and lanes_max of the generator).
THEOREM BurstsAlways == DmaSpec => []BurstsLegal
<1>1. DmaInv => BurstsLegal
  BY DEF DmaInv, ChOK, BurstsLegal, Legal
<1> QED BY <1>1, DmaInductive, PTL

\* The queues of a port never outgrow their memory, the last W beat of a burst is
\* the one its AW announced, and each burst is counted once when it is issued and
\* once when it ends, however many ports end one in a cycle.
THEOREM PortsInStep == DmaSpec => []InStep
<1>1. DmaInv => InStep
  <2> SUFFICES ASSUME DmaInv PROVE InStep
    OBVIOUS
  <2>0. QueuesOK /\ CountsOK /\ (IF IsLoad THEN LoadOK ELSE StoreOK)
    BY DEF DmaInv
  <2>1. Total([p \in Port |-> Out(p)], g.issued - completed)
    BY <2>0 DEF CountsOK
  <2>2. ASSUME NEW p \in Port
        PROVE  /\ Len(q[p]) <= QD /\ Len(sk[p]) <= cnt[p] /\ cnt[p] <= SD
               /\ sk[p] # <<>> =>
                     /\ bus[p] # <<>>
                     /\ Head(sk[p]).last = (Head(bus[p]).n + 1 = Head(bus[p]).beats)
    <3>1. CASE IsLoad
      <4>1. sk[p] = <<>> /\ cnt[p] = 0 /\ Len(q[p]) <= QD
        BY <2>0, <3>1 DEF LoadOK
      <4> QED BY <4>1, Sizes
    <3>2. CASE ~IsLoad
      <4>1. /\ Len(q[p]) + (IF ch[p] = NoBurst THEN 0 ELSE 1) <= QD
            /\ Line(sk[p] \o Pend(p), bus[p], q[p], beat[p])
            /\ cnt[p] = Len(sk[p]) + (IF rd # NoRead /\ rd.port = p THEN 1 ELSE 0)
            /\ cnt[p] <= SD
        BY <2>0, <3>2 DEF StoreOK
      <4>2. Len(q[p]) \in Nat /\ Len(sk[p]) \in Nat /\ sk[p] \in Seq(WBeatType) /\ bus[p] \in Seq(BusType)
        BY <2>0, LenProperties DEF QueuesOK
      <4>3. Len(q[p]) <= QD /\ Len(sk[p]) <= cnt[p]
        <5> DEFINE a == Len(q[p])
                   b == Len(sk[p])
                   c == cnt[p]
                   m == IF ch[p] = NoBurst THEN 0 ELSE 1
                   n == IF rd # NoRead /\ rd.port = p THEN 1 ELSE 0
        <5>1. /\ a \in Nat /\ b \in Nat /\ a + m <= QD /\ c = b + n
          BY <4>1, <4>2
        <5>2. m \in {0, 1} /\ n \in {0, 1} /\ QD \in Nat
          BY Sizes
        <5> HIDE DEF a, b, c, m, n
        <5>3. a <= QD /\ b <= c
          BY <5>1, <5>2
        <5> QED BY <5>3 DEF a, b, c
      <4>4. ASSUME sk[p] # <<>>
            PROVE  /\ bus[p] # <<>>
                   /\ Head(sk[p]).last = (Head(bus[p]).n + 1 = Head(bus[p]).beats)
        <5> DEFINE a == sk[p] \o Pend(p)
        <5>1. Pend(p) = <<>> \/ \E v \in WBeatType : Pend(p) = <<v>>
          BY <2>0, <3>2, WBeatOK DEF Pend, StoreOK, DmaInv, CmdsOK
        <5>2. a # <<>> /\ a[1] = Head(sk[p])
          <6>1. CASE Pend(p) = <<>>
            BY <4>2, <4>4, <6>1, ConcatEmptySeq
          <6>2. CASE Pend(p) # <<>>
            <7>1. PICK v \in WBeatType : Pend(p) = <<v>>
              BY <5>1, <6>2
            <7> QED BY <4>2, <4>4, <7>1, TailMore
          <6> QED BY <6>1, <6>2
        <5>3. Line(a, bus[p], q[p], beat[p])
          BY <4>1
        <5> HIDE DEF a
        <5>4. bus[p] # <<>> /\ a[1].last = (bus[p][1].n + 1 = bus[p][1].beats)
          BY <5>2, <5>3, LineHead
        <5>5. Head(bus[p]) = bus[p][1]
          BY <4>2, <5>4
        <5> QED BY <5>2, <5>4, <5>5
      <4> QED BY <4>1, <4>3, <4>4
    <3> QED BY <3>1, <3>2
  <2> QED BY <2>1, <2>2 DEF InStep
<1> QED BY <1>1, DmaInductive, PTL

=============================================================================
