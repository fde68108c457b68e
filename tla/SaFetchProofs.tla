---------------------------- MODULE SaFetchProofs -----------------------------
(***************************************************************************)
(* Theorems about the descriptor fetch unit for every size of its FIFO and *)
(* of a descriptor, every memory image and every program that submits      *)
(* lists: no beat ever finds the FIFO full, and what is decoded is what    *)
(* lies at the address the decoder believes it decodes.                    *)
(***************************************************************************)
EXTENDS SaFetch, Integers, SequenceTheorems, TLAPS

-----------------------------------------------------------------------------
(***************************************************************************)
(* Arithmetic of addresses and of words in descriptors.                    *)
(***************************************************************************)

\* The constants as the provers need them.
LEMMA Sizes ==
    /\ MaxOut \in Nat \ {0} /\ Words \in Nat \ {0}
    /\ Step \in Nat \ {0} /\ Modulus \in Nat \ {0}
    /\ Value = 0 .. Modulus - 1 /\ 0 \in Value /\ NoAddr \notin Value
BY FetchAssumption DEF Value

\* Quotient and remainder are the only numbers that make up the dividend.
LEMMA DivIs ==
    ASSUME NEW m \in Nat \ {0}, NEW q \in Int, NEW r \in 0 .. m - 1, NEW x \in Int,
           x = m * q + r
    PROVE  x % m = r /\ x \div m = q
<1> DEFINE s == x % m
           p == x \div m
<1>1. /\ s \in 0 .. m - 1 /\ p \in Int
      /\ x = m * p + s
  OBVIOUS
<1> HIDE DEF s, p
<1>2. m * (p - q) = r - s /\ p - q \in Int
  BY <1>1
<1> DEFINE d == p - q
           e == r - s
<1>3. m * d = e /\ d \in Int /\ e \in Int /\ -m < e /\ e < m
  BY <1>1, <1>2
<1>4. p = q + d
  BY <1>1
<1> HIDE DEF d, e
<1>5. d = 0 /\ e = 0
  BY <1>3
<1> QED BY <1>1, <1>4, <1>5 DEF e, s, p

\* Two ways to name one word: block and place in the block.
LEMMA SamePlace ==
    ASSUME NEW q \in Nat, NEW j \in 1 .. Words, NEW k \in Nat, NEW t \in 0 .. Words - 1,
           NEW i, i = q * Words + j, i = k * Words + t + 1
    PROVE  q = k /\ j = t + 1
<1>0. Words \in Nat \ {0}
  BY Sizes
<1> DEFINE x == Words * q + (j - 1)
           r == j - 1
<1>1. x \in Int /\ r \in 0 .. Words - 1 /\ x = Words * q + r /\ q \in Int /\ k \in Int
  BY <1>0
<1>2. x = Words * k + t
  BY <1>0
<1>3. r = t => j = t + 1
  BY <1>0
<1> HIDE DEF x, r
<1>4. x \div Words = q /\ x % Words = r
  BY <1>0, <1>1, DivIs
<1>5. x \div Words = k /\ x % Words = t
  BY <1>0, <1>1, <1>2, DivIs
<1> QED BY <1>3, <1>4, <1>5

\* The address n descriptors after a.
At(a, n) == (a + n * Step) % Modulus

LEMMA AtFacts ==
    ASSUME NEW a \in Value, NEW n \in Nat
    PROVE  At(a, n) \in Value /\ At(a, 0) = a /\ At(a, 1) = (a + Step) % Modulus
<1>1. a + n * Step \in Nat /\ a + 0 * Step = a /\ a + 1 * Step = a + Step
  BY Sizes
<1>2. a % Modulus = a
  BY Sizes
<1> QED BY <1>1, <1>2, Sizes DEF At

\* Addresses wrap around once, not twice.
LEMMA AtShift ==
    ASSUME NEW a \in Value, NEW m \in Nat, NEW n \in Nat
    PROVE  At(At(a, m), n) = At(a, m + n)
<1> DEFINE x == a + m * Step
           s == x % Modulus
           p == x \div Modulus
           y == s + n * Step
           v == y % Modulus
           u == y \div Modulus
           z == a + (m + n) * Step
<1>0. Modulus \in Nat \ {0} /\ Step \in Nat /\ a \in Nat
  BY Sizes
<1>1. x \in Nat /\ z \in Int /\ z = x + n * Step
  BY <1>0
<1> HIDE DEF x, z
<1>2. s \in 0 .. Modulus - 1 /\ p \in Int /\ x = Modulus * p + s
  BY <1>0, <1>1
<1> HIDE DEF s, p
<1>3. y \in Int
  BY <1>0, <1>2
<1>4. y = s + n * Step
  OBVIOUS
<1> HIDE DEF y
<1>5. v \in 0 .. Modulus - 1 /\ u \in Int /\ y = Modulus * u + v
  BY <1>0, <1>3
<1> HIDE DEF v, u
<1> DEFINE h == n * Step
<1>6. h \in Int
  BY <1>0
<1>7. z = x + h /\ y = s + h
  BY <1>1, <1>4
<1> HIDE DEF h
<1>8. z = Modulus * p + Modulus * u + v
  BY <1>0, <1>1, <1>2, <1>3, <1>5, <1>6, <1>7, SMTT(30)
<1>9. z = Modulus * (p + u) + v /\ p + u \in Int
  BY <1>0, <1>2, <1>5, <1>8
<1> DEFINE f == p + u
<1>11. z = Modulus * f + v /\ f \in Int
  BY <1>9
<1> HIDE DEF f
<1>12. Modulus \in Nat \ {0} /\ v \in 0 .. Modulus - 1 /\ z \in Int
  BY <1>0, <1>1, <1>5
<1>10. z % Modulus = v
  BY <1>11, <1>12, DivIs, Zenon
<1> QED BY <1>10 DEF At, z, v, y, s, x

-----------------------------------------------------------------------------
(***************************************************************************)
(* The words under way.  u is what has come (w and the FIFO), k blocks of  *)
(* it complete and t beats of the next; bs are the bursts accepted, a the  *)
(* address on AR, fa the next to ask for, all of them counted from the     *)
(* descriptor at d.                                                        *)
(***************************************************************************)
Entry == Value \X (1 .. Words)

Located(d, u, k, t, bs, a, fa) ==
    /\ d \in Value /\ u \in Seq(Entry) /\ k \in Nat /\ t \in 0 .. Words - 1
    /\ bs \in Seq(Value) /\ a \in Value \cup {NoAddr}
    /\ Len(u) = k * Words + t
    /\ \A q \in Nat, j \in 1 .. Words :
            q * Words + j <= Len(u) => u[q * Words + j] = <<At(d, q), j>>
    /\ \A j \in 1 .. Len(bs) : bs[j] = At(d, k + j - 1)
    /\ a # NoAddr => a = At(d, k + Len(bs))
    /\ fa = At(d, k + Len(bs) + (IF a = NoAddr THEN 0 ELSE 1))

\* With nothing under way the next address to ask for is the decoder's.
LEMMA LocatedEmpty ==
    ASSUME NEW d \in Value
    PROVE  Located(d, <<>>, 0, 0, <<>>, NoAddr, d)
<1>1. Words \in Nat \ {0} /\ 0 * Words = 0
  BY Sizes
<1>2. \A q \in Nat, j \in 1 .. Words : ~(q * Words + j <= 0)
  BY <1>1
<1>3. At(d, 0) = d
  BY AtFacts
<1>4. <<>> \in Seq(Entry) /\ <<>> \in Seq(Value) /\ Len(<<>>) = 0
  BY EmptySeq
<1> QED BY <1>1, <1>2, <1>3, <1>4 DEF Located

\* A descriptor is taken out at the front.
LEMMA LocatedDrop ==
    ASSUME NEW d, NEW u, NEW k, NEW t, NEW bs, NEW a, NEW fa,
           Located(d, u, k, t, bs, a, fa), Len(u) >= Words,
           NEW r \in Seq(Entry), Len(r) = Len(u) - Words,
           \A i \in 1 .. Len(r) : r[i] = u[i + Words]
    PROVE  Located(At(d, 1), r, k - 1, t, bs, a, fa)
<1>0. /\ Words \in Nat \ {0} /\ d \in Value /\ k \in Nat /\ t \in 0 .. Words - 1
      /\ Len(u) \in Nat /\ Len(bs) \in Nat /\ Len(u) = k * Words + t /\ Len(r) \in Nat
  BY Sizes DEF Located
<1>1. k >= 1 /\ k - 1 \in Nat
  <2>1. CASE k = 0
    BY <1>0, <2>1
  <2> QED BY <1>0, <2>1
<1>2. (k - 1) * Words = k * Words - Words
  BY <1>0, <1>1
<1>3. Len(r) = (k - 1) * Words + t
  BY <1>0, <1>2
<1>4. At(d, 1) \in Value /\ \A n \in Nat : At(At(d, 1), n) = At(d, 1 + n)
  <2>1. d \in Value /\ 1 \in Nat
    BY <1>0
  <2>2. At(d, 1) \in Value
    BY <2>1, AtFacts, Zenon
  <2> QED BY <2>1, <2>2, AtShift, Zenon
<1>5. ASSUME NEW q \in Nat, NEW j \in 1 .. Words, q * Words + j <= Len(r)
      PROVE  r[q * Words + j] = <<At(At(d, 1), q), j>>
  <2> DEFINE i == q * Words + j
  <2>1. i \in 1 .. Len(r)
    BY <1>0, <1>5
  <2>2. (q + 1) * Words + j = i + Words /\ q + 1 \in Nat
    BY <1>0
  <2> HIDE DEF i
  <2>3. (q + 1) * Words + j <= Len(u)
    BY <1>0, <2>1, <2>2
  <2>4. u[(q + 1) * Words + j] = <<At(d, q + 1), j>>
    BY <2>2, <2>3 DEF Located
  <2>5. r[i] = <<At(d, q + 1), j>>
    BY <2>1, <2>2, <2>4
  <2>6. 1 + q = q + 1
    OBVIOUS
  <2> QED BY <1>4, <2>5, <2>6 DEF i
<1>6. ASSUME NEW j \in 1 .. Len(bs)
      PROVE  bs[j] = At(At(d, 1), (k - 1) + j - 1)
  <2>1. (k - 1) + j - 1 \in Nat /\ 1 + ((k - 1) + j - 1) = k + j - 1
    BY <1>0, <1>1
  <2> QED BY <1>4, <2>1 DEF Located
<1>7. a # NoAddr => a = At(At(d, 1), (k - 1) + Len(bs))
  <2>1. (k - 1) + Len(bs) \in Nat /\ 1 + ((k - 1) + Len(bs)) = k + Len(bs)
    BY <1>0, <1>1
  <2> QED BY <1>4, <2>1 DEF Located
<1>8. fa = At(At(d, 1), (k - 1) + Len(bs) + (IF a = NoAddr THEN 0 ELSE 1))
  <2> DEFINE b == IF a = NoAddr THEN 0 ELSE 1
  <2>1. b \in {0, 1} /\ fa = At(d, k + Len(bs) + b)
    BY DEF Located
  <2> HIDE DEF b
  <2>2. ASSUME NEW m \in Nat
        PROVE  (k - 1) + Len(bs) + m \in Nat /\ 1 + ((k - 1) + Len(bs) + m) = k + Len(bs) + m
    <3>1. k - 1 \in Nat /\ Len(bs) \in Nat /\ k \in Nat
      BY <1>0, <1>1
    <3> QED BY <3>1, <2>2
  <2>3. fa = At(At(d, 1), (k - 1) + Len(bs) + b)
    <3>1. b \in Nat
      BY <2>1
    <3>2. (k - 1) + Len(bs) + b \in Nat /\ 1 + ((k - 1) + Len(bs) + b) = k + Len(bs) + b
      BY <3>1, <2>2, Zenon
    <3> QED BY <1>4, <2>1, <3>2, Zenon
  <2> QED BY <2>3 DEF b
<1>9. bs \in Seq(Value) /\ a \in Value \cup {NoAddr}
  BY DEF Located
<1> QED BY <1>0, <1>1, <1>3, <1>4, <1>5, <1>6, <1>7, <1>8, <1>9 DEF Located

\* A beat comes: the next word of the oldest burst (t1, k1, bs1: after it).
LEMMA LocatedBeat ==
    ASSUME NEW d, NEW u, NEW k, NEW t, NEW bs, NEW a, NEW fa,
           Located(d, u, k, t, bs, a, fa), bs # <<>>,
           NEW t1, t1 = IF t + 1 = Words THEN 0 ELSE t + 1,
           NEW k1, k1 = IF t + 1 = Words THEN k + 1 ELSE k,
           NEW bs1, bs1 = IF t + 1 = Words THEN Tail(bs) ELSE bs
    PROVE  Located(d, Append(u, <<Head(bs), t + 1>>), k1, t1, bs1, a, fa)
<1> DEFINE x == <<Head(bs), t + 1>>
           v == Append(u, x)
<1>0. /\ Words \in Nat \ {0} /\ d \in Value /\ k \in Nat /\ t \in 0 .. Words - 1
      /\ u \in Seq(Entry) /\ bs \in Seq(Value) /\ Len(u) = k * Words + t
      /\ Len(u) \in Nat /\ Len(bs) \in Nat /\ Len(bs) >= 1
      /\ a \in Value \cup {NoAddr}
  <2>1. /\ d \in Value /\ k \in Nat /\ t \in 0 .. Words - 1
        /\ u \in Seq(Entry) /\ bs \in Seq(Value) /\ Len(u) = k * Words + t
        /\ a \in Value \cup {NoAddr}
    BY Zenon DEF Located
  <2>2. Words \in Nat \ {0}
    BY Sizes
  <2>3. Len(bs) \in Nat /\ Len(bs) # 0
    BY <2>1, EmptySeq
  <2>4. Len(u) \in Nat
    BY <2>1
  <2> QED BY <2>1, <2>2, <2>3, <2>4
<1>1. Head(bs) = bs[1] /\ bs[1] = At(d, k) /\ bs[1] \in Value
  <2>1. 1 \in 1 .. Len(bs) /\ k + 1 - 1 = k
    BY <1>0
  <2> QED BY <1>0, <2>1 DEF Located
<1>2. x \in Entry
  BY <1>0, <1>1 DEF Entry
<1> HIDE DEF x
<1>3. v \in Seq(Entry) /\ Len(v) = Len(u) + 1 /\ v[Len(u) + 1] = x
      /\ \A i \in 1 .. Len(u) : v[i] = u[i]
  BY <1>0, <1>2
<1> HIDE DEF v
<1>4. k1 \in Nat /\ t1 \in 0 .. Words - 1 /\ Len(v) = k1 * Words + t1
  <2>1. CASE t + 1 = Words
    <3>1. (k + 1) * Words = k * Words + Words
      BY <1>0
    <3>2. k1 = k + 1 /\ t1 = 0
      BY <2>1
    <3> QED BY <1>0, <1>3, <2>1, <3>1, <3>2
  <2>2. CASE t + 1 # Words
    <3>1. k1 = k /\ t1 = t + 1
      BY <2>2
    <3> QED BY <1>0, <1>3, <2>2, <3>1
  <2> QED BY <2>1, <2>2
<1>5. ASSUME NEW q \in Nat, NEW j \in 1 .. Words, q * Words + j <= Len(v)
      PROVE  v[q * Words + j] = <<At(d, q), j>>
  <2> DEFINE i == q * Words + j
  <2>1. i \in Nat /\ i >= 1
    BY <1>0
  <2>2. CASE i <= Len(u)
    <3>1. i \in 1 .. Len(u)
      BY <1>0, <2>1, <2>2
    <3>2. u[q * Words + j] = <<At(d, q), j>>
      BY <2>2 DEF Located
    <3> QED BY <1>3, <3>1, <3>2
  <2>3. CASE ~(i <= Len(u))
    <3>1. i = Len(u) + 1
      BY <1>0, <1>3, <1>5, <2>1, <2>3
    <3>2. i = q * Words + j /\ i = k * Words + t + 1
      BY <1>0, <3>1
    <3>3. q = k /\ j = t + 1
      <4>1. q \in Nat /\ j \in 1 .. Words /\ k \in Nat /\ t \in 0 .. Words - 1
        BY <1>0
      <4> HIDE DEF i
      <4> QED BY <3>2, <4>1, SamePlace
    <3> QED BY <1>1, <1>3, <3>1, <3>3 DEF x
  <2> QED BY <2>2, <2>3
<1>6. /\ bs1 \in Seq(Value)
      /\ k1 + Len(bs1) = k + Len(bs)
      /\ \A j \in 1 .. Len(bs1) : bs1[j] = At(d, k1 + j - 1)
  <2>1. CASE t + 1 = Words
    <3>1. bs1 = Tail(bs) /\ k1 = k + 1
      BY <2>1
    <3>2. /\ bs1 \in Seq(Value) /\ Len(bs1) = Len(bs) - 1
          /\ \A j \in 1 .. Len(bs1) : bs1[j] = bs[j + 1]
      BY <1>0, <3>1
    <3>3. ASSUME NEW j \in 1 .. Len(bs1)
          PROVE  bs1[j] = At(d, k1 + j - 1)
      <4>1. j + 1 \in 1 .. Len(bs) /\ k1 + j - 1 = k + (j + 1) - 1
        BY <1>0, <3>1, <3>2
      <4>2. bs[j + 1] = At(d, k + (j + 1) - 1)
        BY <4>1 DEF Located
      <4> QED BY <3>2, <4>1, <4>2
    <3> QED BY <1>0, <3>1, <3>2, <3>3
  <2>2. CASE t + 1 # Words
    BY <1>0, <2>2 DEF Located
  <2> QED BY <2>1, <2>2
<1>7. a # NoAddr => a = At(d, k1 + Len(bs1))
  BY <1>6 DEF Located
<1>8. fa = At(d, k1 + Len(bs1) + (IF a = NoAddr THEN 0 ELSE 1))
  BY <1>6 DEF Located
<1>9. Located(d, v, k1, t1, bs1, a, fa)
  BY <1>0, <1>3, <1>4, <1>5, <1>6, <1>7, <1>8 DEF Located
<1> QED BY <1>9 DEF v, x

\* The slave accepts the address on AR.
LEMMA LocatedAccept ==
    ASSUME NEW d, NEW u, NEW k, NEW t, NEW bs, NEW a, NEW fa,
           Located(d, u, k, t, bs, a, fa), a # NoAddr
    PROVE  Located(d, u, k, t, Append(bs, a), NoAddr, fa)
<1> DEFINE b == Append(bs, a)
<1>0. k \in Nat /\ bs \in Seq(Value) /\ a \in Value /\ Len(bs) \in Nat
  BY DEF Located
<1>1. b \in Seq(Value) /\ Len(b) = Len(bs) + 1 /\ b[Len(bs) + 1] = a
      /\ \A j \in 1 .. Len(bs) : b[j] = bs[j]
  BY <1>0
<1> HIDE DEF b
<1>2. ASSUME NEW j \in 1 .. Len(b)
      PROVE  b[j] = At(d, k + j - 1)
  <2>1. CASE j \in 1 .. Len(bs)
    BY <1>1, <2>1 DEF Located
  <2>2. CASE j \notin 1 .. Len(bs)
    <3>1. j = Len(bs) + 1 /\ k + j - 1 = k + Len(bs)
      BY <1>0, <1>1, <2>2
    <3> QED BY <1>1, <3>1 DEF Located
  <2> QED BY <2>1, <2>2
<1>3. fa = At(d, k + Len(b) + 0)
  <2>1. k + Len(b) + 0 = k + Len(bs) + 1
    BY <1>0, <1>1
  <2> QED BY <2>1 DEF Located
<1>4. Located(d, u, k, t, b, NoAddr, fa)
  BY <1>1, <1>2, <1>3 DEF Located
<1> QED BY <1>4 DEF b

\* The next address is put on AR.
LEMMA LocatedIssue ==
    ASSUME NEW d, NEW u, NEW k, NEW t, NEW bs, NEW fa,
           Located(d, u, k, t, bs, NoAddr, fa)
    PROVE  Located(d, u, k, t, bs, fa, (fa + Step) % Modulus) /\ fa # NoAddr
<1>0. /\ k \in Nat /\ Len(bs) \in Nat /\ d \in Value /\ k + Len(bs) \in Nat
      /\ k + Len(bs) + 0 = k + Len(bs) /\ fa = At(d, k + Len(bs) + 0)
  BY DEF Located
<1>1. fa = At(d, k + Len(bs)) /\ 1 \in Nat
  BY <1>0
<1>2. fa \in Value
  BY <1>0, <1>1, AtFacts, Zenon
<1>3. At(fa, 1) = (fa + Step) % Modulus
  BY <1>1, <1>2, AtFacts, Zenon
<1>4. At(fa, 1) = At(d, k + Len(bs) + 1)
  <2>1. At(At(d, k + Len(bs)), 1) = At(d, k + Len(bs) + 1)
    BY <1>0, <1>1, AtShift, Zenon
  <2> QED BY <1>1, <2>1, Zenon
<1>5. fa # NoAddr
  BY <1>2, Sizes
<1> QED BY <1>1, <1>2, <1>3, <1>4, <1>5 DEF Located

\* Located says what InStep says.
LEMMA LocatedInStep ==
    ASSUME NEW k, Located(c.dec_addr, w \o fifo, k, beats, bursts, ar, c.fetch_addr)
    PROVE  InStep
<1> DEFINE coming == w \o fifo
           b == Len(coming)
           d == c.dec_addr
<1>0. /\ Words \in Nat \ {0} /\ k \in Nat /\ beats \in 0 .. Words - 1 /\ d \in Value
      /\ b \in Nat /\ b = k * Words + beats
  BY Sizes DEF Located
<1>1. \A q \in Nat, j \in 1 .. Words :
          q * Words + j <= b => coming[q * Words + j] = <<At(d, q), j>>
  BY DEF Located
<1>2. \A j \in 1 .. Len(bursts) : bursts[j] = At(d, k + j - 1)
  BY DEF Located
<1>3. c.fetch_addr = At(d, k + Len(bursts) + (IF ar = NoAddr THEN 0 ELSE 1))
  BY DEF Located
<1> HIDE DEF b, coming, d
<1>4. (b - beats) \div Words = k
  <2> DEFINE x == b - beats
  <2>1. x \in Int /\ x = Words * k + 0 /\ 0 \in 0 .. Words - 1 /\ k \in Int
    BY <1>0
  <2> HIDE DEF x
  <2>2. x \div Words = k
    BY <1>0, <2>1, DivIs
  <2> QED BY <2>2 DEF x
<1>5. ASSUME NEW i \in 1 .. b
      PROVE  coming[i] = <<(d + ((i - 1) \div Words) * Step) % Modulus, ((i - 1) % Words) + 1>>
  <2> DEFINE x == i - 1
             q == x \div Words
             r == x % Words
  <2>1. x \in Nat /\ i = x + 1
    BY <1>0
  <2> HIDE DEF x
  <2>2. q \in Nat /\ r \in 0 .. Words - 1 /\ x = Words * q + r
    BY <1>0, <2>1
  <2> HIDE DEF q, r
  <2>3. r + 1 \in 1 .. Words /\ q * Words + (r + 1) = i
    BY <1>0, <2>1, <2>2
  <2>4. q * Words + (r + 1) <= b
    BY <1>0, <2>3
  <2>5. coming[i] = <<At(d, q), r + 1>>
    BY <1>1, <2>2, <2>3, <2>4
  <2> QED BY <2>5 DEF At, q, r, x
<1> QED BY <1>2, <1>3, <1>4, <1>5, Zenon DEF InStep, At, b, coming, d

-----------------------------------------------------------------------------
(***************************************************************************)
(* The control registers: their types, as far as addresses depend on them, *)
(* and where an edge takes them.                                           *)
(***************************************************************************)
CtlFields ==
    {"state", "resume", "err", "fetch_addr", "dec_addr", "d", "pdone", "pkt",
     "count_lim", "st_exec", "fence_mask", "fenced", "lp", "cs", "regs", "sr", "sr_stop",
     "ldp", "ldp_pend", "ldp_err", "ldp_calc", "ldp_word"}

Busy == {"RUN", "FENCE", "SETREG"}

WritesOK(sr) == \E S : sr \in Seq(S) /\ \A x \in S : x.v \in Value
LdpOK(l) == l.a \in Value /\ l.k \in Reg /\ l.mul \in Value /\ l.add \in Value

CtlType(r) ==
    /\ DOMAIN r = CtlFields
    /\ r.state \in Busy \cup {"IDLE", "DRAIN", "LDP", "LDPW", "ERR"}
    /\ r.fetch_addr \in Value /\ r.dec_addr \in Value /\ r.cs \in Seq(Value)
    /\ r.regs \in [Reg -> Value] /\ IsDesc(r.d) /\ r.pdone \in Nat /\ r.ldp_word \in Value
    /\ WritesOK(r.sr) /\ (r.state = "SETREG" => r.sr # <<>>)
    /\ r.ldp_pend \/ r.state \in {"LDP", "LDPW"} => LdpOK(r.ldp)

\* n: the registers with the assignments common to all states.
Common(n) ==
    /\ CtlType(n) /\ n.state = c.state
    /\ n.fetch_addr = (IF issue THEN At(c.fetch_addr, 1) ELSE c.fetch_addr)
    /\ n.dec_addr = c.dec_addr /\ n.cs = c.cs /\ n.sr = c.sr /\ n.ldp = c.ldp
    /\ n.resume = c.resume /\ n.ldp_pend = c.ldp_pend /\ n.ldp_calc = c.ldp_calc

Before(set) ==
    [c EXCEPT !.err = "none",
              !.regs = IF set = <<>> THEN @ ELSE [@ EXCEPT ![set[1]] = set[2]],
              !.pkt = IF accepted THEN NoPkt ELSE @,
              !.fetch_addr = IF issue THEN (@ + Step) % Modulus ELSE @,
              !.d = IF pop /\ Len(w) = Words - 1
                    THEN Assembled(Append(w, Head(fifo))) ELSE @]

\* Whatever words come together, they decode to a descriptor or to an invalid one.
LEMMA AssembledDesc ==
    ASSUME image \in DOMAIN Images, NEW ws
    PROVE  IsDesc(Assembled(ws))
<1>1. IsDesc(Invalid)
  BY EmptySeq DEF IsDesc, Invalid, Ops
<1>2. \A a \in DOMAIN mem.desc : IsDesc(mem.desc[a])
  BY FetchAssumption DEF mem
<1> QED BY <1>1, <1>2, Zenon DEF Assembled

LEMMA BeforeCommon ==
    ASSUME CtlType(c), image \in DOMAIN Images,
           NEW set, set = <<>> \/ (set[1] \in Reg /\ set[2] \in Value)
    PROVE  Common(Before(set))
<1> DEFINE regs == IF set = <<>> THEN c.regs ELSE [c.regs EXCEPT ![set[1]] = set[2]]
           pkt == IF accepted THEN NoPkt ELSE c.pkt
           fa == IF issue THEN (c.fetch_addr + Step) % Modulus ELSE c.fetch_addr
           d == IF pop /\ Len(w) = Words - 1
                THEN Assembled(Append(w, Head(fifo))) ELSE c.d
           n == [c EXCEPT !.err = "none", !.regs = regs, !.pkt = pkt,
                          !.fetch_addr = fa, !.d = d]
<1>1. regs \in [Reg -> Value]
  BY DEF CtlType
<1>2. fa = (IF issue THEN At(c.fetch_addr, 1) ELSE c.fetch_addr) /\ fa \in Value
  <2>1. c.fetch_addr \in Value /\ 1 \in Nat
    BY DEF CtlType
  <2>2. At(c.fetch_addr, 1) \in Value /\ At(c.fetch_addr, 1) = (c.fetch_addr + Step) % Modulus
    BY <2>1, AtFacts, Zenon
  <2> QED BY <2>1, <2>2
<1>3. IsDesc(d)
  BY AssembledDesc, Zenon DEF CtlType
<1>4. Before(set) = n
  BY DEF Before, CtlType, CtlFields
<1> HIDE DEF regs, pkt, fa, d
<1>5. /\ DOMAIN n = CtlFields /\ n.regs = regs /\ n.fetch_addr = fa /\ n.d = d
      /\ n.state = c.state /\ n.dec_addr = c.dec_addr /\ n.cs = c.cs /\ n.sr = c.sr
      /\ n.ldp = c.ldp /\ n.resume = c.resume /\ n.ldp_pend = c.ldp_pend
      /\ n.ldp_calc = c.ldp_calc /\ n.pdone = c.pdone /\ n.ldp_word = c.ldp_word
  BY DEF CtlType, CtlFields
<1> HIDE DEF n
<1> QED BY <1>1, <1>2, <1>3, <1>4, <1>5 DEF Common, CtlType

\* Where an edge that works on a list can go: on, into a drain after which the
\* unit goes on at the address it decodes, or into an error.
Goes(r, n) ==
    /\ CtlType(r)
    /\ \/ r.state = "ERR"
       \/ r.state = "DRAIN" /\ (r.resume \/ r.ldp_pend => r.fetch_addr = r.dec_addr)
       \/ /\ r.state \in Busy /\ ~r.ldp_pend /\ r.fetch_addr = n.fetch_addr
          /\ r.dec_addr = IF consumed THEN At(c.dec_addr, 1) ELSE c.dec_addr

LEMMA FailGoes ==
    ASSUME NEW n, CtlType(n)
    PROVE  /\ CtlType(Fail(n)) /\ Fail(n).state = "ERR" /\ Fail(n).ldp_pend = n.ldp_pend
           /\ CtlType(ReadFail(n)) /\ ReadFail(n).state = "ERR" /\ ReadFail(n).ldp_pend = n.ldp_pend
<1>1. ASSUME NEW e
      PROVE  CtlType(Report(n, e)) /\ Report(n, e).state = "ERR" /\ Report(n, e).ldp_pend = n.ldp_pend
  <2> DEFINE f == Report(n, e)
  <2>1. /\ DOMAIN f = CtlFields /\ f.state = "ERR"
        /\ f.fetch_addr = n.fetch_addr /\ f.dec_addr = n.dec_addr
        /\ f.cs = n.cs /\ f.regs = n.regs /\ f.d = n.d
        /\ f.pdone = n.pdone /\ f.ldp_word = n.ldp_word /\ f.sr = n.sr
        /\ f.ldp_pend = n.ldp_pend /\ f.ldp = n.ldp
    BY DEF Report, CtlType, CtlFields
  <2> HIDE DEF f
  <2>2. CtlType(f)
    BY <2>1 DEF CtlType
  <2> QED BY <2>1, <2>2 DEF f
<1> QED BY <1>1, Zenon DEF Fail, ReadFail

LEMMA StopGoes ==
    ASSUME NEW n, CtlType(n), n.state \in Busy, NEW b \in BOOLEAN
    PROVE  /\ CtlType(Stop(n, b)) /\ Stop(n, b).state = "DRAIN" /\ Stop(n, b).resume = b
           /\ Stop(n, b).fetch_addr = n.fetch_addr /\ Stop(n, b).dec_addr = n.dec_addr
           /\ Stop(n, b).ldp_pend = n.ldp_pend
<1> DEFINE r == Stop(n, b)
<1>1. /\ DOMAIN r = CtlFields /\ r.state = "DRAIN" /\ r.resume = b
      /\ r.fetch_addr = n.fetch_addr /\ r.dec_addr = n.dec_addr
      /\ r.cs = n.cs /\ r.regs = n.regs /\ r.d = n.d
      /\ r.pdone = n.pdone /\ r.ldp_word = n.ldp_word /\ r.sr = n.sr
      /\ r.ldp_pend = n.ldp_pend /\ r.ldp = n.ldp
  BY DEF Stop, CtlType, CtlFields
<1> HIDE DEF r
<1>2. CtlType(r)
  BY <1>1 DEF CtlType, Busy
<1> QED BY <1>1, <1>2 DEF r

LEMMA StopHereGoes ==
    ASSUME NEW n, CtlType(n), n.state \in Busy
    PROVE  /\ CtlType(Stop(n, FALSE)) /\ Stop(n, FALSE).state = "DRAIN"
           /\ ~Stop(n, FALSE).resume /\ Stop(n, FALSE).ldp_pend = n.ldp_pend
<1> DEFINE r == Stop(n, FALSE)
<1>1. /\ DOMAIN r = CtlFields /\ r.state = "DRAIN" /\ r.resume = FALSE
      /\ r.fetch_addr = n.fetch_addr /\ r.dec_addr = n.dec_addr
      /\ r.cs = n.cs /\ r.regs = n.regs /\ r.d = n.d
      /\ r.pdone = n.pdone /\ r.ldp_word = n.ldp_word /\ r.sr = n.sr
      /\ r.ldp_pend = n.ldp_pend /\ r.ldp = n.ldp
  BY DEF Stop, CtlType, CtlFields
<1> HIDE DEF r
<1>2. CtlType(r)
  BY <1>1 DEF CtlType, Busy
<1> QED BY <1>1, <1>2 DEF r

LEMMA AbandonGoes ==
    ASSUME NEW n, CtlType(n)
    PROVE  /\ CtlType(Abandon(n)) /\ Abandon(n).state = "DRAIN"
           /\ Abandon(n).resume = FALSE /\ Abandon(n).ldp_pend = FALSE
<1> DEFINE r == Abandon(n)
<1>1. /\ DOMAIN r = CtlFields /\ r.state = "DRAIN" /\ r.resume = FALSE
      /\ r.fetch_addr = n.fetch_addr /\ r.dec_addr = n.dec_addr
      /\ r.cs = n.cs /\ r.regs = n.regs /\ r.d = n.d
      /\ r.pdone = n.pdone /\ r.ldp_word = n.ldp_word /\ r.sr = n.sr
      /\ r.ldp_pend = FALSE
  BY DEF Abandon, Stop, CtlType, CtlFields
<1> HIDE DEF r
<1>2. CtlType(r)
  BY <1>1 DEF CtlType, Busy
<1> QED BY <1>1, <1>2 DEF r

\* A register, or a few, of a working unit change that no address depends on.
LEMMA SameGoes ==
    ASSUME NEW n, CtlType(n), n.state \in Busy, ~n.ldp_pend, NEW r, DOMAIN r = CtlFields,
           r.state = n.state, r.fetch_addr = n.fetch_addr, r.dec_addr = n.dec_addr,
           r.cs = n.cs, r.regs \in [Reg -> Value], IsDesc(r.d), r.pdone \in Nat,
           r.ldp_word = n.ldp_word, r.sr = n.sr, r.ldp_pend = n.ldp_pend
    PROVE  CtlType(r)
BY DEF CtlType, Busy

\* A control transfer to an address (go of sa_cmdfetch.v).
LEMMA GoToGoes ==
    ASSUME NEW m, CtlType(m), m.state \in Busy, NEW target \in Value
    PROVE  /\ CtlType(GoTo(m, target)) /\ GoTo(m, target).state = "DRAIN"
           /\ GoTo(m, target).fetch_addr = GoTo(m, target).dec_addr
<1> DEFINE r == [m EXCEPT !.fetch_addr = target, !.dec_addr = target]
<1>1. /\ DOMAIN r = CtlFields /\ r.state = m.state /\ r.fetch_addr = target
      /\ r.dec_addr = target /\ r.cs = m.cs /\ r.regs = m.regs /\ r.d = m.d
      /\ r.pdone = m.pdone /\ r.ldp_word = m.ldp_word /\ r.sr = m.sr
      /\ r.ldp_pend = m.ldp_pend /\ r.ldp = m.ldp
  BY DEF CtlType, CtlFields
<1>2. GoTo(m, target) = Stop(r, ~limit_hit)
  BY DEF GoTo
<1> HIDE DEF r
<1>3. CtlType(r) /\ r.state \in Busy
  BY <1>1 DEF CtlType, Busy
<1>4. (~limit_hit) \in BOOLEAN
  BY DEF limit_hit
<1> DEFINE b == ~limit_hit
<1> HIDE DEF b
<1>5. b \in BOOLEAN /\ GoTo(m, target) = Stop(r, b)
  BY <1>2, <1>4 DEF b
<1>6. /\ CtlType(Stop(r, b)) /\ Stop(r, b).state = "DRAIN"
      /\ Stop(r, b).fetch_addr = r.fetch_addr /\ Stop(r, b).dec_addr = r.dec_addr
  BY <1>3, <1>5, StopGoes, Zenon
<1> QED BY <1>1, <1>5, <1>6

\* A dynamic slot leaves a descriptor a descriptor.
LEMMA PatchedDesc ==
    ASSUME NEW d, IsDesc(d), NEW s \in [f : Nat, k : Reg, add : BOOLEAN], f_ok(d, s),
           NEW regs \in [Reg -> Value]
    PROVE  IsDesc(Patched(d, s, regs))
<1> DEFINE old == d.f[s.f]
           v == (IF s.add THEN old + regs[s.k] ELSE regs[s.k]) % Modulus
           f == [d.f EXCEPT ![s.f] = v]
           r == Patched(d, s, regs)
<1>1. d.f \in Seq(Value) /\ s.f \in 1 .. Len(d.f) /\ s.k \in Reg /\ s.add \in BOOLEAN
  BY DEF IsDesc, f_ok
<1>2. old \in Nat /\ regs[s.k] \in Nat
  BY <1>1, Sizes
<1>3. v \in Value
  <2>1. old + regs[s.k] \in Nat
    BY <1>2
  <2> HIDE DEF old
  <2> QED BY <1>1, <1>2, <2>1, Sizes
<1>4. r = [d EXCEPT !.f = f]
  BY Zenon DEF Patched
<1> HIDE DEF v, old
<1>5. f \in Seq(Value) /\ Len(f) = Len(d.f) /\ (d.f # <<>> => f # <<>>)
  BY <1>1, <1>3, EmptySeq
<1> HIDE DEF f
<1>6. /\ DOMAIN r = {"op", "f", "dyn", "x"} /\ r.op = d.op /\ r.f = f
      /\ r.dyn = d.dyn /\ r.x = d.x
  BY <1>4 DEF IsDesc
<1> HIDE DEF r
<1> QED BY <1>5, <1>6 DEF IsDesc, r

\* An entry of a sequence.
LEMMA EntryOf ==
    ASSUME NEW S, NEW q \in Seq(S), NEW i \in 1 .. Len(q)
    PROVE  q[i] \in S
OBVIOUS

\* One slot per cycle.
LEMMA PatchGoes ==
    ASSUME CtlType(c), NEW n, Common(n), c.state = "RUN", ~c.ldp_pend, patching
    PROVE  Goes(Patch(n), n)
<1> DEFINE s == c.d.dyn[c.pdone + 1]
<1>1. CtlType(n) /\ n.state \in Busy /\ ~n.ldp_pend
  BY DEF Common, Busy
<1>2. CASE c.d.op = "NONE" \/ ~f_ok(c.d, s)
  BY <1>1, <1>2, FailGoes DEF Patch, Goes
<1>3. CASE ~(c.d.op = "NONE" \/ ~f_ok(c.d, s))
  <2> DEFINE d == Patched(c.d, s, c.regs)
             r == [n EXCEPT !.d = d, !.pdone = @ + 1]
  <2>1. c.d.dyn \in Seq([f : Nat, k : Reg, add : BOOLEAN]) /\ c.pdone \in Nat
    BY DEF CtlType, IsDesc
  <2>2. c.pdone + 1 \in 1 .. Len(c.d.dyn)
    BY <2>1 DEF patching
  <2>3. s \in [f : Nat, k : Reg, add : BOOLEAN]
    BY <2>1, <2>2, EntryOf, Zenon
  <2>4. f_ok(c.d, s) /\ IsDesc(c.d) /\ c.regs \in [Reg -> Value]
    BY <1>3 DEF CtlType
  <2> HIDE DEF s
  <2>5. IsDesc(d)
    BY <2>3, <2>4, PatchedDesc
  <2> HIDE DEF d
  <2>6. Patch(n) = r
    BY <1>3 DEF Patch, s, d
  <2>7. /\ DOMAIN r = CtlFields /\ r.state = n.state /\ r.fetch_addr = n.fetch_addr
        /\ r.dec_addr = n.dec_addr /\ r.cs = n.cs /\ r.regs = n.regs /\ r.d = d
        /\ r.pdone = n.pdone + 1 /\ r.ldp_word = n.ldp_word /\ r.sr = n.sr
        /\ r.ldp_pend = n.ldp_pend
    BY <1>1 DEF CtlType, CtlFields
  <2>8. r.regs \in [Reg -> Value] /\ r.pdone \in Nat
    BY <1>1, <2>7 DEF CtlType
  <2> HIDE DEF r
  <2>9. CtlType(r)
    BY <1>1, <2>5, <2>7, <2>8, SameGoes
  <2>10. ~consumed
    BY DEF consumed, decode
  <2> QED BY <1>1, <2>6, <2>7, <2>9, <2>10 DEF Goes, Common
<1> QED BY <1>2, <1>3

-----------------------------------------------------------------------------
(***************************************************************************)
(* The decoder.  m: the registers as a descriptor that is consumed leaves  *)
(* them, whatever it is.                                                   *)
(***************************************************************************)
Taken(m, n) ==
    /\ consumed /\ CtlType(m) /\ m.state = "RUN" /\ ~m.ldp_pend
    /\ m.fetch_addr = n.fetch_addr /\ m.dec_addr = At(c.dec_addr, 1) /\ m.cs = c.cs

\* A consumed descriptor that goes on, or stops the list here.
LEMMA OnGoes ==
    ASSUME NEW n, NEW m, Taken(m, n), NEW r, DOMAIN r = CtlFields,
           r.state \in Busy, r.fetch_addr = m.fetch_addr, r.dec_addr = m.dec_addr,
           r.cs = m.cs, r.regs \in [Reg -> Value], r.d = m.d, r.pdone = m.pdone,
           r.ldp_word = m.ldp_word, r.ldp_pend = m.ldp_pend,
           WritesOK(r.sr), r.state = "SETREG" => r.sr # <<>>
    PROVE  Goes(r, n) /\ Goes(Stop(r, FALSE), n) /\ CtlType(r)
<1>1. CtlType(r)
  BY DEF Taken, CtlType, Busy
<1>2. Goes(r, n)
  BY <1>1 DEF Goes, Taken
<1>3. ~r.ldp_pend
  BY DEF Taken
<1>4. Goes(Stop(r, FALSE), n)
  <2> DEFINE h == Stop(r, FALSE)
  <2>1. CtlType(h) /\ h.state = "DRAIN" /\ ~h.resume /\ h.ldp_pend = r.ldp_pend
    BY <1>1, StopHereGoes
  <2> HIDE DEF h
  <2>2. Goes(h, n)
    BY <1>3, <2>1 DEF Goes
  <2> QED BY <2>2 DEF h
<1> QED BY <1>1, <1>2, <1>4

LEMMA CmdGoes ==
    ASSUME NEW n, NEW m, Taken(m, n)
    PROVE  Goes(DecodeCmd(m), n)
<1> DEFINE p == cmd_pkt(c.d, c.regs)
           r == [m EXCEPT !.pkt = p]
<1>1. DecodeCmd(m) = IF limit_hit THEN Stop(r, FALSE) ELSE r
  BY DEF DecodeCmd
<1> HIDE DEF p
<1>2. /\ DOMAIN r = CtlFields /\ r.state = m.state /\ r.fetch_addr = m.fetch_addr
      /\ r.dec_addr = m.dec_addr /\ r.cs = m.cs /\ r.regs = m.regs /\ r.d = m.d
      /\ r.pdone = m.pdone /\ r.ldp_word = m.ldp_word /\ r.ldp_pend = m.ldp_pend
      /\ r.sr = m.sr
  BY DEF Taken, CtlType, CtlFields
<1> HIDE DEF r
<1>3. /\ r.state \in Busy /\ r.regs \in [Reg -> Value] /\ WritesOK(r.sr)
      /\ (r.state = "SETREG" => r.sr # <<>>)
  BY <1>2 DEF Taken, CtlType, Busy
<1> QED BY <1>1, <1>2, <1>3, OnGoes

\* A jump: to a field of the descriptor, or relative to it.
LEMMA JumpGoes ==
    ASSUME CtlType(c), NEW n, NEW m, CtlType(m), m.state \in Busy,
           c.d.op \in {"JUMP", "CALL"}
    PROVE  Goes(DecodeJump(m), n)
<1>1. c.d.f \in Seq(Value) /\ c.d.f # <<>> /\ c.dec_addr \in Value
  BY DEF CtlType, IsDesc
<1>2. c.d.f[1] \in Value
  <2>1. 1 \in 1 .. Len(c.d.f)
    BY <1>1, EmptySeq
  <2> QED BY <1>1, <2>1
<1>3. rel_tgt(c.dec_addr, c.d.f[1]) \in Value
  <2>1. c.d.f[1] \in Nat
    BY <1>2, Sizes
  <2>2. At(c.dec_addr, c.d.f[1]) \in Value
    BY <1>1, <2>1, AtFacts, Zenon
  <2> QED BY <2>2 DEF rel_tgt, At
<1>4. tgt(c.d, c.dec_addr) \in Value
  BY <1>2, <1>3 DEF tgt
<1>5. DecodeJump(m) = Fail(m) \/ DecodeJump(m) = GoTo(m, tgt(c.d, c.dec_addr))
  BY Zenon DEF DecodeJump
<1>6. Goes(Fail(m), n)
  BY FailGoes DEF Goes
<1>7. Goes(GoTo(m, tgt(c.d, c.dec_addr)), n)
  <2> DEFINE target == tgt(c.d, c.dec_addr)
  <2>1. target \in Value
    BY <1>4
  <2> HIDE DEF target
  <2>2. Goes(GoTo(m, target), n)
    BY <2>1, GoToGoes DEF Goes
  <2> QED BY <2>2 DEF target
<1> QED BY <1>5, <1>6, <1>7, Zenon

LEMMA CallGoes ==
    ASSUME CtlType(c), NEW n, NEW m, Taken(m, n), c.d.op = "CALL"
    PROVE  Goes(DecodeCall(m), n)
<1> DEFINE back == (c.dec_addr + Step) % Modulus
           cs == Append(m.cs, back)
           r == [m EXCEPT !.cs = cs]
<1>1. CtlType(m) /\ m.state = "RUN" /\ c.dec_addr \in Value
  BY DEF Taken, CtlType
<1>2. back \in Value
  BY <1>1, Sizes
<1> HIDE DEF back
<1>3. cs \in Seq(Value)
  BY <1>1, <1>2 DEF CtlType
<1>4. DecodeCall(m) = IF Len(c.cs) = Calls THEN Fail(m) ELSE DecodeJump(r)
  BY DEF DecodeCall, back, cs
<1> HIDE DEF cs
<1>5. /\ DOMAIN r = CtlFields /\ r.state = m.state /\ r.fetch_addr = m.fetch_addr
      /\ r.dec_addr = m.dec_addr /\ r.cs = cs /\ r.regs = m.regs /\ r.d = m.d
      /\ r.pdone = m.pdone /\ r.ldp_word = m.ldp_word /\ r.ldp_pend = m.ldp_pend
      /\ r.sr = m.sr /\ r.ldp = m.ldp
  BY <1>1 DEF CtlType, CtlFields
<1> HIDE DEF r
<1>6. CtlType(r) /\ r.state \in Busy
  BY <1>1, <1>3, <1>5 DEF CtlType, Busy
<1>7. Goes(DecodeJump(r), n)
  BY <1>6, JumpGoes
<1>8. Goes(Fail(m), n)
  BY <1>1, FailGoes DEF Goes
<1> QED BY <1>4, <1>7, <1>8, Zenon

LEMMA RetGoes ==
    ASSUME CtlType(c), NEW n, NEW m, Taken(m, n)
    PROVE  Goes(DecodeRet(m), n)
<1> DEFINE cs == Front(m.cs)
           r == [m EXCEPT !.cs = cs]
           target == Last(c.cs)
<1>1. CtlType(m) /\ m.state = "RUN" /\ m.cs = c.cs /\ c.cs \in Seq(Value)
  BY DEF Taken, CtlType
<1>2. CASE c.cs = <<>>
  BY <1>1, <1>2, FailGoes DEF DecodeRet, Goes
<1>3. CASE c.cs # <<>>
  <2>1. Len(c.cs) \in Nat /\ Len(c.cs) >= 1
    BY <1>1, <1>3, EmptySeq
  <2>2. target \in Value
    BY <1>1, <2>1 DEF Last
  <2>3. cs \in Seq(Value)
    <3>1. cs = SubSeq(c.cs, 1, Len(c.cs) - 1)
      BY <1>1 DEF Front
    <3> QED BY <1>1, <2>1, <3>1
  <2>4. DecodeRet(m) = GoTo(r, target)
    BY <1>3 DEF DecodeRet
  <2> HIDE DEF cs, target
  <2>5. /\ DOMAIN r = CtlFields /\ r.state = m.state /\ r.fetch_addr = m.fetch_addr
        /\ r.dec_addr = m.dec_addr /\ r.cs = cs /\ r.regs = m.regs /\ r.d = m.d
        /\ r.pdone = m.pdone /\ r.ldp_word = m.ldp_word /\ r.ldp_pend = m.ldp_pend
        /\ r.sr = m.sr /\ r.ldp = m.ldp
    BY <1>1 DEF CtlType, CtlFields
  <2> HIDE DEF r
  <2>6. CtlType(r) /\ r.state \in Busy
    BY <1>1, <2>3, <2>5 DEF CtlType, Busy
  <2> QED BY <2>2, <2>4, <2>6, GoToGoes DEF Goes
<1> QED BY <1>2, <1>3

\* The strides of LOOP_END leave PARAMs 32 bits wide.
LEMMA StridedRegs ==
    ASSUME NEW x, {x.v1, x.v2} \subseteq Value, {x.k1, x.k2} \subseteq Reg,
           NEW regs \in [Reg -> Value]
    PROVE  Strided(x, regs) \in [Reg -> Value]
<1> DEFINE a == (regs[x.k1] + x.v1 + x.v2) % Modulus
           b == (regs[x.k1] + x.v1) % Modulus
           d == (regs[x.k2] + x.v2) % Modulus
<1>1. regs[x.k1] \in Nat /\ regs[x.k2] \in Nat /\ x.v1 \in Nat /\ x.v2 \in Nat
  BY Sizes
<1>2. a \in Value /\ b \in Value /\ d \in Value
  <2>1. ASSUME NEW p \in Nat, NEW q \in Nat, NEW s \in Nat
        PROVE  (p + q + s) % Modulus \in Value /\ (p + q) % Modulus \in Value
    BY Sizes
  <2> QED BY <1>1, <2>1, Zenon
<1>3. x.k1 = x.k2 => Strided(x, regs) = [regs EXCEPT ![x.k1] = a]
  BY DEF Strided
<1>4. x.k1 # x.k2 => Strided(x, regs) = [regs EXCEPT ![x.k1] = b, ![x.k2] = d]
  BY DEF Strided
<1> HIDE DEF a, b, d
<1> QED BY <1>2, <1>3, <1>4

LEMMA LoopEndGoes ==
    ASSUME CtlType(c), NEW n, NEW m, Taken(m, n), c.d.op = "LOOP_END"
    PROVE  Goes(DecodeLoopEnd(m), n)
<1> DEFINE lp_match == c.lp # <<>> /\ Last(c.lp).addr = c.dec_addr
           lp_cur   == IF lp_match THEN Last(c.lp).rem ELSE c.d.f[1]
           outer    == IF lp_match THEN Front(c.lp) ELSE c.lp
           entry    == [addr |-> c.dec_addr, rem |-> lp_cur - 1]
           regs     == Strided(c.d.x, c.regs)
           target   == rel_tgt(c.dec_addr, c.d.x.off)
           o(l)     == [m EXCEPT !.regs = regs, !.lp = l]
           inner    == Append(outer, entry)
<1>1. CtlType(m) /\ m.state = "RUN" /\ c.dec_addr \in Value /\ ~m.ldp_pend
  BY DEF Taken, CtlType
<1>2. regs \in [Reg -> Value]
  BY StridedRegs DEF CtlType, IsDesc
<1>3. target \in Value
  <2>1. c.d.x.off \in Nat
    BY Sizes DEF CtlType, IsDesc
  <2>2. At(c.dec_addr, c.d.x.off) \in Value
    BY <1>1, <2>1, AtFacts, Zenon
  <2> QED BY <2>2 DEF rel_tgt, At
<1>4. \/ DecodeLoopEnd(m) = Fail(m)
      \/ DecodeLoopEnd(m) = GoTo([[m EXCEPT !.regs = regs] EXCEPT !.lp = inner], target)
      \/ DecodeLoopEnd(m) = Stop([[m EXCEPT !.regs = regs] EXCEPT !.lp = outer], FALSE)
      \/ DecodeLoopEnd(m) = [[m EXCEPT !.regs = regs] EXCEPT !.lp = outer]
  BY Zenon DEF DecodeLoopEnd
<1> HIDE DEF regs, target, inner, outer
<1>5. \/ DecodeLoopEnd(m) = Fail(m)
      \/ DecodeLoopEnd(m) = GoTo(o(inner), target)
      \/ DecodeLoopEnd(m) = Stop(o(outer), FALSE)
      \/ DecodeLoopEnd(m) = o(outer)
  BY <1>4 DEF o
<1>6. ASSUME NEW l
      PROVE  /\ DOMAIN o(l) = CtlFields /\ o(l).state = m.state
             /\ o(l).fetch_addr = m.fetch_addr /\ o(l).dec_addr = m.dec_addr
             /\ o(l).cs = m.cs /\ o(l).regs = regs /\ o(l).d = m.d
             /\ o(l).pdone = m.pdone /\ o(l).ldp_word = m.ldp_word
             /\ o(l).ldp_pend = m.ldp_pend /\ o(l).sr = m.sr
  BY <1>1 DEF CtlType, CtlFields
<1> HIDE DEF o
<1>7. ASSUME NEW l
      PROVE  /\ CtlType(o(l)) /\ o(l).state \in Busy
             /\ Goes(o(l), n) /\ Goes(Stop(o(l), FALSE), n)
  <2> DEFINE r == o(l)
  <2>1. /\ r.state \in Busy /\ r.regs \in [Reg -> Value] /\ WritesOK(r.sr)
        /\ (r.state = "SETREG" => r.sr # <<>>)
    BY <1>1, <1>2, <1>6 DEF CtlType, Busy
  <2>2. /\ DOMAIN r = CtlFields /\ r.fetch_addr = m.fetch_addr /\ r.dec_addr = m.dec_addr
        /\ r.cs = m.cs /\ r.d = m.d /\ r.pdone = m.pdone /\ r.ldp_word = m.ldp_word
        /\ r.ldp_pend = m.ldp_pend
    BY <1>6
  <2> HIDE DEF r
  <2>3. CtlType(r) /\ Goes(r, n) /\ Goes(Stop(r, FALSE), n)
    BY <2>1, <2>2, OnGoes
  <2> QED BY <2>1, <2>3 DEF r
<1>8. Goes(GoTo(o(inner), target), n)
  BY <1>3, <1>7, GoToGoes DEF Goes
<1>9. Goes(Fail(m), n)
  BY <1>1, FailGoes DEF Goes
<1> QED BY <1>5, <1>7, <1>8, <1>9, Zenon

\* The three items of SETREG: their values are fields of the descriptor.
LEMMA WritesOfDesc ==
    ASSUME NEW d, IsDesc(d), d.op = "SETREG"
    PROVE  WritesOK(Writes(d)) /\ Writes(d) # <<>>
<1> DEFINE k == Len(d.x.e)
           item(i) == [en |-> d.x.e[i].en, r |-> d.x.e[i].r, add |-> d.x.e[i].add,
                       v |-> d.f[i]]
           S == {item(i) : i \in 1 .. k}
<1>1. k \in 1 .. Len(d.f) /\ d.f \in Seq(Value)
  BY DEF IsDesc
<1>2. ASSUME NEW i \in 1 .. k
      PROVE  item(i).v \in Value
  <2>1. i \in 1 .. Len(d.f)
    BY <1>1
  <2> QED BY <1>1, <2>1
<1>3. Writes(d) = [i \in 1 .. k |-> item(i)]
  BY DEF Writes
<1> HIDE DEF k, item
<1>4. Writes(d) \in Seq(S) /\ Len(Writes(d)) = k
  BY <1>1, <1>3
<1>5. Writes(d) # <<>>
  BY <1>1, <1>4, EmptySeq
<1>6. \A x \in S : x.v \in Value
  BY <1>2
<1> HIDE DEF S
<1> QED BY <1>4, <1>5, <1>6 DEF WritesOK

LEMMA SetRegGoes ==
    ASSUME CtlType(c), NEW n, NEW m, Taken(m, n), c.d.op = "SETREG"
    PROVE  Goes(DecodeSetReg(m), n)
<1> DEFINE sr == Writes(c.d)
           r == [m EXCEPT !.sr = sr, !.sr_stop = limit_hit, !.state = "SETREG"]
<1>1. CtlType(m) /\ DecodeSetReg(m) = r
  BY DEF Taken, DecodeSetReg
<1>2. WritesOK(sr) /\ sr # <<>>
  BY WritesOfDesc DEF CtlType
<1> HIDE DEF sr
<1>3. /\ DOMAIN r = CtlFields /\ r.state = "SETREG" /\ r.fetch_addr = m.fetch_addr
      /\ r.dec_addr = m.dec_addr /\ r.cs = m.cs /\ r.regs = m.regs /\ r.d = m.d
      /\ r.pdone = m.pdone /\ r.ldp_word = m.ldp_word /\ r.ldp_pend = m.ldp_pend
      /\ r.sr = sr
  BY <1>1 DEF CtlType, CtlFields
<1> HIDE DEF r
<1>4. r.state \in Busy /\ r.regs \in [Reg -> Value]
  BY <1>1, <1>3 DEF CtlType, Busy
<1> QED BY <1>1, <1>2, <1>3, <1>4, OnGoes

\* LDPARAM drains what was prefetched and refetches from behind itself.
LEMMA LdParamGoes ==
    ASSUME CtlType(c), NEW n, NEW m, Taken(m, n), c.d.op = "LDPARAM"
    PROVE  Goes(DecodeLdParam(m), n)
<1> DEFINE a == ddr(c.d, c.regs)
           l == [a |-> a, k |-> c.d.x.k, mul |-> c.d.x.mul, add |-> c.d.x.add,
                 stop |-> limit_hit]
           fa == (c.dec_addr + Step) % Modulus
           r == [m EXCEPT !.ldp = l, !.ldp_pend = TRUE, !.fetch_addr = fa]
<1>1. CtlType(m) /\ m.state = "RUN" /\ m.dec_addr = At(c.dec_addr, 1) /\ c.dec_addr \in Value
  BY DEF Taken, CtlType
<1>2. fa = At(c.dec_addr, 1) /\ fa \in Value
  <2>1. 1 \in Nat
    OBVIOUS
  <2> QED BY <1>1, <2>1, AtFacts, Zenon
<1>3. a \in Value
  <2> DEFINE base == IF c.d.x.reloc THEN c.regs[c.d.x.base] ELSE 0
             f == c.d.f[1]
  <2>1. c.d.f \in Seq(Value) /\ c.d.f # <<>> /\ c.regs \in [Reg -> Value]
        /\ (c.d.x.reloc => c.d.x.base \in Reg)
    BY DEF CtlType, IsDesc
  <2>2. 1 \in 1 .. Len(c.d.f)
    BY <2>1, EmptySeq
  <2>3. f \in Nat /\ base \in Nat
    BY <2>1, <2>2, Sizes
  <2>4. a = (f + base) % Modulus
    BY DEF ddr
  <2> HIDE DEF f, base
  <2> QED BY <2>3, <2>4, Sizes
<1>4. c.d.x.k \in Reg /\ c.d.x.mul \in Value /\ c.d.x.add \in Value
  BY DEF CtlType, IsDesc
<1>5. DecodeLdParam(m) = Fail(m) \/ DecodeLdParam(m) = Stop(r, TRUE)
  BY Zenon DEF DecodeLdParam
<1> HIDE DEF a, fa
<1>6. LdpOK(l)
  BY <1>3, <1>4 DEF LdpOK
<1> HIDE DEF l
<1>7. /\ DOMAIN r = CtlFields /\ r.state = m.state /\ r.fetch_addr = fa
      /\ r.dec_addr = m.dec_addr /\ r.cs = m.cs /\ r.regs = m.regs /\ r.d = m.d
      /\ r.pdone = m.pdone /\ r.ldp_word = m.ldp_word /\ r.ldp_pend = TRUE
      /\ r.sr = m.sr /\ r.ldp = l
  BY <1>1 DEF CtlType, CtlFields
<1> HIDE DEF r
<1>8. CtlType(r) /\ r.state \in Busy
  BY <1>1, <1>2, <1>6, <1>7 DEF CtlType, Busy
<1>9. Goes(Stop(r, TRUE), n)
  <2> DEFINE h == Stop(r, TRUE)
  <2>1. /\ CtlType(h) /\ h.state = "DRAIN" /\ h.fetch_addr = r.fetch_addr
        /\ h.dec_addr = r.dec_addr
    <3>1. TRUE \in BOOLEAN
      OBVIOUS
    <3> QED BY <1>8, <3>1, StopGoes, Zenon
  <2> HIDE DEF h
  <2>2. Goes(h, n)
    BY <1>1, <1>2, <1>7, <2>1 DEF Goes
  <2> QED BY <2>2 DEF h
<1>10. Goes(Fail(m), n)
  BY <1>1, FailGoes DEF Goes
<1> QED BY <1>5, <1>9, <1>10, Zenon

\* The decoder's case analysis.
LEMMA DecodeGoes ==
    ASSUME CtlType(c), NEW n, Common(n), c.state = "RUN", ~c.ldp_pend, decode, ~sched_err
    PROVE  Goes(Decode(n), n)
<1> DEFINE da == (n.dec_addr + Step) % Modulus
           ex == n.st_exec + 1
           m == [n EXCEPT !.st_exec = ex, !.dec_addr = da, !.fenced = FALSE, !.pdone = 0,
                          !.d = Invalid]
           f == [n EXCEPT !.fence_mask = {}, !.fenced = TRUE, !.state = "FENCE"]
           g == [m EXCEPT !.fence_mask = c.d.x.mask, !.state = "FENCE"]
<1>1. /\ CtlType(n) /\ n.state = "RUN" /\ ~n.ldp_pend /\ n.dec_addr = c.dec_addr
      /\ n.cs = c.cs /\ c.dec_addr \in Value
  BY DEF Common, CtlType
<1>2. da = At(c.dec_addr, 1) /\ da \in Value
  <2>1. 1 \in Nat
    OBVIOUS
  <2>2. da = (c.dec_addr + Step) % Modulus
    BY <1>1
  <2> HIDE DEF da
  <2> QED BY <1>1, <2>1, <2>2, AtFacts, Zenon
<1>3. Decode(n) =
        IF c.d.op = "NONE" THEN Fail(n)
        ELSE IF ~consumed THEN f
        ELSE CASE c.d.op = "CMD" -> DecodeCmd(m)
               [] c.d.op = "FENCE" -> g
               [] c.d.op = "JUMP" -> DecodeJump(m)
               [] c.d.op = "CALL" -> DecodeCall(m)
               [] c.d.op = "RET" -> DecodeRet(m)
               [] c.d.op = "SETREG" -> DecodeSetReg(m)
               [] c.d.op = "LOOP_END" -> DecodeLoopEnd(m)
               [] c.d.op = "LDPARAM" -> DecodeLdParam(m)
               [] c.d.op = "END" -> Stop(m, FALSE)
  BY Zenon DEF Decode
<1> HIDE DEF da, ex
<1>4. IsDesc(Invalid)
  BY EmptySeq DEF IsDesc, Invalid, Ops
<1>5. /\ DOMAIN m = CtlFields /\ m.state = "RUN" /\ m.fetch_addr = n.fetch_addr
      /\ m.dec_addr = da /\ m.cs = n.cs /\ m.regs = n.regs /\ m.d = Invalid
      /\ m.pdone = 0 /\ m.ldp_word = n.ldp_word /\ m.ldp_pend = n.ldp_pend
      /\ m.sr = n.sr /\ m.ldp = n.ldp
  BY <1>1 DEF CtlType, CtlFields
<1>6. /\ DOMAIN f = CtlFields /\ f.state = "FENCE" /\ f.fetch_addr = n.fetch_addr
      /\ f.dec_addr = n.dec_addr /\ f.cs = n.cs /\ f.regs = n.regs /\ f.d = n.d
      /\ f.pdone = n.pdone /\ f.ldp_word = n.ldp_word /\ f.ldp_pend = n.ldp_pend
      /\ f.sr = n.sr /\ f.ldp = n.ldp
  BY <1>1 DEF CtlType, CtlFields
<1> HIDE DEF m, f
<1>7. CtlType(m) /\ CtlType(f)
  BY <1>1, <1>2, <1>4, <1>5, <1>6 DEF CtlType, Busy
<1>8. /\ DOMAIN g = CtlFields /\ g.state = "FENCE" /\ g.fetch_addr = m.fetch_addr
      /\ g.dec_addr = m.dec_addr /\ g.cs = m.cs /\ g.regs = m.regs /\ g.d = m.d
      /\ g.pdone = m.pdone /\ g.ldp_word = m.ldp_word /\ g.ldp_pend = m.ldp_pend
      /\ g.sr = m.sr
  BY <1>7 DEF CtlType, CtlFields
<1> HIDE DEF g
<1>9. CASE c.d.op = "NONE"
  BY <1>1, <1>3, <1>9, FailGoes DEF Goes
<1>10. CASE c.d.op # "NONE" /\ ~consumed
  BY <1>1, <1>3, <1>6, <1>7, <1>10 DEF Goes, Busy
<1>11. CASE c.d.op # "NONE" /\ consumed
  <2>1. Taken(m, n)
    BY <1>1, <1>2, <1>5, <1>7, <1>11 DEF Taken
  <2>2. CASE c.d.op = "CMD"
    BY <1>3, <1>11, <2>1, <2>2, CmdGoes
  <2>3. CASE c.d.op = "FENCE"
    <3>1. /\ g.state \in Busy /\ g.regs \in [Reg -> Value] /\ WritesOK(g.sr)
          /\ (g.state = "SETREG" => g.sr # <<>>)
      BY <1>7, <1>8 DEF CtlType, Busy
    <3>2. Goes(g, n)
      BY <1>8, <2>1, <3>1, OnGoes
    <3> QED BY <1>3, <1>11, <2>3, <3>2
  <2>4. CASE c.d.op = "JUMP"
    <3>1. m.state \in Busy
      BY <1>5 DEF Busy
    <3>2. Goes(DecodeJump(m), n)
      BY <1>7, <2>4, <3>1, JumpGoes
    <3> QED BY <1>3, <1>11, <2>4, <3>2
  <2>5. CASE c.d.op = "CALL"
    BY <1>3, <1>11, <2>1, <2>5, CallGoes
  <2>6. CASE c.d.op = "RET"
    BY <1>3, <1>11, <2>1, <2>6, RetGoes
  <2>7. CASE c.d.op = "SETREG"
    BY <1>3, <1>11, <2>1, <2>7, SetRegGoes
  <2>8. CASE c.d.op = "LOOP_END"
    BY <1>3, <1>11, <2>1, <2>8, LoopEndGoes
  <2>9. CASE c.d.op = "LDPARAM"
    BY <1>3, <1>11, <2>1, <2>9, LdParamGoes
  <2>10. CASE c.d.op = "END"
    <3>1. /\ m.state \in Busy /\ m.regs \in [Reg -> Value] /\ WritesOK(m.sr)
          /\ (m.state = "SETREG" => m.sr # <<>>)
      BY <1>5, <1>7 DEF CtlType, Busy
    <3>2. Goes(Stop(m, FALSE), n)
      BY <1>5, <2>1, <3>1, OnGoes
    <3> QED BY <1>3, <1>11, <2>10, <3>2
  <2> QED BY <1>11, <2>2, <2>3, <2>4, <2>5, <2>6, <2>7, <2>8, <2>9, <2>10
          DEF CtlType, IsDesc, Ops
<1> QED BY <1>9, <1>10, <1>11

\* A working unit that does nothing.
LEMMA StayGoes ==
    ASSUME NEW n, Common(n), c.state \in Busy, ~c.ldp_pend, ~consumed
    PROVE  Goes(n, n)
BY DEF Common, Goes

LEMMA RunGoes ==
    ASSUME CtlType(c), NEW n, Common(n), c.state = "RUN", ~c.ldp_pend
    PROVE  Goes(StateRun(n), n)
<1>1. CtlType(n) /\ n.state = "RUN"
  BY DEF Common
<1>2. CASE sched_err
  <2> DEFINE r == [n EXCEPT !.state = "ERR"]
  <2>1. /\ DOMAIN r = CtlFields /\ r.state = "ERR" /\ r.fetch_addr = n.fetch_addr
        /\ r.dec_addr = n.dec_addr /\ r.cs = n.cs /\ r.regs = n.regs /\ r.d = n.d
        /\ r.pdone = n.pdone /\ r.ldp_word = n.ldp_word /\ r.ldp_pend = n.ldp_pend
        /\ r.sr = n.sr /\ r.ldp = n.ldp
    BY <1>1 DEF CtlType, CtlFields
  <2>2. StateRun(n) = r
    BY <1>2 DEF StateRun
  <2> HIDE DEF r
  <2> QED BY <1>1, <2>1, <2>2 DEF Goes, CtlType, Busy
<1>3. CASE ~sched_err /\ patching /\ c.pkt = NoPkt
  BY <1>3, PatchGoes DEF StateRun
<1>4. CASE ~sched_err /\ ~(patching /\ c.pkt = NoPkt) /\ decode
  BY <1>4, DecodeGoes DEF StateRun
<1>5. CASE ~sched_err /\ ~(patching /\ c.pkt = NoPkt) /\ ~decode
  <2>1. ~consumed /\ c.state \in Busy
    BY <1>5 DEF consumed, Busy
  <2> QED BY <1>5, <2>1, StayGoes DEF StateRun
<1> QED BY <1>2, <1>3, <1>4, <1>5

\* A working unit whose scheduler reports an error.
LEMMA ErrGoes ==
    ASSUME NEW n, CtlType(n)
    PROVE  Goes([n EXCEPT !.state = "ERR"], n)
<1> DEFINE r == [n EXCEPT !.state = "ERR"]
<1>1. /\ DOMAIN r = CtlFields /\ r.state = "ERR" /\ r.fetch_addr = n.fetch_addr
      /\ r.dec_addr = n.dec_addr /\ r.cs = n.cs /\ r.regs = n.regs /\ r.d = n.d
      /\ r.pdone = n.pdone /\ r.ldp_word = n.ldp_word /\ r.ldp_pend = n.ldp_pend
      /\ r.sr = n.sr /\ r.ldp = n.ldp
  BY DEF CtlType, CtlFields
<1> HIDE DEF r
<1>2. Goes(r, n)
  BY <1>1 DEF Goes, CtlType, Busy
<1> QED BY <1>2 DEF r

\* A register write of SETREG leaves PARAMs 32 bits wide.
LEMMA WrittenRegs ==
    ASSUME NEW e, e.v \in Value, ~BadReg(e), NEW regs \in [Reg -> Value]
    PROVE  Written(e, regs) \in [Reg -> Value]
<1> DEFINE v == (IF e.add THEN regs[e.r] + e.v ELSE e.v) % Modulus
<1>1. CASE e.en
  <2>1. e.r \in Reg
    BY <1>1 DEF BadReg
  <2>2. regs[e.r] \in Nat /\ e.v \in Nat
    BY <2>1, Sizes
  <2>3. v \in Value
    <3> DEFINE o == regs[e.r]
               u == e.v
    <3>1. o \in Nat /\ u \in Nat /\ v = (IF e.add THEN o + u ELSE u) % Modulus
      BY <2>2
    <3> HIDE DEF o, u, v
    <3>2. v = (o + u) % Modulus \/ v = u % Modulus
      BY <3>1
    <3>3. o + u \in Nat
      BY <3>1
    <3> QED BY <3>1, <3>2, <3>3, Sizes
  <2>4. Written(e, regs) = [regs EXCEPT ![e.r] = v]
    BY <1>1 DEF Written
  <2> HIDE DEF v
  <2> QED BY <2>3, <2>4
<1>2. CASE ~e.en
  BY <1>2 DEF Written
<1> QED BY <1>1, <1>2

LEMMA StateSetRegGoes ==
    ASSUME CtlType(c), NEW n, Common(n), c.state = "SETREG", ~c.ldp_pend
    PROVE  Goes(StateSetReg(n), n)
<1> DEFINE e == Head(c.sr)
           regs == Written(e, n.regs)
           sr == Tail(n.sr)
           m == [n EXCEPT !.regs = regs, !.sr = sr]
           r == [m EXCEPT !.state = "RUN"]
<1>1. /\ CtlType(n) /\ n.state = "SETREG" /\ ~n.ldp_pend /\ n.sr = c.sr /\ c.sr # <<>>
      /\ n.dec_addr = c.dec_addr /\ WritesOK(c.sr)
  BY DEF Common, CtlType
<1>2. PICK S : c.sr \in Seq(S) /\ \A x \in S : x.v \in Value
  BY <1>1 DEF WritesOK
<1>3. Len(c.sr) \in Nat /\ Len(c.sr) >= 1
  BY <1>1, <1>2, EmptySeq
<1>4. e.v \in Value
  <2>1. c.sr[1] \in S /\ e = c.sr[1]
    BY <1>2, <1>3
  <2> QED BY <1>2, <2>1
<1>5. sr \in Seq(S) /\ Len(sr) = Len(c.sr) - 1
  BY <1>1, <1>2, <1>3
<1>6. WritesOK(sr) /\ (Len(c.sr) > 1 => sr # <<>>)
  <2> HIDE DEF sr
  <2>1. WritesOK(sr)
    BY <1>2, <1>5 DEF WritesOK
  <2>2. Len(c.sr) > 1 => Len(sr) # 0
    <3> DEFINE x == Len(c.sr)
               y == Len(sr)
    <3>1. x \in Nat /\ y = x - 1
      BY <1>3, <1>5
    <3> HIDE DEF x, y
    <3>2. x > 1 => y # 0
      BY <3>1
    <3> QED BY <3>2 DEF x, y
  <2>3. Len(<<>>) = 0
    BY EmptySeq
  <2> QED BY <2>1, <2>2, <2>3
<1>7. ~consumed
  BY DEF consumed, decode
<1>8. \/ BadReg(e) /\ StateSetReg(n) = Fail(n)
      \/ ~BadReg(e) /\ Len(c.sr) > 1 /\ StateSetReg(n) = m
      \/ ~BadReg(e) /\ StateSetReg(n) = Stop(m, FALSE)
      \/ ~BadReg(e) /\ StateSetReg(n) = r
  BY Zenon DEF StateSetReg
<1>9. CASE BadReg(e) /\ StateSetReg(n) = Fail(n)
  BY <1>1, <1>9, FailGoes DEF Goes
<1>10. CASE ~BadReg(e)
  <2>1. regs \in [Reg -> Value]
    <3>1. n.regs \in [Reg -> Value]
      BY <1>1 DEF CtlType
    <3> QED BY <1>4, <1>10, <3>1, WrittenRegs, Zenon
  <2> HIDE DEF e, regs, sr
  <2>2. /\ DOMAIN m = CtlFields /\ m.state = "SETREG" /\ m.fetch_addr = n.fetch_addr
        /\ m.dec_addr = n.dec_addr /\ m.cs = n.cs /\ m.regs = regs /\ m.d = n.d
        /\ m.pdone = n.pdone /\ m.ldp_word = n.ldp_word /\ m.ldp_pend = n.ldp_pend
        /\ m.sr = sr /\ m.ldp = n.ldp
    BY <1>1 DEF CtlType, CtlFields
  <2>3. /\ DOMAIN r = CtlFields /\ r.state = "RUN" /\ r.fetch_addr = n.fetch_addr
        /\ r.dec_addr = n.dec_addr /\ r.cs = n.cs /\ r.regs = regs /\ r.d = n.d
        /\ r.pdone = n.pdone /\ r.ldp_word = n.ldp_word /\ r.ldp_pend = n.ldp_pend
        /\ r.sr = sr /\ r.ldp = n.ldp
    BY <1>1 DEF CtlType, CtlFields
  <2>4. CASE Len(c.sr) > 1 /\ StateSetReg(n) = m
    <3> HIDE DEF m
    <3>1. CtlType(m)
      BY <1>1, <1>6, <2>1, <2>2, <2>4 DEF CtlType, Busy
    <3> QED BY <1>1, <1>7, <2>2, <2>4, <3>1 DEF Goes, Busy
  <2>5. CASE StateSetReg(n) = r
    <3> HIDE DEF r, m
    <3>1. CtlType(r)
      BY <1>1, <1>6, <2>1, <2>3, <2>5 DEF CtlType, Busy
    <3> QED BY <1>1, <1>7, <2>3, <2>5, <3>1 DEF Goes, Busy
  <2>6. CASE StateSetReg(n) = Stop(m, FALSE)
    <3> DEFINE h == Stop(m, FALSE)
    <3>1. /\ DOMAIN h = CtlFields /\ h.state = "DRAIN" /\ h.resume = FALSE
          /\ h.fetch_addr = n.fetch_addr
          /\ h.dec_addr = n.dec_addr /\ h.cs = n.cs /\ h.regs = regs /\ h.d = n.d
          /\ h.pdone = n.pdone /\ h.ldp_word = n.ldp_word /\ h.ldp_pend = n.ldp_pend
          /\ h.sr = sr /\ h.ldp = n.ldp
      <4> HIDE DEF m
      <4> QED BY <2>2 DEF Stop, CtlFields
    <3>2. StateSetReg(n) = h
      BY <2>6
    <3> HIDE DEF h, m
    <3>3. CtlType(h)
      BY <1>1, <1>6, <2>1, <3>1 DEF CtlType, Busy
    <3> QED BY <1>1, <3>1, <3>2, <3>3 DEF Goes
  <2> QED BY <1>8, <1>10, <2>4, <2>5, <2>6
<1> QED BY <1>8, <1>9, <1>10

LEMMA StateFenceGoes ==
    ASSUME CtlType(c), NEW n, Common(n), c.state = "FENCE", ~c.ldp_pend
    PROVE  Goes(StateFence(n), n)
<1> DEFINE r == [n EXCEPT !.state = "RUN"]
<1>1. /\ CtlType(n) /\ n.state = "FENCE" /\ ~n.ldp_pend /\ n.dec_addr = c.dec_addr
      /\ n.state \in Busy /\ c.state \in Busy
  BY DEF Common, Busy
<1>2. ~consumed
  BY DEF consumed, decode
<1>3. \/ StateFence(n) = [n EXCEPT !.state = "ERR"]
      \/ StateFence(n) = n
      \/ StateFence(n) = Stop(n, FALSE)
      \/ StateFence(n) = r
  BY Zenon DEF StateFence
<1>4. Goes([n EXCEPT !.state = "ERR"], n)
  BY <1>1, ErrGoes
<1>5. Goes(n, n)
  BY <1>1, <1>2, StayGoes
<1>6. Goes(Stop(n, FALSE), n)
  <2> DEFINE h == Stop(n, FALSE)
  <2>1. CtlType(h) /\ h.state = "DRAIN" /\ ~h.resume /\ h.ldp_pend = n.ldp_pend
    BY <1>1, StopHereGoes
  <2> HIDE DEF h
  <2>2. Goes(h, n)
    BY <1>1, <2>1 DEF Goes
  <2> QED BY <2>2 DEF h
<1>7. /\ DOMAIN r = CtlFields /\ r.state = "RUN" /\ r.fetch_addr = n.fetch_addr
      /\ r.dec_addr = n.dec_addr /\ r.cs = n.cs /\ r.regs = n.regs /\ r.d = n.d
      /\ r.pdone = n.pdone /\ r.ldp_word = n.ldp_word /\ r.ldp_pend = n.ldp_pend
      /\ r.sr = n.sr /\ r.ldp = n.ldp
  BY <1>1 DEF CtlType, CtlFields
<1> HIDE DEF r
<1>8. CtlType(r)
  BY <1>1, <1>7 DEF CtlType, Busy
<1>9. Goes(r, n)
  BY <1>1, <1>2, <1>7, <1>8 DEF Goes, Busy
<1> QED BY <1>3, <1>4, <1>5, <1>6, <1>9, Zenon


-----------------------------------------------------------------------------
(***************************************************************************)
(* The states in which no list is decoded.                                 *)
(***************************************************************************)

\* A list starts at its address, or is refused.
SubmitMoves(r) ==
    /\ CtlType(r) /\ ~r.ldp_pend
    /\ \/ r.state = "ERR"
       \/ r.state = "RUN" /\ r.fetch_addr = r.dec_addr

LEMMA SubmittedMoves ==
    ASSUME NEW n, CtlType(n), n.state = "IDLE", NEW s, s.addr \in Value
    PROVE  SubmitMoves(Submitted(n, s))
<1> DEFINE m == [n EXCEPT !.st_exec = 0, !.count_lim = s.count, !.fence_mask = {},
                          !.fenced = FALSE, !.lp = <<>>, !.cs = <<>>, !.ldp_pend = FALSE]
           g == [m EXCEPT !.state = "RUN", !.fetch_addr = s.addr, !.dec_addr = s.addr]
           r == Submitted(n, s)
<1>1. r = Fail(m) \/ r = g
  BY Zenon DEF Submitted
<1> HIDE DEF r
<1>2. <<>> \in Seq(Value)
  BY EmptySeq
<1>3. /\ DOMAIN m = CtlFields /\ m.state = n.state /\ m.fetch_addr = n.fetch_addr
      /\ m.dec_addr = n.dec_addr /\ m.cs = <<>> /\ m.regs = n.regs /\ m.d = n.d
      /\ m.pdone = n.pdone /\ m.ldp_word = n.ldp_word /\ m.ldp_pend = FALSE
      /\ m.sr = n.sr /\ m.ldp = n.ldp
  BY DEF CtlType, CtlFields
<1> HIDE DEF m
<1>4. CtlType(m)
  BY <1>2, <1>3 DEF CtlType, Busy
<1>5. /\ DOMAIN g = CtlFields /\ g.state = "RUN" /\ g.fetch_addr = s.addr
      /\ g.dec_addr = s.addr /\ g.cs = m.cs /\ g.regs = m.regs /\ g.d = m.d
      /\ g.pdone = m.pdone /\ g.ldp_word = m.ldp_word /\ g.ldp_pend = m.ldp_pend
      /\ g.sr = m.sr /\ g.ldp = m.ldp
  BY <1>4 DEF CtlType, CtlFields
<1> HIDE DEF g
<1>6. CtlType(g)
  BY <1>4, <1>5 DEF CtlType, Busy
<1>7. CtlType(Fail(m)) /\ Fail(m).state = "ERR" /\ Fail(m).ldp_pend = m.ldp_pend
  <2>1. Fail(m).ldp_pend = m.ldp_pend
    BY <1>3 DEF Fail, Report, CtlFields
  <2> QED BY <1>4, <2>1, FailGoes
<1>8. SubmitMoves(r)
  BY <1>1, <1>3, <1>5, <1>6, <1>7 DEF SubmitMoves
<1> QED BY <1>8 DEF r

\* The drain ends when nothing is in flight any more.
DrainMoves(r, last) ==
    /\ CtlType(r)
    /\ r.fetch_addr = c.fetch_addr /\ r.dec_addr = c.dec_addr
    /\ r.ldp_pend = c.ldp_pend /\ r.resume = c.resume /\ r.ldp_calc = c.ldp_calc
    /\ r.state = IF ~drained(last) THEN "DRAIN"
                 ELSE IF c.ldp_pend THEN "LDP" ELSE IF c.resume THEN "RUN" ELSE "IDLE"

LEMMA StateDrainMoves ==
    ASSUME CtlType(c), NEW n, Common(n), c.state = "DRAIN", NEW last
    PROVE  DrainMoves(StateDrain(n, last), last)
<1> DEFINE state == IF c.ldp_pend THEN "LDP" ELSE IF c.resume THEN "RUN" ELSE "IDLE"
           r == [n EXCEPT !.pdone = 0, !.d = Invalid, !.state = state]
<1>1. /\ CtlType(n) /\ n.state = "DRAIN" /\ n.dec_addr = c.dec_addr /\ n.ldp = c.ldp
      /\ n.fetch_addr = c.fetch_addr /\ n.ldp_pend = c.ldp_pend /\ n.resume = c.resume
      /\ n.ldp_calc = c.ldp_calc
  <2>1. ~issue
    BY DEF issue, fetching
  <2> QED BY <2>1 DEF Common
<1>2. IsDesc(Invalid)
  BY EmptySeq DEF IsDesc, Invalid, Ops
<1>3. StateDrain(n, last) = IF drained(last) THEN r ELSE n
  BY Zenon DEF StateDrain
<1> HIDE DEF state
<1>4. /\ DOMAIN r = CtlFields /\ r.state = state /\ r.fetch_addr = n.fetch_addr
      /\ r.dec_addr = n.dec_addr /\ r.cs = n.cs /\ r.regs = n.regs /\ r.d = Invalid
      /\ r.pdone = 0 /\ r.ldp_word = n.ldp_word /\ r.ldp_pend = n.ldp_pend
      /\ r.sr = n.sr /\ r.ldp = n.ldp /\ r.resume = n.resume /\ r.ldp_calc = n.ldp_calc
  BY <1>1 DEF CtlType, CtlFields
<1> HIDE DEF r
<1>5. CtlType(r)
  BY <1>1, <1>2, <1>4 DEF CtlType, Busy, state
<1>6. CASE drained(last)
  BY <1>1, <1>3, <1>4, <1>5, <1>6 DEF DrainMoves, state
<1>7. CASE ~drained(last)
  BY <1>1, <1>3, <1>7 DEF DrainMoves
<1> QED BY <1>6, <1>7

\* LDPARAM asks for the block of its word, and waits.
LdpMoves(r) ==
    /\ CtlType(r) /\ r.state = "LDPW" /\ ~r.ldp_calc
    /\ r.fetch_addr = c.fetch_addr /\ r.dec_addr = c.dec_addr

LEMMA StateLdpMoves ==
    ASSUME CtlType(c), NEW n, Common(n), c.state = "LDP"
    PROVE  LdpMoves(StateLdp(n))
<1> DEFINE r == [n EXCEPT !.ldp_err = FALSE, !.ldp_calc = FALSE, !.state = "LDPW"]
<1>1. /\ CtlType(n) /\ n.state = "LDP" /\ n.dec_addr = c.dec_addr
      /\ n.fetch_addr = c.fetch_addr
  <2>1. ~issue
    BY DEF issue, fetching
  <2> QED BY <2>1 DEF Common
<1>2. StateLdp(n) = r
  BY DEF StateLdp
<1>3. /\ DOMAIN r = CtlFields /\ r.state = "LDPW" /\ r.fetch_addr = n.fetch_addr
      /\ r.dec_addr = n.dec_addr /\ r.cs = n.cs /\ r.regs = n.regs /\ r.d = n.d
      /\ r.pdone = n.pdone /\ r.ldp_word = n.ldp_word /\ r.ldp_pend = n.ldp_pend
      /\ r.sr = n.sr /\ r.ldp = n.ldp /\ r.ldp_calc = FALSE
  BY <1>1 DEF CtlType, CtlFields
<1> HIDE DEF r
<1>4. CtlType(r)
  BY <1>1, <1>3 DEF CtlType, Busy
<1> QED BY <1>1, <1>2, <1>3, <1>4 DEF LdpMoves

\* The word is here, or an error; then the product and sum, and the list goes on.
LdpWaitMoves(r, resp, last) ==
    /\ CtlType(r)
    /\ IF c.ldp_calc
       THEN /\ r.state \in {"IDLE", "RUN"} /\ r.ldp_pend = c.ldp_pend
            /\ r.fetch_addr = c.fetch_addr /\ r.dec_addr = c.dec_addr
       ELSE \/ r.state = "ERR"
            \/ /\ r.state = "LDPW"
               /\ r.fetch_addr = c.fetch_addr /\ r.dec_addr = c.dec_addr
               /\ IF resp # "none" /\ last THEN r.ldp_calc /\ ~r.ldp_pend ELSE ~r.ldp_calc

LEMMA LdpCalcMoves ==
    ASSUME CtlType(c), NEW n, Common(n), c.state = "LDPW", c.ldp_calc, NEW resp, NEW last
    PROVE  LdpWaitMoves(StateLdpWait(n, resp, last), resp, last)
<1> DEFINE v == (c.ldp_word * c.ldp.mul + c.ldp.add) % Modulus
           state == IF c.ldp.stop THEN "IDLE" ELSE "RUN"
           regs == [n.regs EXCEPT ![c.ldp.k] = v]
           r == [n EXCEPT !.regs = regs, !.ldp_calc = FALSE, !.state = state]
<1>1. /\ CtlType(n) /\ n.state = "LDPW" /\ n.dec_addr = c.dec_addr
      /\ n.fetch_addr = c.fetch_addr /\ n.ldp_pend = c.ldp_pend /\ n.ldp = c.ldp
      /\ n.ldp.k \in Reg /\ c.ldp.k \in Reg
  <2>1. ~issue
    BY DEF issue, fetching
  <2> QED BY <2>1 DEF Common, CtlType, LdpOK
<1>2. v \in Value
  <2> DEFINE p == c.ldp_word
             q == c.ldp.mul
             s == c.ldp.add
             x == p * q
  <2>1. p \in Nat /\ q \in Nat /\ s \in Nat
    BY Sizes DEF CtlType, LdpOK
  <2>2. v = (x + s) % Modulus
    OBVIOUS
  <2> HIDE DEF p, q, s, v
  <2>3. x \in Nat
    BY <2>1
  <2> HIDE DEF x
  <2>4. x + s \in Nat
    BY <2>1, <2>3
  <2> QED BY <2>2, <2>4, Sizes
<1>3. StateLdpWait(n, resp, last) = r
  BY <1>1 DEF StateLdpWait, CtlType
<1> HIDE DEF v
<1>4. regs \in [Reg -> Value]
  BY <1>1, <1>2 DEF CtlType
<1>5. state \in {"IDLE", "RUN"}
  OBVIOUS
<1> HIDE DEF regs, state
<1>6. /\ DOMAIN r = CtlFields /\ r.state = state /\ r.fetch_addr = n.fetch_addr
      /\ r.dec_addr = n.dec_addr /\ r.cs = n.cs /\ r.regs = regs /\ r.d = n.d
      /\ r.pdone = n.pdone /\ r.ldp_word = n.ldp_word /\ r.ldp_pend = n.ldp_pend
      /\ r.sr = n.sr /\ r.ldp = n.ldp
  BY <1>1 DEF CtlType, CtlFields
<1> HIDE DEF r
<1>7. CtlType(r)
  BY <1>1, <1>4, <1>5, <1>6 DEF CtlType, Busy
<1> QED BY <1>1, <1>3, <1>5, <1>6, <1>7 DEF LdpWaitMoves

LEMMA LdpBeatMoves ==
    ASSUME CtlType(c), image \in DOMAIN Images, NEW n, Common(n), c.state = "LDPW",
           ~c.ldp_calc, NEW resp, NEW last
    PROVE  LdpWaitMoves(StateLdpWait(n, resp, last), resp, last)
<1> DEFINE bad == resp # "OKAY"
           word == IF beats + 1 = LdpBeat /\ c.ldp.a \in DOMAIN mem.data
                   THEN mem.data[c.ldp.a] ELSE n.ldp_word
           err == n.ldp_err \/ bad
           m == [n EXCEPT !.ldp_word = word, !.ldp_err = err]
           p == [m EXCEPT !.ldp_pend = FALSE]
           r == [m EXCEPT !.ldp_pend = FALSE, !.ldp_calc = TRUE]
<1>1. /\ CtlType(n) /\ n.state = "LDPW" /\ n.dec_addr = c.dec_addr
      /\ n.fetch_addr = c.fetch_addr /\ n.ldp = c.ldp /\ ~n.ldp_calc
  <2>1. ~issue
    BY DEF issue, fetching
  <2> QED BY <2>1 DEF Common
<1>2. word \in Value
  <2>1. \A a \in DOMAIN mem.data : mem.data[a] \in Value
    BY FetchAssumption DEF mem
  <2>2. n.ldp_word \in Value
    BY <1>1 DEF CtlType
  <2> QED BY <2>1, <2>2, Zenon
<1>3. StateLdpWait(n, resp, last) =
        IF resp = "none" THEN n
        ELSE IF ~last THEN m
        ELSE IF c.ldp_err \/ bad THEN ReadFail(p) ELSE r
  BY Zenon DEF StateLdpWait
<1> HIDE DEF word, err, bad
<1>4. /\ DOMAIN m = CtlFields /\ m.state = "LDPW" /\ m.fetch_addr = n.fetch_addr
      /\ m.dec_addr = n.dec_addr /\ m.cs = n.cs /\ m.regs = n.regs /\ m.d = n.d
      /\ m.pdone = n.pdone /\ m.ldp_word = word /\ m.ldp_pend = n.ldp_pend
      /\ m.sr = n.sr /\ m.ldp = n.ldp /\ m.ldp_calc = n.ldp_calc
  BY <1>1 DEF CtlType, CtlFields
<1> HIDE DEF m
<1>5. CtlType(m)
  BY <1>1, <1>2, <1>4 DEF CtlType, Busy
<1>6. /\ DOMAIN p = CtlFields /\ p.state = "LDPW" /\ p.fetch_addr = m.fetch_addr
      /\ p.dec_addr = m.dec_addr /\ p.cs = m.cs /\ p.regs = m.regs /\ p.d = m.d
      /\ p.pdone = m.pdone /\ p.ldp_word = m.ldp_word /\ p.ldp_pend = FALSE
      /\ p.sr = m.sr /\ p.ldp = m.ldp
  BY <1>4 DEF CtlType, CtlFields
<1>7. /\ DOMAIN r = CtlFields /\ r.state = "LDPW" /\ r.fetch_addr = m.fetch_addr
      /\ r.dec_addr = m.dec_addr /\ r.cs = m.cs /\ r.regs = m.regs /\ r.d = m.d
      /\ r.pdone = m.pdone /\ r.ldp_word = m.ldp_word /\ r.ldp_pend = FALSE
      /\ r.sr = m.sr /\ r.ldp = m.ldp /\ r.ldp_calc = TRUE
  BY <1>4 DEF CtlType, CtlFields
<1> HIDE DEF p, r
<1>8. CtlType(p) /\ CtlType(r)
  BY <1>4, <1>5, <1>6, <1>7 DEF CtlType, Busy
<1>9. CtlType(ReadFail(p)) /\ ReadFail(p).state = "ERR"
  BY <1>8, FailGoes
<1>10. CASE resp = "none"
  BY <1>1, <1>3, <1>10 DEF LdpWaitMoves
<1>11. CASE resp # "none" /\ ~last
  BY <1>1, <1>3, <1>4, <1>5, <1>11 DEF LdpWaitMoves
<1>12. CASE resp # "none" /\ last /\ (c.ldp_err \/ bad)
  BY <1>3, <1>9, <1>12 DEF LdpWaitMoves
<1>13. CASE resp # "none" /\ last /\ ~(c.ldp_err \/ bad)
  BY <1>1, <1>3, <1>4, <1>7, <1>8, <1>13 DEF LdpWaitMoves
<1> QED BY <1>10, <1>11, <1>12, <1>13


\* Where an edge takes the control registers, from each state.
Moves(r, n, last, resp) ==
    /\ CtlType(r)
    /\ c.state \in Busy /\ ~c.ldp_pend => Goes(r, n)
    /\ c.state = "IDLE" =>
            SubmitMoves(r) \/ (r.state = "IDLE" /\ r.ldp_pend = c.ldp_pend)
    /\ c.state = "DRAIN" => DrainMoves(r, last)
    /\ c.state = "LDP" => LdpMoves(r) \/ (r.state = "DRAIN" /\ ~r.resume /\ ~r.ldp_pend)
    /\ c.state = "LDPW" =>
            LdpWaitMoves(r, resp, last) \/ (r.state = "DRAIN" /\ ~r.resume /\ ~r.ldp_pend)
    /\ c.state = "ERR" => r.state = "ERR" \/ (r.state = "DRAIN" /\ ~r.resume /\ ~r.ldp_pend)

\* A working unit that is reset or meets a read error still goes as it may.
LEMMA ControlMoves ==
    ASSUME CtlType(c), image \in DOMAIN Images, c.state \in Busy => ~c.ldp_pend,
           NEW s, s = <<>> \/ s[1].addr \in Value,
           NEW set, set = <<>> \/ (set[1] \in Reg /\ set[2] \in Value),
           NEW resp, NEW last
    PROVE  Moves(Control(s, set, resp, last), Before(set), last, resp)
<1> DEFINE n == Before(set)
           n1 == CASE c.state = "IDLE" -> IF s = <<>> THEN n ELSE Submitted(n, s[1])
                   [] c.state = "RUN" -> StateRun(n)
                   [] c.state = "SETREG" -> StateSetReg(n)
                   [] c.state = "FENCE" -> StateFence(n)
                   [] c.state = "DRAIN" -> StateDrain(n, last)
                   [] c.state = "LDP" -> StateLdp(n)
                   [] c.state = "LDPW" -> StateLdpWait(n, resp, last)
                   [] c.state = "ERR" -> StateErr(n)
           n2 == IF clear_error /\ c.state \notin {"ERR", "IDLE", "DRAIN"}
                 THEN Abandon(n1) ELSE n1
           rerr == fetching /\ resp \notin {"none", "OKAY"}
           r == IF rerr THEN ReadFail(n2) ELSE n2
<1>1. Control(s, set, resp, last) = r
  BY Zenon DEF Control, Before
<1>2. Common(n)
  BY BeforeCommon
<1> HIDE DEF n
<1>3. CtlType(n) /\ n.state = c.state /\ n.ldp_pend = c.ldp_pend
  BY <1>2 DEF Common
<1>4. CASE c.state \in Busy
  <2>1. Goes(n1, n)
    <3>1. CASE c.state = "RUN"
      <4>1. n1 = StateRun(n)
        BY <3>1
      <4> QED BY <1>2, <1>4, <3>1, <4>1, RunGoes
    <3>2. CASE c.state = "SETREG"
      <4>1. n1 = StateSetReg(n)
        BY <3>2
      <4> QED BY <1>2, <1>4, <3>2, <4>1, StateSetRegGoes
    <3>3. CASE c.state = "FENCE"
      <4>1. n1 = StateFence(n)
        BY <3>3
      <4> QED BY <1>2, <1>4, <3>3, <4>1, StateFenceGoes
    <3> QED BY <1>4, <3>1, <3>2, <3>3 DEF Busy
  <2> HIDE DEF n1
  <2>2. CtlType(n1)
    BY <2>1 DEF Goes
  <2>3. Goes(n2, n)
    <3>1. Goes(Abandon(n1), n)
      BY <2>2, AbandonGoes DEF Goes
    <3> QED BY <2>1, <3>1
  <2> HIDE DEF n2
  <2>4. CtlType(n2)
    BY <2>3 DEF Goes
  <2>5. Goes(r, n)
    <3>1. Goes(ReadFail(n2), n)
      BY <2>4, FailGoes DEF Goes
    <3> QED BY <2>3, <3>1
  <2> HIDE DEF r
  <2>6. CtlType(r)
    BY <2>5 DEF Goes
  <2> QED BY <1>1, <1>4, <2>5, <2>6 DEF Moves, Busy, n
<1>5. ASSUME c.state \notin Busy
      PROVE  r = n2
  BY <1>5 DEF fetching, Busy
<1>6. CASE c.state = "IDLE"
  <2>1. r = IF s = <<>> THEN n ELSE Submitted(n, s[1])
    BY <1>5, <1>6 DEF Busy
  <2> HIDE DEF r
  <2>2. CASE s = <<>>
    BY <1>1, <1>3, <1>6, <2>1, <2>2 DEF Moves, Busy
  <2>3. CASE s # <<>>
    <3>1. SubmitMoves(r)
      BY <1>3, <1>6, <2>1, <2>3, SubmittedMoves
    <3>2. CtlType(r)
      BY <3>1 DEF SubmitMoves
    <3> QED BY <1>1, <1>6, <3>1, <3>2 DEF Moves, Busy
  <2> QED BY <2>2, <2>3
<1>7. CASE c.state = "DRAIN"
  <2>1. r = StateDrain(n, last)
    BY <1>5, <1>7 DEF Busy
  <2> HIDE DEF r
  <2>2. DrainMoves(r, last)
    BY <1>2, <1>7, <2>1, StateDrainMoves
  <2>3. CtlType(r)
    BY <2>2 DEF DrainMoves
  <2> QED BY <1>1, <1>7, <2>2, <2>3 DEF Moves, Busy
<1>8. CASE c.state = "LDP"
  <2>1. r = IF clear_error THEN Abandon(StateLdp(n)) ELSE StateLdp(n)
    BY <1>5, <1>8 DEF Busy
  <2> HIDE DEF r
  <2>2. LdpMoves(StateLdp(n)) /\ CtlType(StateLdp(n))
    <3>1. LdpMoves(StateLdp(n))
      BY <1>2, <1>8, StateLdpMoves
    <3> QED BY <3>1 DEF LdpMoves
  <2>3. /\ CtlType(Abandon(StateLdp(n))) /\ Abandon(StateLdp(n)).state = "DRAIN"
        /\ ~Abandon(StateLdp(n)).resume /\ ~Abandon(StateLdp(n)).ldp_pend
    BY <2>2, AbandonGoes
  <2> QED BY <1>1, <1>8, <2>1, <2>2, <2>3 DEF Moves, Busy
<1>9. CASE c.state = "LDPW"
  <2> DEFINE h == StateLdpWait(n, resp, last)
  <2>1. r = IF clear_error THEN Abandon(h) ELSE h
    BY <1>5, <1>9 DEF Busy
  <2> HIDE DEF r
  <2>2. LdpWaitMoves(h, resp, last)
    BY <1>2, <1>9, LdpCalcMoves, LdpBeatMoves, Zenon
  <2> HIDE DEF h
  <2>3. CtlType(h)
    BY <2>2 DEF LdpWaitMoves
  <2>4. /\ CtlType(Abandon(h)) /\ Abandon(h).state = "DRAIN"
        /\ ~Abandon(h).resume /\ ~Abandon(h).ldp_pend
    BY <2>3, AbandonGoes
  <2> QED BY <1>1, <1>9, <2>1, <2>2, <2>3, <2>4 DEF Moves, Busy
<1>10. CASE c.state = "ERR"
  <2>1. r = IF clear_error THEN Abandon(n) ELSE n
    BY <1>5, <1>10 DEF Busy, StateErr
  <2> HIDE DEF r
  <2>2. /\ CtlType(Abandon(n)) /\ Abandon(n).state = "DRAIN"
        /\ ~Abandon(n).resume /\ ~Abandon(n).ldp_pend
    BY <1>3, AbandonGoes
  <2> QED BY <1>1, <1>3, <1>10, <2>1, <2>2 DEF Moves, Busy
<1> QED BY <1>4, <1>6, <1>7, <1>8, <1>9, <1>10 DEF CtlType


-----------------------------------------------------------------------------
(***************************************************************************)
(* The datapath: the read channel, the FIFO and the assembled words.       *)
(***************************************************************************)
DataType ==
    /\ fifo \in Seq(Entry) /\ w \in Seq(Entry) /\ Len(w) <= Words
    /\ bursts \in Seq(Value) /\ ar \in Value \cup {NoAddr}
    /\ beats \in 0 .. Words - 1 /\ (bursts = <<>> => beats = 0)

\* What the read channel does in a cycle.
Channel(resp, last, arready) ==
    /\ resp # "none" => bursts # <<>>
    /\ last = (resp # "none" /\ beats + 1 = Words)
    /\ arready \in BOOLEAN /\ (ar = NoAddr => ~arready)

\* The bursts that are left after this cycle's beat, and the one accepted.
Left(last) == IF last THEN Tail(bursts) ELSE bursts

LEMMA LeftFacts ==
    ASSUME DataType, NEW resp, NEW last, NEW arready, Channel(resp, last, arready)
    PROVE  /\ Left(last) \in Seq(Value)
           /\ Len(Left(last)) = Len(bursts) - (IF last THEN 1 ELSE 0)
           /\ resp # "none" => Len(bursts) >= 1 /\ Head(bursts) \in Value
           /\ Len(bursts) \in Nat
<1>1. bursts \in Seq(Value) /\ Len(bursts) \in Nat /\ (bursts # <<>> => Len(bursts) >= 1)
  BY EmptySeq DEF DataType
<1>2. last => bursts # <<>>
  BY DEF Channel
<1>3. CASE bursts = <<>>
  <2>1. ~last /\ resp = "none"
    BY <1>2, <1>3 DEF Channel
  <2> QED BY <1>1, <2>1 DEF Left
<1>4. CASE bursts # <<>>
  <2>1. Tail(bursts) \in Seq(Value) /\ Len(Tail(bursts)) = Len(bursts) - 1
        /\ Head(bursts) = bursts[1] /\ bursts[1] \in Value
    BY <1>1, <1>4
  <2>2. CASE last
    BY <1>1, <1>4, <2>1, <2>2 DEF Left
  <2>3. CASE ~last
    BY <1>1, <1>4, <2>1, <2>3 DEF Left
  <2> QED BY <2>2, <2>3
<1> QED BY <1>3, <1>4

LEMMA ReadFacts ==
    ASSUME DataType, NEW resp, NEW last, NEW arready, Channel(resp, last, arready),
           Read(arready, resp, last)
    PROVE  /\ bursts' = IF ar # NoAddr /\ arready THEN Append(Left(last), ar) ELSE Left(last)
           /\ bursts' \in Seq(Value)
           /\ beats' \in 0 .. Words - 1
           /\ bursts' = <<>> => beats' = 0
<1> DEFINE l == Left(last)
<1>1. l \in Seq(Value) /\ Len(l) = Len(bursts) - (IF last THEN 1 ELSE 0)
      /\ Len(bursts) \in Nat /\ (resp # "none" => Len(bursts) >= 1)
  BY LeftFacts
<1>2. bursts' = l \o (IF ar # NoAddr /\ arready THEN <<ar>> ELSE <<>>)
  BY DEF Read, Left
<1> HIDE DEF l
<1>3. ar # NoAddr => ar \in Value
  BY DEF DataType
<1>4. l \o <<>> = l
  BY <1>1
<1>5. ar # NoAddr => l \o <<ar>> = Append(l, ar)
  BY <1>1, <1>3
<1>6. bursts' = IF ar # NoAddr /\ arready THEN Append(l, ar) ELSE l
  BY <1>2, <1>4, <1>5
<1>7. bursts' \in Seq(Value)
  BY <1>1, <1>3, <1>6
<1>8. beats' \in 0 .. Words - 1
  <2>1. Words \in Nat \ {0} /\ beats \in 0 .. Words - 1
    BY Sizes DEF DataType
  <2>2. beats' = beats \/ beats' = 0 \/ (resp # "none" /\ ~last /\ beats' = beats + 1)
    BY DEF Read
  <2>3. resp # "none" /\ ~last => beats + 1 # Words
    BY Zenon DEF Channel
  <2> QED BY <2>1, <2>2, <2>3
<1>9. ASSUME bursts' = <<>>
      PROVE  beats' = 0
  <2>1. l = <<>>
    <3>1. CASE ar # NoAddr /\ arready
      <4>1. Len(Append(l, ar)) = Len(l) + 1 /\ Len(l) \in Nat
        BY <1>1, <1>3, <3>1
      <4>2. Len(<<>>) = 0
        BY EmptySeq
      <4> QED BY <1>6, <1>9, <3>1, <4>1, <4>2
    <3>2. CASE ~(ar # NoAddr /\ arready)
      BY <1>6, <1>9, <3>2
    <3> QED BY <3>1, <3>2
  <2>2. CASE last
    BY <2>2 DEF Read, Channel
  <2>3. CASE ~last
    <3>1. Len(bursts) = 0
      <4>1. Len(l) = 0
        BY <2>1, EmptySeq
      <4> QED BY <1>1, <2>3, <4>1
    <3>2. resp = "none" /\ bursts = <<>>
      BY <1>1, <3>1, EmptySeq DEF DataType
    <3> QED BY <3>2 DEF Read, DataType
  <2> QED BY <2>2, <2>3
<1> QED BY <1>6, <1>7, <1>8, <1>9 DEF l

\* Words leave the FIFO at one end and enter at the other.
LEMMA StoreFacts ==
    ASSUME DataType, NEW resp, NEW last, NEW arready, Channel(resp, last, arready),
           Store(resp, last)
    PROVE  fifo' \in Seq(Entry) /\ w' \in Seq(Entry) /\ Len(w') <= Words
<1>1. /\ Words \in Nat \ {0} /\ beats \in 0 .. Words - 1
      /\ fifo \in Seq(Entry) /\ w \in Seq(Entry) /\ Len(w) \in Nat /\ Len(w) <= Words
      /\ <<>> \in Seq(Entry) /\ Len(<<>>) = 0
  BY Sizes, EmptySeq DEF DataType
<1> DEFINE push == IF resp # "none" /\ fetching THEN << <<Head(bursts), beats + 1>> >> ELSE <<>>
           rest == IF pop THEN Tail(fifo) ELSE fifo
<1>2. push \in Seq(Entry)
  <2>1. resp # "none" => <<Head(bursts), beats + 1>> \in Entry
    BY <1>1, LeftFacts DEF Entry
  <2> QED BY <1>1, <2>1
<1>3. rest \in Seq(Entry) /\ (pop => Head(fifo) \in Entry)
  BY <1>1 DEF pop
<1>4. fifo' = IF c.state = "DRAIN" /\ drained(last) THEN <<>> ELSE rest \o push
  BY DEF Store
<1> HIDE DEF push, rest
<1>5. fifo' \in Seq(Entry)
  BY <1>1, <1>2, <1>3, <1>4
<1>6. w' = <<>> \/ w' = w \/ (pop /\ w' = Append(w, Head(fifo)))
  BY DEF Store
<1>7. w' \in Seq(Entry) /\ Len(w') <= Words
  <2>1. CASE w' = <<>>
    BY <1>1, <2>1
  <2>2. CASE w' = w
    BY <1>1, <2>2
  <2>3. CASE pop /\ w' = Append(w, Head(fifo))
    <3>1. Len(w) # Words
      BY <2>3 DEF pop, dfull
    <3> DEFINE x == Head(fifo)
    <3>2. x \in Entry /\ w' = Append(w, x)
      BY <1>3, <2>3
    <3> HIDE DEF x
    <3>3. w' \in Seq(Entry) /\ Len(w') = Len(w) + 1
      BY <1>1, <3>2
    <3> QED BY <1>1, <3>1, <3>3
  <2> QED BY <1>6, <2>1, <2>2, <2>3
<1> QED BY <1>5, <1>7


\* Words go from the front of the FIFO to the end of w.
LEMMA CatAppend ==
    ASSUME NEW S, NEW p \in Seq(S), NEW q \in Seq(S), NEW x \in S
    PROVE  p \o Append(q, x) = Append(p \o q, x)
OBVIOUS

LEMMA CatHead ==
    ASSUME NEW S, NEW p \in Seq(S), NEW q \in Seq(S), q # <<>>
    PROVE  Append(p, Head(q)) \o Tail(q) = p \o q
<1>1. Len(q) # 0
  BY EmptySeq
<1> QED BY <1>1

\* One cycle of the FIFO keeps the words in place.
LEMMA StoreLocated ==
    ASSUME DataType, NEW resp, NEW last, NEW arready, Channel(resp, last, arready),
           Store(resp, last), Read(arready, resp, last), c.state \in Busy,
           NEW k, Located(c.dec_addr, w \o fifo, k, beats, bursts, ar, c.fetch_addr)
    PROVE  \E k1 : Located(IF consumed THEN At(c.dec_addr, 1) ELSE c.dec_addr,
                           w' \o fifo', k1, beats', Left(last), ar, c.fetch_addr)
<1> DEFINE x == <<Head(bursts), beats + 1>>
           d == c.dec_addr
           fa == c.fetch_addr
           d1 == IF consumed THEN At(d, 1) ELSE d
           u1 == IF consumed THEN fifo ELSE w \o fifo
           rest == IF pop THEN Tail(fifo) ELSE fifo
           new == resp # "none"
<1>1. /\ fifo \in Seq(Entry) /\ w \in Seq(Entry) /\ Len(w) \in Nat /\ Len(fifo) \in Nat
      /\ Len(<<>>) = 0 /\ fetching /\ Words \in Nat \ {0}
  BY EmptySeq, Sizes DEF DataType, fetching, Busy
<1>2. new => x \in Entry
  <2>1. beats \in 0 .. Words - 1
    BY DEF DataType
  <2>2. beats + 1 \in 1 .. Words
    BY <1>1, <2>1
  <2> QED BY <2>2, LeftFacts DEF Entry
<1>3. PICK k0 : Located(d1, u1, k0, beats, bursts, ar, fa)
  <2>1. CASE consumed
    <3>1. Len(w) = Words
      BY <2>1 DEF consumed, decode, dfull
    <3>2. /\ Len(w \o fifo) >= Words /\ Len(fifo) = Len(w \o fifo) - Words
          /\ \A i \in 1 .. Len(fifo) : fifo[i] = (w \o fifo)[i + Words]
      BY <1>1, <3>1
    <3>3. Located(At(d, 1), fifo, k - 1, beats, bursts, ar, fa)
      BY <1>1, <3>2, LocatedDrop, Zenon
    <3> QED BY <2>1, <3>3
  <2>2. CASE ~consumed
    BY <2>2
  <2> QED BY <2>1, <2>2
<1>4. fifo' = IF new THEN Append(rest, x) ELSE rest
  <2>1. rest \in Seq(Entry)
    BY <1>1 DEF pop
  <2>2. ~(c.state = "DRAIN" /\ drained(last))
    BY DEF Busy
  <2>3. fifo' = rest \o (IF new THEN <<x>> ELSE <<>>)
    <3> DEFINE a == IF new /\ fetching THEN <<x>> ELSE <<>>
               b == IF new THEN <<x>> ELSE <<>>
    <3>1. a = b
      BY <1>1
    <3>2. fifo' = IF c.state = "DRAIN" /\ drained(last) THEN <<>> ELSE rest \o a
      BY Zenon DEF Store
    <3> HIDE DEF a, b, rest
    <3>3. fifo' = rest \o b
      BY <2>2, <3>1, <3>2
    <3> QED BY <3>3 DEF b
  <2> HIDE DEF rest, x, new
  <2>4. rest \o <<>> = rest
    BY <2>1
  <2>5. new => rest \o <<x>> = Append(rest, x)
    BY <1>2, <2>1
  <2> QED BY <2>3, <2>4, <2>5
<1>5. w' = IF consumed THEN <<>> ELSE IF pop THEN Append(w, Head(fifo)) ELSE w
  <2>1. ~(c.state = "DRAIN" /\ drained(last))
    BY DEF Busy
  <2> QED BY <2>1 DEF Store
<1> HIDE DEF x
<1>6. w' \o fifo' = IF new THEN Append(u1, x) ELSE u1
  <2>1. CASE consumed
    <3>1. ~pop
      BY <2>1 DEF consumed, decode, pop
    <3>2. fifo' \in Seq(Entry)
      BY StoreFacts
    <3>3. <<>> \o fifo' = fifo'
      BY <3>2
    <3> QED BY <1>4, <1>5, <2>1, <3>1, <3>3
  <2>2. CASE ~consumed /\ pop
    <3> DEFINE y == Append(w, Head(fifo))
               z == Tail(fifo)
    <3>1. fifo # <<>>
      BY <2>2 DEF pop
    <3>2. y \o z = w \o fifo
      BY <1>1, <3>1, CatHead, Zenon
    <3>3. y \in Seq(Entry) /\ z \in Seq(Entry)
      <4>1. Len(fifo) # 0
        BY <1>1, <3>1, EmptySeq
      <4> QED BY <1>1, <4>1
    <3>4. w' = y /\ fifo' = (IF new THEN Append(z, x) ELSE z) /\ u1 = w \o fifo
      BY <1>4, <1>5, <2>2
    <3> HIDE DEF y, z, u1
    <3>5. ASSUME new PROVE y \o Append(z, x) = Append(y \o z, x)
      <4>1. x \in Entry
        BY <1>2, <3>5
      <4> QED BY <3>3, <4>1, CatAppend
    <3> QED BY <3>2, <3>4, <3>5
  <2>3. CASE ~consumed /\ ~pop
    <3>1. w' = w /\ fifo' = (IF new THEN Append(fifo, x) ELSE fifo) /\ u1 = w \o fifo
      BY <1>4, <1>5, <2>3
    <3>2. ASSUME new PROVE w \o Append(fifo, x) = Append(w \o fifo, x)
      <4>1. x \in Entry
        BY <1>2, <3>2
      <4> QED BY <1>1, <4>1, CatAppend
    <3> HIDE DEF u1
    <3> QED BY <3>1, <3>2
  <2> QED BY <2>1, <2>2, <2>3
<1> HIDE DEF u1, d1, d, fa
<1>7. CASE new
  <2> DEFINE t1 == IF beats + 1 = Words THEN 0 ELSE beats + 1
             k1 == IF beats + 1 = Words THEN k0 + 1 ELSE k0
             bs1 == IF beats + 1 = Words THEN Tail(bursts) ELSE bursts
  <2>1. last <=> beats + 1 = Words
    BY <1>7 DEF Channel
  <2>2. beats' = t1 /\ Left(last) = bs1
    BY <1>7, <2>1 DEF Read, Left
  <2>3. bursts # <<>>
    BY <1>7 DEF Channel
  <2> HIDE DEF t1, k1, bs1
  <2>4. Located(d1, Append(u1, <<Head(bursts), beats + 1>>), k1, t1, bs1, ar, fa)
    BY <1>3, <2>3, LocatedBeat DEF t1, k1, bs1
  <2>5. Located(d1, w' \o fifo', k1, beats', Left(last), ar, fa)
    BY <1>6, <1>7, <2>2, <2>4 DEF x
  <2> QED BY <2>5 DEF d1, d, fa
<1>8. CASE ~new
  <2>1. ~last
    BY <1>8 DEF Channel
  <2>2. beats' = beats /\ Left(last) = bursts
    BY <1>8, <2>1 DEF Read, Left
  <2>3. Located(d1, w' \o fifo', k0, beats', Left(last), ar, fa)
    BY <1>3, <1>6, <1>8, <2>2
  <2> QED BY <2>3 DEF d1, d, fa
<1> QED BY <1>7, <1>8

\* One cycle of the read channel, too.
LEMMA ReadLocated ==
    ASSUME DataType, NEW resp, NEW last, NEW arready, Channel(resp, last, arready),
           Read(arready, resp, last), c.state \in Busy, NEW d, NEW u, NEW k, NEW t,
           Located(d, u, k, t, Left(last), ar, c.fetch_addr)
    PROVE  Located(d, u, k, t, bursts', ar',
                   IF issue THEN At(c.fetch_addr, 1) ELSE c.fetch_addr)
<1>1. bursts' = IF ar # NoAddr /\ arready THEN Append(Left(last), ar) ELSE Left(last)
  BY ReadFacts, Zenon
<1>2. ar' = IF issue THEN c.fetch_addr ELSE IF arready THEN NoAddr ELSE ar
  BY DEF Read, Busy
<1>3. CASE issue
  <2>1. ar = NoAddr
    BY <1>3 DEF issue
  <2>2. Located(d, u, k, t, Left(last), c.fetch_addr, (c.fetch_addr + Step) % Modulus)
    BY <2>1, LocatedIssue
  <2>3. At(c.fetch_addr, 1) = (c.fetch_addr + Step) % Modulus
    <3>1. 1 * Step = Step
      BY Sizes
    <3> QED BY <3>1 DEF At
  <2> QED BY <1>1, <1>2, <1>3, <2>1, <2>2, <2>3
<1>4. CASE ~issue /\ ar # NoAddr /\ arready
  <2>1. Located(d, u, k, t, Append(Left(last), ar), NoAddr, c.fetch_addr)
    BY <1>4, LocatedAccept, Zenon
  <2> QED BY <1>1, <1>2, <1>4, <2>1
<1>5. CASE ~issue /\ ~(ar # NoAddr /\ arready)
  <2>1. ar' = ar
    BY <1>2, <1>5
  <2> QED BY <1>1, <1>5, <2>1
<1> QED BY <1>3, <1>4, <1>5


\* Nor does it take more of the FIFO than was reserved.
LEMMA SpaceStep ==
    ASSUME DataType, CtlType(c), NEW resp, NEW last, NEW arready,
           Channel(resp, last, arready), Store(resp, last), Read(arready, resp, last),
           c.state \in Busy, SpaceReserved
    PROVE  Len(fifo') + Len(bursts') * Words - beats' + (IF ar' = NoAddr THEN 0 ELSE Words)
               <= MaxOut * Words
<1> DEFINE new == resp # "none"
           acc == ar # NoAddr /\ arready
           F == Len(fifo)
           B == Len(bursts)
           A == IF ar = NoAddr THEN 0 ELSE Words
           F1 == Len(fifo')
           B1 == Len(bursts')
           A1 == IF ar' = NoAddr THEN 0 ELSE Words
           P == B * Words
           P1 == B1 * Words
           Q == MaxOut * Words
           b == beats
           b1 == beats'
<1>1. /\ Words \in Nat \ {0} /\ F \in Nat /\ B \in Nat /\ b \in 0 .. Words - 1
      /\ b1 \in 0 .. Words - 1 /\ Q \in Nat
  <2>1. b1 \in 0 .. Words - 1
    BY ReadFacts
  <2> QED BY <2>1, Sizes DEF DataType
<1>2. F + P - b + A <= Q
  <2>1. fetching
    BY DEF fetching, Busy
  <2> QED BY <2>1, Zenon DEF SpaceReserved
<1>3. issue => F + P + Words <= Q /\ A = 0
  BY Zenon DEF issue, room
<1>4. F1 \in Nat /\ F1 <= F + (IF new THEN 1 ELSE 0)
  <2> DEFINE x == <<Head(bursts), beats + 1>>
             rest == IF pop THEN Tail(fifo) ELSE fifo
             push == IF new /\ fetching THEN <<x>> ELSE <<>>
  <2>1. fifo \in Seq(Entry) /\ (pop => fifo # <<>>)
    BY DEF DataType, pop
  <2>2. rest \in Seq(Entry) /\ Len(rest) <= F /\ Len(rest) \in Nat
    <3>1. fifo # <<>> => F # 0
      BY <2>1, EmptySeq
    <3>2. fifo # <<>> => Tail(fifo) \in Seq(Entry) /\ Len(Tail(fifo)) = F - 1
      BY <2>1, <3>1
    <3> QED BY <1>1, <2>1, <3>2
  <2>3. fifo' = rest \o push
    <3>1. ~(c.state = "DRAIN" /\ drained(last))
      BY DEF Busy
    <3>2. fifo' = IF c.state = "DRAIN" /\ drained(last) THEN <<>> ELSE rest \o push
      BY Zenon DEF Store
    <3> QED BY <3>1, <3>2, Zenon
  <2>4. push \in Seq(Entry) /\ Len(push) <= (IF new THEN 1 ELSE 0) /\ Len(push) \in Nat
    <3>1. new => x \in Entry
      <4>1. beats + 1 \in 1 .. Words
        BY <1>1
      <4> QED BY <4>1, LeftFacts DEF Entry
    <3> HIDE DEF x
    <3>2. new => <<x>> \in Seq(Entry) /\ Len(<<x>>) = 1
      BY <3>1
    <3>3. <<>> \in Seq(Entry) /\ Len(<<>>) = 0
      BY EmptySeq
    <3> QED BY <3>2, <3>3
  <2> HIDE DEF rest, push, new, F
  <2>5. Len(rest \o push) = Len(rest) + Len(push)
    BY <2>2, <2>4
  <2> QED BY <1>1, <2>2, <2>3, <2>4, <2>5
<1>5. B1 = B - (IF last THEN 1 ELSE 0) + (IF acc THEN 1 ELSE 0) /\ (last => B >= 1)
  <2> DEFINE l == Left(last)
  <2>1. l \in Seq(Value) /\ Len(l) = B - (IF last THEN 1 ELSE 0) /\ (new => B >= 1)
    BY LeftFacts
  <2>2. bursts' = IF acc THEN Append(l, ar) ELSE l
    BY ReadFacts
  <2>3. last => new
    BY DEF Channel
  <2>4. acc => ar \in Value
    BY DEF DataType
  <2> HIDE DEF l, acc, B
  <2>5. acc => Len(Append(l, ar)) = Len(l) + 1
    BY <2>1, <2>4
  <2>6. CASE acc
    <3>1. B1 = Len(l) + 1
      BY <2>2, <2>5, <2>6
    <3> HIDE DEF B1, new
    <3> QED BY <1>1, <2>1, <2>3, <2>6, <3>1
  <2>7. CASE ~acc
    <3>1. B1 = Len(l)
      BY <2>2, <2>7
    <3> HIDE DEF B1, new
    <3> QED BY <1>1, <2>1, <2>3, <2>7, <3>1
  <2> QED BY <2>6, <2>7
<1>6. P1 = P - (IF last THEN Words ELSE 0) + (IF acc THEN Words ELSE 0) /\ P \in Nat
  <2>1. /\ (B - 1) * Words = B * Words - Words /\ (B + 1) * Words = B * Words + Words
        /\ B * Words \in Nat
    BY <1>1
  <2>2. B1 = B \/ B1 = B - 1 \/ B1 = B + 1
    BY <1>1, <1>5
  <2> HIDE DEF B, B1, acc
  <2> QED BY <1>1, <1>5, <2>1, <2>2
<1>7. /\ new /\ ~last => b1 = b + 1
      /\ last => b1 = 0 /\ b = Words - 1 /\ new
      /\ ~new => b1 = b
  <2>1. last <=> (new /\ b + 1 = Words)
    BY DEF Channel
  <2>2. b1 = IF ~new THEN b ELSE IF last THEN 0 ELSE b + 1
    BY DEF Read
  <2> HIDE DEF b, b1, new
  <2> QED BY <1>1, <2>1, <2>2
<1>8. /\ acc => A = Words /\ (~issue => A1 = 0)
      /\ ~issue /\ ~acc => A1 = A
      /\ issue => ~acc
      /\ A1 \in {0, Words} /\ A \in {0, Words}
  <2>1. ar' = IF issue THEN c.fetch_addr ELSE IF arready THEN NoAddr ELSE ar
    BY DEF Read, Busy
  <2>2. issue => ar = NoAddr
    BY DEF issue
  <2> HIDE DEF issue
  <2>3. ar = NoAddr => ~arready
    BY DEF Channel
  <2> QED BY <2>1, <2>2, <2>3
<1> HIDE DEF new, acc, F, B, A, F1, B1, A1, P, P1, Q, b, b1
<1>9. F1 + P1 - b1 + A1 <= Q
  <2>1. CASE issue
    <3>1. P1 = P - (IF last THEN Words ELSE 0)
      BY <1>1, <1>6, <1>8, <2>1
    <3>2. F1 + P1 - b1 <= F + P
      BY <1>1, <1>4, <1>6, <1>7, <3>1
    <3> QED BY <1>1, <1>3, <1>4, <1>6, <1>8, <2>1, <3>2
  <2>2. CASE ~issue
    <3>1. P1 + A1 = P + A - (IF last THEN Words ELSE 0)
      BY <1>1, <1>6, <1>8, <2>2
    <3>2. F1 - b1 - (IF last THEN Words ELSE 0) <= F - b
      BY <1>1, <1>4, <1>7
    <3> QED BY <1>1, <1>2, <1>4, <1>6, <1>8, <3>1, <3>2
  <2> QED BY <2>1, <2>2
<1> QED BY <1>9 DEF F1, P1, b1, A1, B1, Q


-----------------------------------------------------------------------------
(***************************************************************************)
(* The inductive invariant.  When no list is decoded nothing is left of    *)
(* the last one, except while the read channel drains; LDPARAM has one     *)
(* burst of its own under way; a unit that will go on after the drain goes *)
(* on at the address it decodes.                                           *)
(***************************************************************************)
Quiet == fifo = <<>> /\ w = <<>> /\ bursts = <<>> /\ ar = NoAddr

LdpBurst ==
    /\ fifo = <<>> /\ w = <<>>
    /\ IF c.ldp_calc
       THEN ~c.ldp_pend /\ bursts = <<>> /\ ar = NoAddr
       ELSE (ar # NoAddr /\ bursts = <<>>) \/ (ar = NoAddr /\ Len(bursts) = 1)

GoesOn ==
    \/ c.state \in {"LDP", "LDPW"}
    \/ c.state = "DRAIN" /\ (c.resume \/ c.ldp_pend)

WordsLocated == \E k : Located(c.dec_addr, w \o fifo, k, beats, bursts, ar, c.fetch_addr)

FetchInv ==
    /\ image \in DOMAIN Images /\ CtlType(c) /\ DataType
    /\ c.state \in {"IDLE", "LDP"} => Quiet
    /\ c.state = "LDPW" => LdpBurst
    /\ c.ldp_pend => c.state \in {"DRAIN", "LDP", "LDPW", "ERR"}
    /\ GoesOn => c.fetch_addr = c.dec_addr
    /\ c.state \in Busy => SpaceReserved /\ WordsLocated

\* The parts of the invariant in the next state.
LEMMA CtlTypeNext ==
    ASSUME CtlType(c')
    PROVE  CtlType(c)'
BY Zenon DEF CtlType

LEMMA LocatedNext ==
    ASSUME NEW k, Located(c'.dec_addr, w' \o fifo', k, beats', bursts', ar', c'.fetch_addr)
    PROVE  WordsLocated'
<1>1. Located(c.dec_addr, w \o fifo, k, beats, bursts, ar, c.fetch_addr)'
  BY Zenon DEF Located
<1> QED BY <1>1, Zenon DEF WordsLocated

\* A unit with nothing under way may start to decode wherever it fetches.
LEMMA QuietStarts ==
    ASSUME CtlType(c'), DataType', Quiet', c'.fetch_addr = c'.dec_addr
    PROVE  SpaceReserved' /\ WordsLocated'
<1>1. /\ beats' = 0 /\ MaxOut * Words \in Nat /\ Words \in Nat /\ Len(<<>>) = 0
      /\ 0 * Words = 0 /\ c'.dec_addr \in Value
  BY EmptySeq, Sizes DEF Quiet, DataType, CtlType
<1>2. SpaceReserved'
  BY <1>1 DEF SpaceReserved, Quiet
<1>3. w' \o fifo' = <<>>
  BY EmptySeq DEF Quiet
<1>4. Located(c'.dec_addr, <<>>, 0, 0, <<>>, NoAddr, c'.dec_addr)
  BY <1>1, LocatedEmpty, Zenon
<1>5. bursts' = <<>> /\ ar' = NoAddr
  BY DEF Quiet
<1>6. Located(c'.dec_addr, w' \o fifo', 0, beats', bursts', ar', c'.fetch_addr)
  BY <1>1, <1>3, <1>4, <1>5
<1> QED BY <1>2, <1>6, LocatedNext

\* An edge, as the lemmas above see it.
Given(s, set, resp, last, arready) ==
    /\ s = <<>> \/ s[1].addr \in Value
    /\ set = <<>> \/ (set[1] \in Reg /\ set[2] \in Value)
    /\ Channel(resp, last, arready)
    /\ c' = Control(s, set, resp, last) /\ Read(arready, resp, last) /\ Store(resp, last)
    /\ UNCHANGED image

LEMMA EdgeGiven ==
    ASSUME FetchInv, Next
    PROVE  \E s, set, resp, last, arready : Given(s, set, resp, last, arready)
<1>1. PICK s \in Submits, set \in RegWrites, resp \in Beats, go \in {FALSE, MayGo},
           dn \in SUBSET busy, fault \in Faults,
           arready \in IF ar = NoAddr THEN {FALSE} ELSE BOOLEAN :
                /\ s = <<>> \/ set = <<>>
                /\ "ar" \in {} => arready
                /\ "r" \in {} => resp # "none"
                /\ "go" \in {} => go
                /\ "done" \in {} => dn = busy
                /\ Edge(s, set, arready, resp, go, dn, fault)
  BY Zenon DEF Next, Cycle
<1> DEFINE last == resp # "none" /\ beats + 1 = Words
<1>2. s = <<>> \/ s[1].addr \in Value
  <2>1. s = <<>> \/ \E x \in mem.starts : s = <<x>>
    BY DEF Submits
  <2>2. \A x \in mem.starts : x.addr \in Value
    BY FetchAssumption DEF FetchInv, mem
  <2> QED BY <2>1, <2>2
<1>3. set = <<>> \/ (set[1] \in Reg /\ set[2] \in Value)
  <2>1. set = <<>> \/ set \in mem.sets
    BY DEF RegWrites
  <2>2. mem.sets \subseteq Reg \X Value
    BY FetchAssumption DEF FetchInv, mem
  <2> QED BY <2>1, <2>2
<1>4. Channel(resp, last, arready)
  BY DEF Channel, Beats
<1>5. /\ c' = Control(s, set, resp, last) /\ Read(arready, resp, last) /\ Store(resp, last)
      /\ UNCHANGED image
  BY <1>1, Zenon DEF Edge
<1> HIDE DEF last
<1> QED BY <1>2, <1>3, <1>4, <1>5, Zenon DEF Given


\* The block of a word lies where memory is.
LEMMA BlockValue ==
    ASSUME NEW a \in Value
    PROVE  Block(a) \in Value
<1> DEFINE r == a % Step
           q == a \div Step
<1>1. Step \in Nat \ {0} /\ Modulus \in Nat \ {0} /\ Value = 0 .. Modulus - 1
  BY Sizes
<1>2. r \in 0 .. Step - 1 /\ q \in Int /\ a = Step * q + r
  BY <1>1
<1> HIDE DEF r, q
<1>3. q >= 0
  <2>1. CASE q <= -1
    <3>1. Step * q <= -Step
      BY <1>1, <1>2, <2>1
    <3> QED BY <1>1, <1>2, <3>1
  <2> QED BY <1>2, <2>1
<1>4. Step * q >= 0
  BY <1>1, <1>2, <1>3
<1>5. r <= a
  BY <1>1, <1>2, <1>4
<1> QED BY <1>1, <1>2, <1>5 DEF Block, r

\* The types, after any edge.
LEMMA TypeStep ==
    ASSUME FetchInv, NEW s, NEW set, NEW resp, NEW last, NEW arready,
           Given(s, set, resp, last, arready)
    PROVE  /\ (image \in DOMAIN Images)' /\ CtlType(c') /\ CtlType(c)' /\ DataType'
           /\ Moves(c', Before(set), last, resp)
<1>1. /\ CtlType(c) /\ image \in DOMAIN Images /\ DataType
      /\ (c.state \in Busy => ~c.ldp_pend)
  BY DEF FetchInv, Busy
<1>2. Moves(c', Before(set), last, resp)
  BY <1>1, ControlMoves DEF Given
<1>3. CtlType(c')
  BY <1>2 DEF Moves
<1>4. ar' \in Value \cup {NoAddr}
  <2>1. c.fetch_addr \in Value /\ (c.state = "LDP" => c.ldp.a \in Value)
    BY <1>1 DEF CtlType, LdpOK
  <2>2. \A a \in Value : Block(a) \in Value
    BY BlockValue
  <2> QED BY <1>1, <2>1, <2>2 DEF Given, Read, DataType
<1>5. /\ bursts' \in Seq(Value) /\ beats' \in 0 .. Words - 1 /\ (bursts' = <<>> => beats' = 0)
  BY <1>1, ReadFacts, Zenon DEF Given
<1>6. fifo' \in Seq(Entry) /\ w' \in Seq(Entry) /\ Len(w') <= Words
  BY <1>1, StoreFacts, Zenon DEF Given
<1>7. (image \in DOMAIN Images)'
  BY <1>1 DEF Given
<1>8. DataType'
  BY <1>4, <1>5, <1>6 DEF DataType
<1> QED BY <1>2, <1>3, <1>7, <1>8, CtlTypeNext

\* The decoder works on.
LEMMA BusyStep ==
    ASSUME FetchInv, NEW s, NEW set, NEW resp, NEW last, NEW arready,
           Given(s, set, resp, last, arready), c.state \in Busy
    PROVE  FetchInv'
<1>1. /\ CtlType(c) /\ image \in DOMAIN Images /\ DataType /\ ~c.ldp_pend
      /\ SpaceReserved /\ WordsLocated
  BY DEF FetchInv, Busy
<1>2. /\ (image \in DOMAIN Images)' /\ CtlType(c') /\ CtlType(c)' /\ DataType'
      /\ Goes(c', Before(set))
  BY <1>1, TypeStep DEF Moves
<1>3. Channel(resp, last, arready) /\ Store(resp, last) /\ Read(arready, resp, last)
  BY DEF Given
<1>4. Before(set).fetch_addr = (IF issue THEN At(c.fetch_addr, 1) ELSE c.fetch_addr)
  BY <1>1, BeforeCommon DEF Given, Common
<1>5. CASE c'.state = "ERR"
  BY <1>2, <1>5 DEF FetchInv, GoesOn, Busy
<1>6. CASE c'.state = "DRAIN"
  <2>1. c'.resume \/ c'.ldp_pend => c'.fetch_addr = c'.dec_addr
    BY <1>2, <1>6 DEF Goes, Busy
  <2> QED BY <1>2, <1>6, <2>1 DEF FetchInv, GoesOn, Busy
<1>7. CASE c'.state \in Busy
  <2>1. /\ ~c'.ldp_pend /\ c'.fetch_addr = Before(set).fetch_addr
        /\ c'.dec_addr = IF consumed THEN At(c.dec_addr, 1) ELSE c.dec_addr
    BY <1>2, <1>7 DEF Goes, Busy
  <2>2. SpaceReserved'
    <3>1. Len(fifo') + Len(bursts') * Words - beats' + (IF ar' = NoAddr THEN 0 ELSE Words)
              <= MaxOut * Words
      BY <1>1, <1>3, SpaceStep
    <3> QED BY <3>1, Zenon DEF SpaceReserved
  <2>3. WordsLocated'
    <3>1. PICK k : Located(c.dec_addr, w \o fifo, k, beats, bursts, ar, c.fetch_addr)
      BY <1>1 DEF WordsLocated
    <3> DEFINE d1 == IF consumed THEN At(c.dec_addr, 1) ELSE c.dec_addr
               f1 == IF issue THEN At(c.fetch_addr, 1) ELSE c.fetch_addr
    <3>2. PICK k1 : Located(d1, w' \o fifo', k1, beats', Left(last), ar, c.fetch_addr)
      BY <1>1, <1>3, <3>1, StoreLocated
    <3> HIDE DEF d1
    <3>3. Located(d1, w' \o fifo', k1, beats', bursts', ar', f1)
      BY <1>1, <1>3, <3>2, ReadLocated
    <3> HIDE DEF f1
    <3>4. d1 = c'.dec_addr /\ f1 = c'.fetch_addr
      BY <1>4, <2>1 DEF d1, f1
    <3>5. Located(c'.dec_addr, w' \o fifo', k1, beats', bursts', ar', c'.fetch_addr)
      BY <3>3, <3>4
    <3> QED BY <3>5, LocatedNext
  <2> QED BY <1>2, <1>7, <2>1, <2>2, <2>3 DEF FetchInv, GoesOn, Busy
<1> QED BY <1>2, <1>5, <1>6, <1>7 DEF Goes


\* When no list is decoded, no word moves; what was asked for may still come.
LEMMA StillWords ==
    ASSUME NEW s, NEW set, NEW resp, NEW last, NEW arready,
           Given(s, set, resp, last, arready), c.state \notin Busy, DataType
    PROVE  /\ fifo' = (IF c.state = "DRAIN" /\ drained(last) THEN <<>> ELSE fifo)
           /\ w' = (IF c.state = "DRAIN" /\ drained(last) THEN <<>> ELSE w)
           /\ c.state # "LDP" => ar' = IF arready THEN NoAddr ELSE ar
           /\ bursts = <<>> => resp = "none" /\ ~last
           /\ ar = NoAddr => ~arready
<1>1. ~fetching /\ ~issue /\ ~pop /\ ~consumed
  BY DEF fetching, Busy, issue, pop, consumed, decode
<1>2. fifo \o <<>> = fifo
  BY DEF DataType
<1>3. /\ fifo' = (IF c.state = "DRAIN" /\ drained(last) THEN <<>> ELSE fifo)
      /\ w' = (IF c.state = "DRAIN" /\ drained(last) THEN <<>> ELSE w)
  BY <1>1, <1>2 DEF Given, Store
<1>4. c.state # "LDP" => ar' = IF arready THEN NoAddr ELSE ar
  BY <1>1 DEF Given, Read
<1>5. bursts = <<>> => resp = "none" /\ ~last
  BY DEF Given, Channel
<1>6. ar = NoAddr => ~arready
  BY DEF Given, Channel
<1> QED BY <1>3, <1>4, <1>5, <1>6

\* With nothing under way, nothing comes.
LEMMA QuietStays ==
    ASSUME NEW s, NEW set, NEW resp, NEW last, NEW arready,
           Given(s, set, resp, last, arready), c.state \notin Busy, DataType,
           bursts = <<>>, ar = NoAddr
    PROVE  /\ bursts' = <<>>
           /\ c.state # "LDP" => ar' = NoAddr
           /\ Quiet /\ c.state # "LDP" => Quiet'
           /\ c.state = "DRAIN" => Quiet'
<1>1. ~last /\ ~arready /\ fifo' \in {<<>>, fifo} /\ w' \in {<<>>, w}
  BY StillWords
<1>2. bursts' = <<>>
  <2>1. <<>> \o <<>> = <<>>
    BY EmptySeq
  <2> QED BY <1>1, <2>1 DEF Given, Read
<1>3. c.state # "LDP" => ar' = NoAddr
  BY <1>1, StillWords
<1>4. Quiet /\ c.state # "LDP" => Quiet'
  BY <1>1, <1>2, <1>3 DEF Quiet
<1>5. c.state = "DRAIN" => Quiet'
  <2>1. drained(last)
    BY <1>1 DEF drained
  <2> QED BY <1>2, <1>3, <2>1, StillWords DEF Quiet
<1> QED BY <1>2, <1>3, <1>4, <1>5

LEMMA IdleStep ==
    ASSUME FetchInv, NEW s, NEW set, NEW resp, NEW last, NEW arready,
           Given(s, set, resp, last, arready), c.state = "IDLE"
    PROVE  FetchInv'
<1>1. /\ (image \in DOMAIN Images)' /\ CtlType(c') /\ CtlType(c)' /\ DataType'
      /\ SubmitMoves(c') \/ (c'.state = "IDLE" /\ c'.ldp_pend = c.ldp_pend)
  BY TypeStep DEF Moves
<1>2. Quiet'
  BY QuietStays DEF FetchInv, Quiet, Busy
<1>3. ~c.ldp_pend
  BY DEF FetchInv
<1>4. CASE c'.state = "IDLE"
  <2>1. ~c'.ldp_pend
    BY <1>1, <1>3, <1>4 DEF SubmitMoves
  <2> QED BY <1>1, <1>2, <1>4, <2>1 DEF FetchInv, GoesOn, Busy
<1>5. CASE SubmitMoves(c') /\ c'.state = "ERR"
  BY <1>1, <1>5 DEF FetchInv, GoesOn, Busy, SubmitMoves
<1>6. CASE SubmitMoves(c') /\ c'.state = "RUN"
  <2>1. SpaceReserved' /\ WordsLocated'
    BY <1>1, <1>2, <1>6, QuietStarts DEF SubmitMoves
  <2> QED BY <1>1, <1>6, <2>1 DEF FetchInv, GoesOn, Busy, SubmitMoves
<1> QED BY <1>1, <1>4, <1>5, <1>6 DEF SubmitMoves

LEMMA DrainStep ==
    ASSUME FetchInv, NEW s, NEW set, NEW resp, NEW last, NEW arready,
           Given(s, set, resp, last, arready), c.state = "DRAIN"
    PROVE  FetchInv'
<1>1. /\ (image \in DOMAIN Images)' /\ CtlType(c') /\ CtlType(c)' /\ DataType'
      /\ DrainMoves(c', last)
  BY TypeStep DEF Moves
<1>2. GoesOn => c.fetch_addr = c.dec_addr
  BY DEF FetchInv
<1>3. CASE ~drained(last)
  BY <1>1, <1>2, <1>3 DEF FetchInv, GoesOn, Busy, DrainMoves
<1>4. CASE drained(last)
  <2>1. Quiet'
    BY <1>4, QuietStays DEF drained, Busy, FetchInv
  <2>2. CASE c.ldp_pend
    BY <1>1, <1>2, <1>4, <2>1, <2>2 DEF FetchInv, GoesOn, Busy, DrainMoves
  <2>3. CASE ~c.ldp_pend /\ c.resume
    <3>1. c'.state = "RUN" /\ c'.fetch_addr = c'.dec_addr /\ ~c'.ldp_pend
      BY <1>1, <1>2, <1>4, <2>3 DEF GoesOn, DrainMoves
    <3>2. SpaceReserved' /\ WordsLocated'
      BY <1>1, <2>1, <3>1, QuietStarts
    <3> QED BY <1>1, <3>1, <3>2 DEF FetchInv, GoesOn, Busy
  <2>4. CASE ~c.ldp_pend /\ ~c.resume
    BY <1>1, <1>4, <2>1, <2>4 DEF FetchInv, GoesOn, Busy, DrainMoves
  <2> QED BY <2>2, <2>3, <2>4
<1> QED BY <1>3, <1>4

LEMMA LdpStep ==
    ASSUME FetchInv, NEW s, NEW set, NEW resp, NEW last, NEW arready,
           Given(s, set, resp, last, arready), c.state = "LDP"
    PROVE  FetchInv'
<1>1. /\ (image \in DOMAIN Images)' /\ CtlType(c') /\ CtlType(c)' /\ DataType'
      /\ LdpMoves(c') \/ (c'.state = "DRAIN" /\ ~c'.resume /\ ~c'.ldp_pend)
  BY TypeStep DEF Moves
<1>2. CASE c'.state = "DRAIN" /\ ~c'.resume /\ ~c'.ldp_pend
  BY <1>1, <1>2 DEF FetchInv, GoesOn, Busy
<1>3. CASE LdpMoves(c')
  <2>1. Quiet /\ c.fetch_addr = c.dec_addr /\ DataType
    BY DEF FetchInv, GoesOn
  <2>2. /\ c'.state = "LDPW" /\ ~c'.ldp_calc /\ c'.fetch_addr = c'.dec_addr
    BY <1>3, <2>1 DEF LdpMoves
  <2>3. bursts' = <<>> /\ fifo' = <<>> /\ w' = <<>>
    BY <2>1, QuietStays, StillWords DEF Quiet, Busy
  <2>4. ar' # NoAddr
    <3>1. ar' = Block(c.ldp.a)
      BY DEF Given, Read
    <3>2. c.ldp.a \in Value
      BY DEF FetchInv, CtlType, LdpOK
    <3> QED BY <3>1, <3>2, BlockValue, Sizes
  <2>5. LdpBurst'
    BY <2>2, <2>3, <2>4 DEF LdpBurst
  <2> QED BY <1>1, <2>2, <2>5 DEF FetchInv, GoesOn, Busy
<1> QED BY <1>1, <1>2, <1>3

LEMMA LdpWaitStep ==
    ASSUME FetchInv, NEW s, NEW set, NEW resp, NEW last, NEW arready,
           Given(s, set, resp, last, arready), c.state = "LDPW"
    PROVE  FetchInv'
<1>1. /\ (image \in DOMAIN Images)' /\ CtlType(c') /\ CtlType(c)' /\ DataType'
      /\ LdpWaitMoves(c', resp, last) \/ (c'.state = "DRAIN" /\ ~c'.resume /\ ~c'.ldp_pend)
  BY TypeStep DEF Moves
<1>2. LdpBurst /\ c.fetch_addr = c.dec_addr /\ DataType
  BY DEF FetchInv, GoesOn
<1>3. fifo' = <<>> /\ w' = <<>> /\ ar' = (IF arready THEN NoAddr ELSE ar)
  BY <1>2, StillWords DEF LdpBurst, Busy
<1>4. CASE c'.state = "DRAIN" /\ ~c'.resume /\ ~c'.ldp_pend
  BY <1>1, <1>4 DEF FetchInv, GoesOn, Busy
<1>5. CASE LdpWaitMoves(c', resp, last) /\ c'.state = "ERR"
  BY <1>1, <1>5 DEF FetchInv, GoesOn, Busy
<1>6. CASE LdpWaitMoves(c', resp, last) /\ c.ldp_calc
  <2>1. Quiet'
    <3>1. Quiet
      BY <1>2, <1>6 DEF LdpBurst, Quiet
    <3> QED BY <1>2, <3>1, QuietStays DEF Quiet, Busy
  <2>2. /\ c'.state \in {"IDLE", "RUN"} /\ ~c'.ldp_pend /\ c'.fetch_addr = c'.dec_addr
    BY <1>2, <1>6 DEF LdpWaitMoves, LdpBurst
  <2>3. SpaceReserved' /\ WordsLocated'
    BY <1>1, <2>1, <2>2, QuietStarts
  <2> QED BY <1>1, <2>1, <2>2, <2>3 DEF FetchInv, GoesOn, Busy
<1>7. CASE LdpWaitMoves(c', resp, last) /\ ~c.ldp_calc /\ c'.state = "LDPW"
  <2>1. /\ c'.fetch_addr = c'.dec_addr
        /\ IF resp # "none" /\ last THEN c'.ldp_calc /\ ~c'.ldp_pend ELSE ~c'.ldp_calc
    BY <1>2, <1>7 DEF LdpWaitMoves
  <2>2. bursts' = IF ar # NoAddr /\ arready THEN Append(Left(last), ar) ELSE Left(last)
    BY <1>2, ReadFacts DEF Given
  <2>3. CASE ar # NoAddr /\ bursts = <<>>
    <3>1. ~last /\ resp = "none" /\ Left(last) = <<>>
      BY <1>2, <2>3, StillWords DEF Left, Busy
    <3>2. IF arready THEN Len(bursts') = 1 /\ ar' = NoAddr ELSE bursts' = <<>> /\ ar' = ar
      <4>1. Append(<<>>, ar) = <<ar>> /\ Len(<<ar>>) = 1
        OBVIOUS
      <4> QED BY <1>3, <2>2, <2>3, <3>1, <4>1
    <3>3. LdpBurst'
      BY <1>3, <2>1, <2>3, <3>1, <3>2 DEF LdpBurst
    <3> QED BY <1>1, <1>7, <2>1, <3>3 DEF FetchInv, GoesOn, Busy
  <2>4. CASE ar = NoAddr /\ Len(bursts) = 1
    <3>1. ~arready /\ ar' = NoAddr /\ bursts' = Left(last)
      BY <1>2, <1>3, <2>2, <2>4, StillWords DEF Busy
    <3> DEFINE l == Left(last)
    <3>2. l \in Seq(Value) /\ (last => Len(l) = 0) /\ (~last => Len(l) = 1)
      <4>1. l \in Seq(Value) /\ Len(l) = Len(bursts) - (IF last THEN 1 ELSE 0)
        BY <1>2, LeftFacts DEF Given
      <4> HIDE DEF l
      <4> QED BY <2>4, <4>1
    <3> HIDE DEF l
    <3>3. last => resp # "none"
      BY DEF Given, Channel
    <3>4. CASE last
      <4>1. bursts' = <<>>
        <5>1. l = <<>>
          BY <3>2, <3>4, EmptySeq
        <5> QED BY <3>1, <5>1 DEF l
      <4>2. LdpBurst'
        BY <1>3, <2>1, <3>1, <3>3, <3>4, <4>1 DEF LdpBurst
      <4> QED BY <1>1, <1>7, <2>1, <4>2 DEF FetchInv, GoesOn, Busy
    <3>5. CASE ~last
      <4>1. Len(bursts') = 1
        BY <3>1, <3>2, <3>5 DEF l
      <4>2. LdpBurst'
        BY <1>3, <2>1, <3>1, <3>5, <4>1 DEF LdpBurst
      <4> QED BY <1>1, <1>7, <2>1, <4>2 DEF FetchInv, GoesOn, Busy
    <3> QED BY <3>4, <3>5
  <2> QED BY <1>2, <1>7, <2>3, <2>4 DEF LdpBurst
<1> QED BY <1>1, <1>4, <1>5, <1>6, <1>7 DEF LdpWaitMoves

LEMMA ErrStep ==
    ASSUME FetchInv, NEW s, NEW set, NEW resp, NEW last, NEW arready,
           Given(s, set, resp, last, arready), c.state = "ERR"
    PROVE  FetchInv'
<1>1. /\ (image \in DOMAIN Images)' /\ CtlType(c') /\ CtlType(c)' /\ DataType'
      /\ c'.state = "ERR" \/ (c'.state = "DRAIN" /\ ~c'.resume /\ ~c'.ldp_pend)
  BY TypeStep DEF Moves
<1> QED BY <1>1 DEF FetchInv, GoesOn, Busy


\* Nothing of the unit changes in a step that stutters.
LEMMA StutterStep ==
    ASSUME FetchInv, UNCHANGED vars
    PROVE  FetchInv'
<1>1. /\ image' = image /\ c' = c /\ ar' = ar /\ bursts' = bursts /\ beats' = beats
      /\ fifo' = fifo /\ w' = w
  BY DEF vars
<1>2. CtlType(c)' /\ DataType' /\ (image \in DOMAIN Images)'
  <2>1. CtlType(c')
    BY <1>1 DEF FetchInv
  <2> QED BY <1>1, <2>1, CtlTypeNext DEF FetchInv, DataType
<1>3. c.state \in Busy => SpaceReserved' /\ WordsLocated'
  <2> SUFFICES ASSUME c.state \in Busy
               PROVE  SpaceReserved' /\ WordsLocated'
    OBVIOUS
  <2>1. PICK k : Located(c.dec_addr, w \o fifo, k, beats, bursts, ar, c.fetch_addr)
    BY DEF FetchInv, WordsLocated
  <2>2. Located(c'.dec_addr, w' \o fifo', k, beats', bursts', ar', c'.fetch_addr)
    BY <1>1, <2>1
  <2>3. SpaceReserved'
    <3>1. SpaceReserved
      BY DEF FetchInv
    <3> QED BY <1>1, <3>1 DEF SpaceReserved, fetching
  <2> QED BY <2>2, <2>3, LocatedNext
<1> QED BY <1>1, <1>2, <1>3 DEF FetchInv, Quiet, LdpBurst, GoesOn

LEMMA FetchStart ==
    ASSUME Init
    PROVE  FetchInv
<1>1. /\ image \in DOMAIN Images /\ ar = NoAddr /\ bursts = <<>> /\ beats = 0
      /\ fifo = <<>> /\ w = <<>>
      /\ c.state = "IDLE" /\ c.ldp_pend = FALSE
  BY DEF Init
<1>2. CtlType(c)
  <2>1. IsDesc(Invalid)
    BY EmptySeq DEF IsDesc, Invalid, Ops
  <2>2. /\ DOMAIN c = CtlFields /\ c.state = "IDLE" /\ c.fetch_addr = 0 /\ c.dec_addr = 0
        /\ c.d = Invalid /\ c.pdone = 0 /\ c.cs = <<>> /\ c.regs = [r \in Reg |-> 0]
        /\ c.sr = <<>> /\ c.ldp_pend = FALSE /\ c.ldp_word = 0
    BY DEF Init, CtlFields
  <2>3. 0 \in Value /\ c.regs \in [Reg -> Value]
    BY <2>2, Sizes
  <2>4. WritesOK(<<>>) /\ <<>> \in Seq(Value)
    <3> DEFINE E == {}
               sr == <<>>
    <3>1. sr \in Seq(E) /\ sr \in Seq(Value)
      BY EmptySeq
    <3>2. \A x \in E : x.v \in Value
      OBVIOUS
    <3> HIDE DEF E, sr
    <3>3. WritesOK(sr)
      BY <3>1, <3>2 DEF WritesOK
    <3> QED BY <3>1, <3>3 DEF sr
  <2> QED BY <2>1, <2>2, <2>3, <2>4 DEF CtlType, Busy
<1>3. DataType
  <2>1. <<>> \in Seq(Entry) /\ <<>> \in Seq(Value) /\ Len(<<>>) = 0
    BY EmptySeq
  <2> QED BY <1>1, <2>1, Sizes DEF DataType
<1> QED BY <1>1, <1>2, <1>3 DEF FetchInv, Quiet, GoesOn, Busy

\* Whatever software submits and memory holds, the fetch unit keeps its words in
\* their places: FetchInv is inductive.
THEOREM FetchInductive == Spec => []FetchInv
<1>1. FetchInv /\ [Next]_vars => FetchInv'
  <2> SUFFICES ASSUME FetchInv, [Next]_vars
               PROVE  FetchInv'
    OBVIOUS
  <2>1. CASE UNCHANGED vars
    BY <2>1, StutterStep
  <2>2. CASE Next
    <3>1. PICK s, set, resp, last, arready : Given(s, set, resp, last, arready)
      BY <2>2, EdgeGiven
    <3>2. c.state \in Busy \cup {"IDLE", "DRAIN", "LDP", "LDPW", "ERR"}
      BY DEF FetchInv, CtlType
    <3> QED BY <3>1, <3>2, BusyStep, IdleStep, DrainStep, LdpStep, LdpWaitStep, ErrStep
  <2> QED BY <2>1, <2>2
<1> QED BY <1>1, FetchStart, PTL DEF Spec

\* A burst is issued only when the FIFO has room for all that is under way and
\* for it, so r_ready may be 1 always (sa_cmdfetch.v: room, ar_valid).
THEOREM SpaceAlways == Spec => []SpaceReserved
<1>1. FetchInv => SpaceReserved
  BY DEF FetchInv, SpaceReserved, fetching, Busy
<1> QED BY <1>1, FetchInductive, PTL

\* Prefetch, jumps, LDPARAM's refetch and abandoned lists never let the decoder
\* see a word of another address (sa_cmdfetch.v: fetch_addr, dec_addr, S_DRAIN).
THEOREM AlwaysInStep == Spec => []InStep
<1>1. FetchInv => InStep
  <2> SUFFICES ASSUME FetchInv
               PROVE  InStep
    OBVIOUS
  <2>1. CASE c.state \in Busy
    BY <2>1, LocatedInStep DEF FetchInv, WordsLocated
  <2>2. CASE c.state \notin Busy
    BY <2>2, Zenon DEF InStep, fetching, Busy
  <2> QED BY <2>1, <2>2
<1> QED BY <1>1, FetchInductive, PTL


=============================================================================
