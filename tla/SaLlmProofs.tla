----------------------------- MODULE SaLlmProofs -----------------------------
(***************************************************************************)
(* What sa-llm-run prints, proved for every prompt, model, chunk length,   *)
(* padding, bucket and block length: a greedy continuation, all of it, and *)
(* the logits of the prompt once.                                          *)
(***************************************************************************)
EXTENDS SaLlmRun, WellFoundedInduction, SequenceTheorems, FiniteSetTheorems, TLAPS

-----------------------------------------------------------------------------
(* Least and largest elements. *)

\* A nonempty set of naturals has a least element, and Min is it.
LEMMA Smallest ==
    ASSUME NEW S \in SUBSET Nat, S # {}
    PROVE  Min(S) \in S /\ \A y \in S : Min(S) <= y
<1> DEFINE R == {ss \in Nat \X Nat : ss[1] < ss[2]}
<1>1. IsWellFoundedOn(R, Nat)
  BY NatLessThanWellFounded, Zenon DEF OpToRel
<1>2. \A x, y \in S : ~(<<y, x>> \in R) => x <= y
  OBVIOUS
<1> HIDE DEF R
<1>3. \E x \in S : \A y \in S : ~(<<y, x>> \in R)
  BY <1>1, WFMin, Zenon
<1>4. \E x \in S : \A y \in S : x <= y
  BY <1>2, <1>3, Zenon
<1> QED BY <1>4, Zenon DEF Min

\* Of finitely many integers one is the largest.
LEMMA HasLargest ==
    ASSUME NEW n \in Nat, NEW f \in [0 .. n -> Int]
    PROVE  \E v \in 0 .. n : \A u \in 0 .. n : f[u] <= f[v]
<1> DEFINE Ok(j) == \E v \in 0 .. j : \A u \in 0 .. j : f[u] <= f[v]
           T == {j \in 0 .. n : ~Ok(j)}
<1>1. SUFFICES ASSUME ~Ok(n)
               PROVE  FALSE
  OBVIOUS
<1>2. T \in SUBSET Nat /\ n \in T
  BY <1>1
<1>3. PICK k \in T : \A y \in T : k <= y
  BY <1>2, Smallest, Zenon
<1>4. k \in 0 .. n /\ ~Ok(k)
  BY <1>3
<1>5. k # 0
  <2> SUFFICES ASSUME k = 0 PROVE FALSE
    OBVIOUS
  <2>1. 0 \in 0 .. 0 /\ \A u \in 0 .. 0 : f[u] <= f[0]
    OBVIOUS
  <2> QED BY <2>1, <1>4
<1>6. k - 1 \in 0 .. n /\ k - 1 < k
  BY <1>4, <1>5
<1>7. Ok(k - 1)
  <2>1. k \in Nat
    BY <1>4
  <2>2. k - 1 \notin T
    <3> HIDE DEF T
    <3> QED BY <1>3, <2>1
  <2> QED BY <1>6, <2>2
<1>8. PICK v \in 0 .. k - 1 : \A u \in 0 .. k - 1 : f[u] <= f[v]
  BY <1>7
<1>9. v \in 0 .. k /\ k \in 0 .. k /\ f[v] \in Int /\ f[k] \in Int
  BY <1>4, <1>6, <1>8
<1>10. \A u \in 0 .. k : u \in 0 .. k - 1 \/ u = k
  BY <1>4
<1>11. \A u \in 0 .. k : f[u] \in Int
  BY <1>4
<1>12. CASE f[k] <= f[v]
  <2>1. \A u \in 0 .. k : f[u] <= f[v]
    BY <1>8, <1>10, <1>12
  <2> QED BY <1>4, <1>9, <2>1
<1>13. CASE f[v] < f[k]
  <2>1. \A u \in 0 .. k : f[u] <= f[k]
    BY <1>8, <1>9, <1>10, <1>11, <1>13
  <2> QED BY <1>4, <1>9, <2>1
<1> QED BY <1>9, <1>12, <1>13

Floats == [Id -> Int]

\* The value of a float that is not a zero is its bits.
LEMMA ValueInt ==
    ASSUME NEW x \in Int
    PROVE  Value(x) \in Int /\ (Value(x) # 0 => Value(x) = x)
BY DEF Value

\* Where the bits are ordered, so are the values...
LEMMA ValueOrder ==
    ASSUME NEW x \in Int, NEW y \in Int, x <= y
    PROVE  Value(x) <= Value(y)
BY DEF Value

\* ...and tells apart all values but those of the two zeros.
LEMMA ValueStrict ==
    ASSUME NEW x \in Int, NEW y \in Int, Value(x) # Value(y), x <= y
    PROVE  Value(x) < Value(y)
BY DEF Value

\* There is a largest logit, and argmax finds the first.
LEMMA ArgmaxRight ==
    ASSUME NEW l \in Floats
    PROVE  Argmax(l) \in Id /\ Argmax(l) \in Largest(l)
<1> DEFINE f == [v \in 0 .. Vocab - 1 |-> Value(l[v])]
<1>1. Vocab \in Nat \ {0} /\ Vocab - 1 \in Nat /\ Id = 0 .. Vocab - 1
  BY VocabAssumption DEF Id
<1>2. f \in [0 .. Vocab - 1 -> Int]
  BY <1>1, ValueInt DEF Floats
<1>3. PICK v \in 0 .. Vocab - 1 : \A u \in 0 .. Vocab - 1 : f[u] <= f[v]
  BY <1>1, <1>2, HasLargest
<1>4. v \in Largest(l)
  BY <1>1, <1>3 DEF Largest
<1>5. Largest(l) \in SUBSET Nat /\ Largest(l) \subseteq Id
  BY <1>1 DEF Largest
<1> QED BY <1>4, <1>5, Smallest, Zenon DEF Argmax


-----------------------------------------------------------------------------
(* Blocks of logits. *)

MaxOf(l, j) == Max({l[v] : v \in j * Block .. (j + 1) * Block - 1})
Maxima(l) == [j \in 0 .. Blocks - 1 |-> MaxOf(l, j)]

\* The constants as numbers: the blocks divide the vocabulary.
LEMMA Sizes ==
    /\ Blocks \in Nat \ {0} /\ Block \in Nat \ {0} /\ Vocab = Block * Blocks
    /\ Pad \in Nat \ {0} /\ MaxLen \in Nat
<1>1. /\ Blocks \in Nat \ {0} /\ Vocab \in Nat \ {0} /\ Vocab % Blocks = 0
      /\ Pad \in Nat \ {0} /\ MaxLen \in Nat
  BY VocabAssumption, TableAssumption, CoreAssumption
<1>2. Block \in Int /\ Vocab = (Blocks * Block) + (Vocab % Blocks)
  BY <1>1 DEF Block
<1>3. Vocab = Block * Blocks
  BY <1>1, <1>2
<1>4. Block > 0
  BY <1>1, <1>2, <1>3
<1> QED BY <1>1, <1>2, <1>3, <1>4

\* The tokens of a block.
LEMMA InBlocks ==
    ASSUME NEW j \in 0 .. Blocks - 1
    PROVE  /\ j * Block \in Nat /\ (j + 1) * Block = j * Block + Block
           /\ \A v \in j * Block .. j * Block + Block - 1 : v \in Id
<1>1. /\ Blocks \in Nat \ {0} /\ Block \in Nat \ {0} /\ Vocab = Block * Blocks
  BY Sizes
<1>2. j \in Nat /\ Blocks - 1 - j \in Nat
  BY <1>1
<1>3. j * Block \in Nat /\ (Blocks - 1 - j) * Block \in Nat
  BY <1>1, <1>2
<1>4. (j + 1) * Block = j * Block + Block
  BY <1>1, <1>2
<1>5. Block * Blocks = (Blocks - 1 - j) * Block + (j * Block + Block)
  BY <1>1, <1>2
<1>6. ASSUME NEW v \in j * Block .. j * Block + Block - 1
      PROVE  v \in Id
  <2> DEFINE x == j * Block
             y == (Blocks - 1 - j) * Block
  <2>1. x \in Nat /\ y \in Nat /\ Vocab = y + (x + Block) /\ v \in x .. x + Block - 1
    BY <1>1, <1>3, <1>5
  <2> HIDE DEF x, y
  <2> QED BY <1>1, <2>1 DEF Id
<1> QED BY <1>3, <1>4, <1>6

\* Every token is in a block.
LEMMA BlockOf ==
    ASSUME NEW v \in Id
    PROVE  /\ v \div Block \in 0 .. Blocks - 1
           /\ v \in (v \div Block) * Block .. (v \div Block) * Block + Block - 1
<1>1. /\ Blocks \in Nat \ {0} /\ Block \in Nat \ {0} /\ Vocab = Block * Blocks
      /\ v \in Nat /\ v < Vocab
  BY Sizes DEF Id
<1> DEFINE d == v \div Block
           r == v % Block
<1>2. d \in Int /\ r \in 0 .. Block - 1 /\ v = Block * d + r
  BY <1>1
<1> HIDE DEF d, r
<1>3. d >= 0
  BY <1>1, <1>2
<1>4. d < Blocks
  <2> SUFFICES ASSUME d >= Blocks PROVE FALSE
    BY <1>1, <1>2
  <2>1. d - Blocks \in Nat
    BY <1>1, <1>2, <1>3
  <2>2. Block * (d - Blocks) \in Nat /\ Block * d = Block * Blocks + Block * (d - Blocks)
    BY <1>1, <1>2, <2>1
  <2> QED BY <1>1, <1>2, <2>2
<1>5. d \in 0 .. Blocks - 1 /\ d * Block = Block * d
  BY <1>1, <1>2, <1>3, <1>4
<1>6. v \in d * Block .. d * Block + Block - 1
  BY <1>1, <1>2, <1>5
<1> QED BY <1>5, <1>6 DEF d

\* The maximum of a block is one of its logits.
LEMMA MaxOfRight ==
    ASSUME NEW l \in Floats, NEW j \in 0 .. Blocks - 1
    PROVE  /\ MaxOf(l, j) \in Int
           /\ \E i \in 0 .. Block - 1 : l[j * Block + i] = MaxOf(l, j)
           /\ \A v \in j * Block .. j * Block + Block - 1 : l[v] <= MaxOf(l, j)
<1> DEFINE a == j * Block
           f == [i \in 0 .. Block - 1 |-> l[a + i]]
           S == {l[v] : v \in j * Block .. (j + 1) * Block - 1}
<1>1. /\ Block \in Nat \ {0} /\ Block - 1 \in Nat /\ a \in Nat /\ (j + 1) * Block - 1 = a + Block - 1
      /\ \A v \in a .. a + Block - 1 : v \in Id
  BY Sizes, InBlocks
<1>2. \A i \in 0 .. Block - 1 : a + i \in a .. a + Block - 1
  BY <1>1
<1>3. f \in [0 .. Block - 1 -> Int]
  BY <1>1, <1>2 DEF Floats
<1>4. PICK i \in 0 .. Block - 1 : \A u \in 0 .. Block - 1 : f[u] <= f[i]
  BY <1>1, <1>3, HasLargest
<1>5. \A v \in a .. a + Block - 1 : v - a \in 0 .. Block - 1 /\ a + (v - a) = v
  BY <1>1
<1>6. \A v \in a .. a + Block - 1 : l[v] <= l[a + i]
  BY <1>4, <1>5
<1>7. S = {l[v] : v \in a .. a + Block - 1}
  BY <1>1
<1> HIDE DEF a, S
<1>8. l[a + i] \in S /\ \A y \in S : l[a + i] >= y
  <2>1. a + i \in a .. a + Block - 1
    BY <1>2
  <2>2. \A v \in a .. a + Block - 1 : l[v] \in Int
    BY <1>1 DEF Floats
  <2> QED BY <1>6, <1>7, <2>1, <2>2
<1>9. S \subseteq Int
  BY <1>1, <1>7 DEF Floats
<1>10. Max(S) \in S /\ \A y \in S : Max(S) >= y
  BY <1>8, Zenon DEF Max
<1>11. Max(S) = l[a + i]
  <2> DEFINE x == Max(S)
             y == l[a + i]
  <2>1. x \in S /\ y \in S /\ x >= y /\ y >= x
    BY <1>8, <1>10
  <2>2. x \in Int /\ y \in Int
    BY <1>9, <2>1
  <2> HIDE DEF x, y
  <2>3. x = y
    BY <2>1, <2>2
  <2> QED BY <2>3 DEF x, y
<1>12. MaxOf(l, j) = l[a + i]
  BY <1>11 DEF MaxOf, S
<1> QED BY <1>2, <1>1, <1>4, <1>6, <1>12 DEF a, Floats


\* The core's two steps find a largest logit, and the first of them unless it is
\* a zero.
LEMMA CoreChoice ==
    ASSUME NEW l \in Floats, NEW bm, bm = Maxima(l), NEW v,
           v = BestBlock(bm) * Block + InBlock(l, BestBlock(bm), bm[BestBlock(bm)])
    PROVE  v \in Id /\ v \in Largest(l) /\ (Value(l[v]) # 0 => v = Argmax(l))
<1> DEFINE order(x) == IF tab.r5 THEN Value(x) ELSE x
           f == [i \in 0 .. Blocks - 1 |-> order(bm[i])]
           D == {i \in 0 .. Blocks - 1 : \A k \in 0 .. Blocks - 1 : order(bm[k]) <= order(bm[i])}
           j == BestBlock(bm)
           m == bm[j]
           found == {i \in 0 .. Block - 1 : Value(l[j * Block + i]) = Value(m)}
           i0 == InBlock(l, j, m)
<1>1. /\ Blocks \in Nat \ {0} /\ Blocks - 1 \in Nat /\ Block \in Nat \ {0} /\ Vocab = Block * Blocks
  BY Sizes
<1>2. \A i \in 0 .. Blocks - 1 : bm[i] = MaxOf(l, i) /\ bm[i] \in Int
  BY MaxOfRight DEF Maxima
<1>3. f \in [0 .. Blocks - 1 -> Int]
  BY <1>2, ValueInt
<1>4. \E i \in 0 .. Blocks - 1 : i \in D
  BY <1>1, <1>3, HasLargest
<1>5. D \in SUBSET Nat /\ j = Min(D)
  BY <1>1 DEF BestBlock
<1>6. j \in D /\ \A i \in D : j <= i
  BY <1>4, <1>5, Smallest, Zenon
<1>7. /\ j \in 0 .. Blocks - 1 /\ m \in Int /\ m = MaxOf(l, j)
      /\ \A k \in 0 .. Blocks - 1 : order(bm[k]) <= order(m)
  BY <1>2, <1>6
<1>8. \A k \in 0 .. Blocks - 1 : Value(bm[k]) <= Value(m)
  BY <1>2, <1>7, ValueOrder
<1>9. \A k \in 0 .. Blocks - 1 : Value(bm[k]) = Value(m) /\ Value(m) # 0 => j <= k
  <2> SUFFICES ASSUME NEW k \in 0 .. Blocks - 1, Value(bm[k]) = Value(m), Value(m) # 0
               PROVE  k \in D
    BY <1>6
  <2>1. bm[k] = m
    BY <1>2, <1>7, ValueInt
  <2> QED BY <1>7, <2>1
<1> HIDE DEF j, m, D, f, order
<1>10. found # {} /\ found \in SUBSET Nat
  BY <1>7, MaxOfRight
<1>11. i0 = Min(found)
  BY <1>10 DEF InBlock
<1>12. i0 \in found /\ \A i \in found : i0 <= i
  BY <1>10, <1>11, Smallest, Zenon
<1>13. v = j * Block + i0
  BY DEF j, m
<1>14. /\ i0 \in 0 .. Block - 1 /\ Value(l[v]) = Value(m)
       /\ \A i \in 0 .. Block - 1 : Value(l[j * Block + i]) = Value(m) => i0 <= i
  BY <1>12, <1>13
<1> HIDE DEF found, i0
<1>15. /\ j * Block \in Nat /\ (j + 1) * Block = j * Block + Block
       /\ \A u \in j * Block .. j * Block + Block - 1 : u \in Id
  BY <1>7, InBlocks
<1>16. v \in j * Block .. j * Block + Block - 1
  <2> DEFINE a == j * Block
  <2>1. a \in Nat /\ v = a + i0
    BY <1>13, <1>15
  <2> HIDE DEF a
  <2>2. v \in a .. a + Block - 1
    BY <1>1, <1>14, <2>1
  <2> QED BY <2>2 DEF a
<1>17. v \in Id
  BY <1>15, <1>16
<1>18. ASSUME NEW u \in Id
       PROVE  /\ u \div Block \in 0 .. Blocks - 1
              /\ u \in (u \div Block) * Block .. (u \div Block) * Block + Block - 1
              /\ l[u] <= bm[u \div Block] /\ Value(l[u]) <= Value(bm[u \div Block])
              /\ Value(l[u]) <= Value(m)
  <2> DEFINE k == u \div Block
  <2>1. k \in 0 .. Blocks - 1 /\ u \in k * Block .. k * Block + Block - 1
    BY BlockOf
  <2> HIDE DEF k
  <2>2. l[u] <= bm[k]
    BY <1>2, <2>1, MaxOfRight
  <2>3. l[u] \in Int /\ bm[k] \in Int
    BY <1>2, <2>1 DEF Floats
  <2>4. Value(l[u]) <= Value(bm[k]) /\ Value(bm[k]) <= Value(m)
    BY <1>8, <2>1, <2>2, <2>3, ValueOrder
  <2>5. Value(l[u]) \in Int /\ Value(bm[k]) \in Int /\ Value(m) \in Int
    BY <1>7, <2>3, ValueInt
  <2>6. Value(l[u]) <= Value(m)
    BY <2>4, <2>5
  <2> QED BY <2>1, <2>2, <2>4, <2>6 DEF k
<1>19. v \in Largest(l)
  BY <1>14, <1>17, <1>18 DEF Largest
<1>20. ASSUME Value(l[v]) # 0
       PROVE  v = Argmax(l)
  <2> DEFINE a == Argmax(l)
             k == a \div Block
  <2>1. a \in Id /\ a \in Largest(l) /\ a = Min(Largest(l))
    BY ArgmaxRight, Zenon DEF Argmax
  <2>2. Largest(l) \in SUBSET Nat
    BY DEF Largest, Id
  <2>3. a <= v
    BY <1>19, <2>1, <2>2, Smallest, Zenon
  <2>4. Value(l[v]) <= Value(l[a])
    BY <1>17, <2>1 DEF Largest
  <2> HIDE DEF a
  <2>5. /\ k \in 0 .. Blocks - 1 /\ a \in k * Block .. k * Block + Block - 1
        /\ Value(l[a]) <= Value(bm[k]) /\ Value(l[a]) <= Value(m)
    BY <1>18, <2>1
  <2>6. bm[k] \in Int /\ l[a] \in Int /\ Value(bm[k]) <= Value(m)
    BY <1>2, <1>8, <2>1, <2>5 DEF Floats
  <2> HIDE DEF k
  <2>7. Value(l[a]) \in Int /\ Value(bm[k]) \in Int /\ Value(m) \in Int
    BY <1>7, <2>6, ValueInt
  <2>8. Value(bm[k]) = Value(m) /\ Value(l[a]) = Value(m) /\ Value(m) # 0
    BY <1>14, <1>20, <2>4, <2>5, <2>6, <2>7
  <2>9. j <= k
    BY <1>9, <2>5, <2>8
  <2>10. k = j
    <3> SUFFICES ASSUME k > j PROVE FALSE
      BY <1>7, <2>5, <2>9
    <3>1. k - j - 1 \in Nat
      BY <1>7, <2>5
    <3>2. (k - j - 1) * Block \in Nat
      BY <1>1, <3>1
    <3>3. k * Block = (k - j - 1) * Block + (j * Block + Block) /\ k * Block \in Nat
      BY <1>1, <1>7, <2>5, <3>1
    <3> DEFINE A == k * Block
               B == (k - j - 1) * Block
               C == j * Block
    <3>4. A = B + (C + Block) /\ A \in Nat /\ B \in Nat /\ C \in Nat /\ a >= A /\ v <= C + Block - 1
      BY <1>15, <1>16, <2>5, <3>2, <3>3
    <3>5. a \in Nat /\ v \in Nat /\ Block \in Nat
      BY <1>1, <1>17, <2>1 DEF Id
    <3> HIDE DEF A, B, C
    <3> QED BY <2>3, <3>4, <3>5
  <2> DEFINE c == j * Block
  <2>11. c \in Nat /\ a \in c .. c + Block - 1 /\ v = c + i0
    BY <1>13, <1>15, <2>5, <2>10
  <2>12. \A i \in 0 .. Block - 1 : Value(l[c + i]) = Value(m) => i0 <= i
    BY <1>14
  <2> HIDE DEF c
  <2>13. a - c \in 0 .. Block - 1 /\ c + (a - c) = a
    BY <1>1, <2>11
  <2>14. i0 <= a - c
    BY <2>8, <2>12, <2>13
  <2>15. v = a
    BY <1>14, <2>3, <2>11, <2>13, <2>14
  <2> QED BY <2>15 DEF a
<1> QED BY <1>17, <1>19, <1>20


-----------------------------------------------------------------------------
(* Greedy continuations. *)

\* What a concatenation holds.
LEMMA Joined ==
    ASSUME NEW S, NEW s \in Seq(S), NEW u \in Seq(S)
    PROVE  /\ s \o u \in Seq(S) /\ Len(s \o u) = Len(s) + Len(u)
           /\ \A i \in 1 .. Len(s) + Len(u) : (s \o u)[i] = IF i <= Len(s) THEN s[i] ELSE u[i - Len(s)]
BY ConcatProperties

\* The first n tokens of s, as the KV cache holds them.
Prefix(s, n) == [i \in 0 .. n - 1 |-> s[i + 1]]

Goes(l, t) == t \in Largest(l) /\ (Value(l[t]) # 0 => t = Argmax(l))

\* The k-th token of s is right; t may follow s; all of s is right.
Right(x, s, k) ==
    IF k <= Len(x.toks) THEN s[k] = x.toks[k]
    ELSE Goes(Logits(x.model, Prefix(s, k - 1)), s[k])
Choice(x, s, t) ==
    IF Len(s) < Len(x.toks) THEN t = x.toks[Len(s) + 1]
    ELSE Goes(Logits(x.model, Prefix(s, Len(s))), t)
Good(x, s) == s \in Seq(Id) /\ \A k \in 1 .. Len(s) : Right(x, s, k)

Begins(s, u) == Len(s) <= Len(u) /\ \A i \in 1 .. Len(s) : u[i] = s[i]

\* The model's logits are floats.
LEMMA LogitsFloat ==
    ASSUME NEW x \in World, NEW n \in 1 .. MaxLen, NEW seen \in [0 .. n - 1 -> Id]
    PROVE  Logits(x.model, seen) \in Floats
<1>1. x.model \in {y.model : y \in World}
  OBVIOUS
<1> QED BY <1>1, WorldAssumption DEF Floats

\* The first tokens are tokens...
LEMMA PrefixType ==
    ASSUME NEW s \in Seq(Id), NEW n \in 0 .. Len(s)
    PROVE  Prefix(s, n) \in [0 .. n - 1 -> Id]
<1>1. \A i \in 0 .. n - 1 : i + 1 \in 1 .. Len(s)
  OBVIOUS
<1>2. \A i \in 1 .. Len(s) : s[i] \in Id
  OBVIOUS
<1> QED BY <1>1, <1>2 DEF Prefix

\* ...and are those of every sequence that begins alike.
LEMMA PrefixSame ==
    ASSUME NEW s, NEW u, NEW n \in Nat, \A i \in 1 .. n : s[i] = u[i]
    PROVE  Prefix(s, n) = Prefix(u, n)
<1>1. \A i \in 0 .. n - 1 : i + 1 \in 1 .. n
  OBVIOUS
<1> QED BY <1>1 DEF Prefix

\* LlmStep's After in terms of Prefix.
LEMMA AfterIs ==
    ASSUME NEW m, NEW s \in Seq(Id), NEW n \in 0 .. Len(s)
    PROVE  After(m, SubSeq(s, 1, n)) = Logits(m, Prefix(s, n))
<1> DEFINE u == SubSeq(s, 1, n)
<1>1. Len(u) = n /\ \A i \in 1 .. n : u[i] = s[i]
  OBVIOUS
<1> HIDE DEF u
<1>2. n \in Nat
  OBVIOUS
<1>3. \A i \in 0 .. n - 1 : i + 1 \in 1 .. n
  BY <1>2
<1>4. [i \in 0 .. Len(u) - 1 |-> u[i + 1]] = Prefix(s, n)
  BY <1>1, <1>3 DEF Prefix
<1> QED BY <1>4 DEF After, u

\* Whether the k-th token is right depends on the first k only.
LEMMA Alike1 ==
    ASSUME NEW x, x.toks \in Seq(Id), NEW s, NEW u, NEW k \in Nat \ {0}, \A i \in 1 .. k : u[i] = s[i]
    PROVE  Right(x, u, k) <=> Right(x, s, k)
<1>1. k \in 1 .. k /\ k - 1 \in Nat /\ \A i \in 1 .. k - 1 : i \in 1 .. k
  OBVIOUS
<1>2. Prefix(u, k - 1) = Prefix(s, k - 1)
  BY <1>1, PrefixSame
<1>3. u[k] = s[k]
  BY <1>1
<1> QED BY <1>2, <1>3 DEF Right

\* A right choice continues a right sequence.
LEMMA GoodAppend ==
    ASSUME NEW x, x.toks \in Seq(Id), NEW s, Good(x, s), NEW t \in Id, Choice(x, s, t)
    PROVE  Good(x, Append(s, t)) /\ Len(Append(s, t)) = Len(s) + 1 /\ Begins(s, Append(s, t))
<1> DEFINE u == Append(s, t)
           n == Len(s)
<1>1. /\ u \in Seq(Id) /\ Len(u) = n + 1 /\ n \in Nat /\ u[n + 1] = t
      /\ \A i \in 1 .. n : u[i] = s[i]
  BY DEF Good
<1>2. ASSUME NEW k \in 1 .. n
      PROVE  Right(x, u, k)
  <2>1. k \in Nat \ {0} /\ \A i \in 1 .. k : i \in 1 .. n
    BY <1>1
  <2> HIDE DEF u
  <2>2. Right(x, u, k) <=> Right(x, s, k)
    BY <1>1, <2>1, Alike1
  <2> QED BY <2>2 DEF Good
<1>3. Right(x, u, n + 1)
  <2>1. Prefix(u, n) = Prefix(s, n)
    BY <1>1, PrefixSame
  <2>2. n + 1 - 1 = n /\ Len(x.toks) \in Nat
    BY <1>1
  <2> HIDE DEF u
  <2> QED BY <1>1, <2>1, <2>2 DEF Right, Choice
<1> HIDE DEF u, n
<1>4. \A k \in 1 .. Len(u) : k \in 1 .. n \/ k = n + 1
  BY <1>1
<1>5. Good(x, u)
  BY <1>1, <1>2, <1>3, <1>4 DEF Good
<1> QED BY <1>1, <1>5 DEF u, n, Begins

\* The prompt itself is right.
LEMMA GoodPrompt ==
    ASSUME NEW x \in World
    PROVE  x.toks \in Seq(Id) /\ Len(x.toks) \in 1 .. MaxLen /\ Good(x, x.toks)
<1>1. x.toks \in Seq(Id) /\ Len(x.toks) \in 1 .. MaxLen
  BY WorldAssumption DEF IsWorld
<1> QED BY <1>1 DEF Good, Right

\* The beginning of a continuation is one.
LEMMA GoodBegins ==
    ASSUME NEW x, x.toks \in Seq(Id), NEW s, Good(x, s), NEW u \in Seq(Id), Begins(u, s)
    PROVE  Good(x, u)
<1> SUFFICES ASSUME NEW k \in 1 .. Len(u)
             PROVE  Right(x, u, k)
  BY DEF Good
<1>1. k \in Nat \ {0} /\ k \in 1 .. Len(s) /\ \A i \in 1 .. k : u[i] = s[i]
  BY DEF Begins, Good
<1>2. Right(x, u, k) <=> Right(x, s, k)
  BY <1>1, Alike1
<1> QED BY <1>1, <1>2 DEF Good

\* What the step attends to are the tokens fed so far.
LEMMA AttendedIs ==
    ASSUME NEW s \in Seq(Id), NEW n \in 0 .. Len(s), n <= MaxLen, NEW len \in Nat, n <= len,
           NEW cache, \A i \in 0 .. n - 1 : cache[i] = s[i + 1],
           NEW mask, \A i \in Position : i < len => (mask[i] = 1 <=> i < n)
    PROVE  Attended(cache, mask, len) = Prefix(s, n)
<1>1. MaxLen \in Nat /\ n \in Nat
  BY Sizes
<1>2. {j \in Position : j < len /\ mask[j] = 1} = 0 .. n - 1
  BY <1>1 DEF Position
<1> QED BY <1>2 DEF Attended, Prefix

\* The tokens fed to the first n steps are in the cache, and nothing but them is
\* in the mask up to len.
Cached(cache, s, n) == \A i \in 0 .. n - 1 : cache[i] = s[i + 1]
Masks(mask, len, n) == \A i \in Position : i < len => (mask[i] = 1 <=> i < n)

\* The attention at a position is long enough to see it.
LEMMA LengthIs ==
    ASSUME w \in World, NEW pos \in Nat, pos < MaxLen
    PROVE  Length(pos) \in Nat /\ pos < Length(pos)
<1>1. Pad \in Nat \ {0} /\ MaxLen \in Nat
  BY Sizes
<1> DEFINE d == pos \div Pad
           r == pos % Pad
<1>2. d \in Int /\ r \in 0 .. Pad - 1 /\ pos = Pad * d + r
  BY <1>1
<1>3. (d + 1) * Pad = Pad * d + Pad
  BY <1>1, <1>2
<1> HIDE DEF r
<1>4. (d + 1) * Pad \in Nat /\ pos < (d + 1) * Pad
  <2> DEFINE e == Pad * d
  <2>1. e \in Int /\ pos = e + r /\ (d + 1) * Pad = e + Pad
    BY <1>1, <1>2, <1>3
  <2> HIDE DEF e, d
  <2> QED BY <1>1, <1>2, <2>1
<1> QED BY <1>1, <1>4 DEF Length

\* The logits the host reads after the step at position n.
LEMMA StepLogits ==
    ASSUME w \in World, NEW s \in Seq(Id), NEW n \in 1 .. Len(s), n <= MaxLen,
           NEW cache, Cached(cache, s, n), NEW len \in Nat, n <= len, NEW mask, Masks(mask, len, n)
    PROVE  /\ Attended(cache, mask, len) = Prefix(s, n)
           /\ Logits(w.model, Attended(cache, mask, len)) = Logits(w.model, Prefix(s, n))
           /\ Logits(w.model, Prefix(s, n)) \in Floats
<1>1. n \in 0 .. Len(s) /\ n \in 1 .. MaxLen
  BY Sizes
<1>2. Attended(cache, mask, len) = Prefix(s, n)
  BY <1>1, AttendedIs DEF Cached, Masks
<1>3. Logits(w.model, Prefix(s, n)) \in Floats
  BY <1>1, PrefixType, LogitsFloat
<1> QED BY <1>2, <1>3

-----------------------------------------------------------------------------
(* The promise of LlmGreedy in these terms. *)

\* LlmGreedy's word for a right token is the one used here.
LEMMA RightTokenIs ==
    ASSUME w \in World, NEW s \in Seq(Id), NEW k \in 1 .. Len(s)
    PROVE  G!RightToken(s, k) <=> Right(w, s, k)
<1>1. k - 1 \in 0 .. Len(s)
  OBVIOUS
<1>2. After(w.model, SubSeq(s, 1, k - 1)) = Logits(w.model, Prefix(s, k - 1))
  BY <1>1, AfterIs
<1>3. \A l : G!Largest(l) = Largest(l) /\ G!Argmax(l) = Argmax(l)
  <2>1. \A l : G!Largest(l) = Largest(l)
    BY DEF G!Largest, G!Id, G!Value, Largest, Id, Value
  <2>2. \A S : G!Min(S) = Min(S)
    BY DEF G!Min, Min
  <2> QED BY <2>1, <2>2 DEF G!Argmax, Argmax
<1>4. \A f : G!Value(f) = Value(f)
  BY DEF G!Value, Value
<1>5. G!After(w.model, SubSeq(s, 1, k - 1)) = After(w.model, SubSeq(s, 1, k - 1))
  BY DEF G!After, After
<1> QED BY <1>2, <1>3, <1>4, <1>5 DEF G!RightToken, Right, Goes

\* Printing more of a continuation is a step of LlmGreedy.
LEMMA PrintStep ==
    ASSUME w \in World, w' = w, out \in Seq(Id), Good(w, out'), Begins(out, out'), Len(out) < Len(out')
    PROVE  G!Next
<1>1. out' \in Seq(Id) /\ Len(out') \in Nat /\ Len(out) \in Nat
  BY DEF Good
<1>2. SubSeq(out', 1, Len(out)) = out
  <2> DEFINE u == SubSeq(out', 1, Len(out))
  <2>1. u \in Seq(Id) /\ Len(u) = Len(out) /\ \A i \in 1 .. Len(out) : u[i] = out'[i]
    BY <1>1
  <2> HIDE DEF u
  <2>2. \A i \in 1 .. Len(out) : u[i] = out[i]
    BY <2>1 DEF Begins
  <2>3. u = out
    BY <2>1, <2>2, SeqEqual
  <2> QED BY <2>3 DEF u
<1>3. ASSUME NEW k \in Len(out) + 1 .. Len(out')
      PROVE  G!RightToken(out', k)
  <2>1. k \in 1 .. Len(out')
    BY <1>1
  <2>2. Right(w, out', k)
    BY <2>1 DEF Good
  <2> QED BY <1>1, <2>1, <2>2, RightTokenIs
<1> QED BY <1>2, <1>3 DEF G!Next


-----------------------------------------------------------------------------
(***************************************************************************)
(* The inductive invariant.  The host's part: what is printed, cached and  *)
(* masked, and why the number of steps is what it is.                      *)
(***************************************************************************)
HostPc == {"prefill", "decode", "record", "pass", "first", "last", "run", "wait", "read", "end", "exit"}
HostStatus ==
    {"ok", "CALL", "UNIMPLEMENTED", "OUT_OF_RANGE", "FAILED_PRECONDITION", "RESOURCE_EXHAUSTED", "INTERNAL", "DEADLINE"}
HostType ==
    [pc : HostPc, status : HostStatus, pos : Nat, pos0 : Nat, token : Id, steps : Nat, host_end : Nat,
     s0 : Nat, written : Nat, pass : Nat, bucket : Nat, done : Nat]

\* Everything that is asked for and fits.
Full == Most(ntok + w.generate, MaxLen)
NoStop == \A k \in ntok + 1 .. Len(out) : out[k] # w.stop
\* The prefill chose the stop token: the one at which the host's loop ends early.
PrefillStops == h.pos0 > 0 /\ (IF Len(out) <= ntok THEN h.token ELSE out[ntok + 1]) = w.stop

RowsInv ==
    /\ rows \in Seq(Floats) /\ Len(rows) <= ntok
    /\ \A i \in 1 .. Len(rows) : rows[i] = Logits(w.model, Prefix(w.toks, i))
    /\ w.all /\ h.pos0 > 0 => Len(rows) = ntok

Prefilling ==
    h.pc = "prefill" =>
        /\ out = <<>> /\ w.prefill \in 1 .. ntok /\ h.written = h.s0 /\ h.s0 < ntok
        /\ h.pos = 0 /\ h.pos0 = 0 /\ h.status = "ok" /\ h.steps = Full
        /\ Cached(kv, w.toks, h.s0) /\ Masks(valid, MaxLen, h.s0)
        /\ Len(rows) = IF w.all THEN h.s0 ELSE 0

Decoding ==
    h.pc = "decode" =>
        /\ Len(out) = h.pos /\ h.pos <= h.host_end /\ h.pos0 <= h.pos /\ h.status = "ok"
        /\ Cached(kv, out, h.pos) /\ Masks(valid, MaxLen, h.pos)
        /\ ntok <= h.pos => Choice(w, out, h.token)
        /\ w.rvsched /\ ntok <= h.pos /\ h.token = w.stop => h.steps = h.pos
        /\ w.rvsched /\ h.steps # Full => h.steps = h.pos /\ ntok <= h.pos /\ h.token = w.stop
        /\ ~w.rvsched => h.host_end = IF PrefillStops THEN ntok ELSE Full

Recording_ == h.pc \in {"record", "pass", "first", "last", "run"}
Running == h.pc \in {"wait", "read"}

Asking ==
    Recording_ \/ Running =>
        /\ w.rvsched /\ Len(out) = ntok /\ Choice(w, out, h.token)
        /\ h.steps = Full /\ ntok < Full /\ h.token # w.stop

Ending ==
    h.pc = "end" /\ h.status = "ok" =>
        /\ ntok <= Len(out) /\ Len(out) <= Full /\ Choice(w, out, h.token)
        /\ w.rvsched => NoStop /\ (Len(out) = Full \/ h.token = w.stop)
        /\ ~w.rvsched => Len(out) = IF PrefillStops THEN ntok ELSE Full

HostInv ==
    /\ w \in World /\ h \in HostType /\ valid \in [Position -> {0, 1}] /\ Good(w, out)
    /\ ntok <= h.steps /\ h.steps <= Full /\ h.pos0 \in {0, ntok}
    /\ w.rvsched => h.host_end = ntok
    /\ RowsInv /\ Prefilling /\ Decoding /\ Asking /\ Ending /\ Complete

(***************************************************************************)
(* The recordings and the table that is made of them.                      *)
(***************************************************************************)
FirstBucket == ntok \div Pad
Buckets == FirstBucket .. (Full - 1) \div Pad
\* The position at which a bucket is recorded.
PosOf(b) == IF b = FirstBucket THEN ntok ELSE b * Pad
Kinds(b) == IF b \in w.longer THEN <<"step", "step", "max">> ELSE <<"step", "max">>
RecAt(p, b, pos) ==
    Recording(w.frames[p][b], (b + 1) * Pad, IF w.posdep THEN pos + 1 ELSE 0, w.code, Kinds(b))
ItemsOf(b) == RecAt(2, b, PosOf(b)).items

IsSched ==
    /\ sched = [b0 |-> FirstBucket, nb |-> (Full - 1) \div Pad - FirstBucket + 1, max |-> Full - ntok,
                pass |-> sched.pass, cap |-> sched.cap, shape |-> sched.shape, rec |-> sched.rec]
    /\ sched.rec = [b \in Buckets |-> sched.rec[b]]

\* What the third recording of two buckets shows.
FirstSame == w.posdep => (ntok + 1) \div Pad # FirstBucket \/ Full = ntok + 1
PosFixed == w.posdep => Pad = 1 \/ Full = ntok + 1

TableInv ==
    /\ Recording_ => /\ IsSched /\ Cached(kv, out, ntok) /\ h.status = "ok" /\ sched.pass = h.pass
                     /\ h.pass = 3 => tab = Table(sched, w.r5)
    /\ h.pc \in {"record", "pass"} => h.pass \in {1, 2}
    /\ h.pc = "record" =>
            /\ h.bucket \in Buckets
            /\ \A b \in FirstBucket .. h.bucket - 1 : sched.rec[b] = RecAt(h.pass, b, PosOf(b))
    /\ h.pc = "pass" => \A b \in Buckets : sched.rec[b] = RecAt(h.pass, b, PosOf(b))
    /\ h.pc \in {"first", "last", "run"} =>
            /\ h.pass = 3 /\ Alike(sched)
            /\ \A b \in Buckets : sched.rec[b] = RecAt(2, b, PosOf(b))
    /\ h.pc = "last" => FirstSame
    /\ h.pc = "run" => PosFixed

(***************************************************************************)
(* The core's part, as long as the host may read what it does.             *)
(***************************************************************************)
CoreType == [pc : {"off", "step", "items", "out", "done"}, s : Nat, pos : Nat, token : Id, cur : Int, item : Nat]
FrameType ==
    [token : Id, pos : Nat, valid : [Position -> {0, 1}], logits : Floats, bmax : [0 .. Blocks - 1 -> Int]]

N == Full - ntok
\* The tokens fed to the first n steps of the core and the one it found last.
Fed(n) == [i \in 1 .. ntok + 1 + n |-> IF i <= ntok THEN out[i] ELSE IF i = ntok + 1 THEN h.token ELSE tab.out[i - ntok - 1]]
Told(n) == n \in 0 .. N /\ Good(w, Fed(n))
Unstopped(n) == \A k \in 1 .. n : tab.out[k] # w.stop
FrameOf == tab.buckets[core.cur]
StepIs == Logits(w.model, Prefix(Fed(core.s), core.pos + 1))
MaskedTo(n) == Masks(mem[FrameOf].valid, (core.cur + 1) * Pad, n)

\* The bucket the words of the lists were written for.
Bucket_ == IF core.cur = -1 THEN FirstBucket ELSE core.cur

\* What sa_rvsched_run leaves alone, and what it wrote.
TableIs ==
    /\ tab = [items |-> tab.items, words |-> Diff(sched), b0 |-> sched.b0, nb |-> sched.nb, r5 |-> w.r5,
              buckets |-> [b \in Buckets |-> w.frames[2][b]],
              values |-> Table(sched, w.r5).values,
              pos |-> ntok, steps |-> N, token |-> h.token, stop |-> w.stop,
              out |-> tab.out, done |-> tab.done, status |-> tab.status]
    /\ tab.out \in [1 .. N -> Id] /\ tab.done \in Nat
    /\ \A b \in Buckets : b = Bucket_ => tab.items = ItemsOf(b)

AtStep ==
    core.pc = "step" =>
        /\ core.cur # -1 => MaskedTo(core.pos)
        /\ Told(core.s) /\ Cached(kv, Fed(core.s), core.pos)
        /\ core.token = Fed(core.s)[core.pos + 1]
AtItems ==
    core.pc = "items" =>
        /\ core.s < N /\ Told(core.s) /\ core.token = Fed(core.s)[core.pos + 1]
        /\ core.cur = core.pos \div Pad /\ MaskedTo(core.pos + 1)
        /\ mem[FrameOf].token = core.token /\ mem[FrameOf].pos = core.pos
        /\ core.item \in 1 .. Len(tab.items) + 1
        /\ Cached(kv, Fed(core.s), core.pos)
        /\ core.item > 1 => Cached(kv, Fed(core.s), core.pos + 1) /\ mem[FrameOf].logits = StepIs
        /\ core.item > Len(tab.items) => mem[FrameOf].bmax = Maxima(StepIs)
AtOut ==
    core.pc = "out" =>
        /\ core.s < N /\ Told(core.s) /\ Choice(w, Fed(core.s), core.token)
        /\ core.cur # -1 /\ MaskedTo(core.pos + 1) /\ Cached(kv, Fed(core.s), core.pos + 1)
AtDone ==
    core.pc = "done" =>
        /\ core.s < N /\ Told(core.s + 1) /\ core.token = tab.out[core.s + 1]
        /\ core.cur # -1 /\ MaskedTo(core.pos + 1) /\ Cached(kv, Fed(core.s + 1), core.pos + 1)
AtOff ==
    core.pc = "off" =>
        /\ Told(tab.done) /\ Unstopped(tab.done - 1)
        /\ tab.status = "ok" => tab.done > 0 /\ (tab.done = N \/ tab.out[tab.done] = w.stop)

\* The recordings the table was made of.
Static == IsSched /\ Alike(sched) /\ PosFixed /\ \A b \in Buckets : sched.rec[b] = RecAt(2, b, PosOf(b))
CoreTypes ==
    /\ core \in CoreType /\ mem \in [Frame -> FrameType] /\ kv = [i \in Position |-> kv[i]]
    /\ core.cur \in Buckets \cup {-1}
Counted ==
    core.pc # "off" => core.pos = ntok + core.s /\ tab.done = core.s /\ tab.status = "none" /\ Unstopped(core.s)
HostReads ==
    h.pc = "read" =>
        /\ h.done <= tab.done
        /\ h.status = "ok" => core.pc = "off" /\ tab.status = "ok" /\ h.done = tab.done

CoreRuns ==
    Static /\ CoreTypes /\ TableIs /\ AtStep /\ AtItems /\ AtOut /\ AtDone /\ AtOff /\ Counted /\ HostReads

CoreInv ==
    /\ ~Running /\ h.pc \notin {"end", "exit"} =>
            core = CoreOff /\ mem \in [Frame -> FrameType] /\ kv = [i \in Position |-> kv[i]]
    /\ Running => CoreRuns

LlmInv == HostInv /\ TableInv /\ CoreInv

-----------------------------------------------------------------------------
(* The host's steps. *)

\* What is asked, as numbers: the prompt fits and so does all that is printed.
LEMMA WorldIs ==
    ASSUME w \in World
    PROVE  /\ w.toks \in Seq(Id) /\ ntok \in Nat /\ 1 <= ntok /\ ntok <= MaxLen /\ MaxLen \in Nat
           /\ w.generate \in Nat /\ w.prefill \in Nat /\ w.stop \in Int /\ w.code \in Nat
           /\ Full \in Nat /\ ntok <= Full /\ Full <= MaxLen /\ (w.generate = 0 => Full = ntok)
           /\ w.toks[1] \in Id
<1>1. IsWorld(w)
  BY WorldAssumption
<1>2. /\ w.toks \in Seq(Id) /\ Len(w.toks) \in 1 .. MaxLen /\ w.generate \in Nat /\ w.prefill \in Nat
      /\ w.stop \in Int /\ w.code \in Nat
  BY <1>1 DEF IsWorld
<1>3. MaxLen \in Nat
  BY Sizes
<1>4. ntok \in Nat /\ 1 <= ntok /\ ntok <= MaxLen
  BY <1>2, <1>3 DEF ntok
<1>5. Full \in Nat /\ ntok <= Full /\ Full <= MaxLen /\ (w.generate = 0 => Full = ntok)
  BY <1>2, <1>3, <1>4 DEF Full, Most
<1>6. w.toks[1] \in Id
  BY <1>2
<1> QED BY <1>2, <1>3, <1>4, <1>5, <1>6

\* The host's argmax is a greedy choice.
LEMMA HostGoes ==
    ASSUME NEW l \in Floats
    PROVE  Argmax(l) \in Id /\ Goes(l, Argmax(l))
BY ArgmaxRight DEF Goes

\* The host's part holds at first.
LEMMA HostStart ==
    ASSUME LlmInit
    PROVE  HostInv
<1>1. /\ w \in World /\ out = <<>> /\ rows = <<>> /\ valid = [i \in Position |-> 0]
      /\ h = [pc |-> IF w.prefill > 0 /\ Len(w.toks) >= w.prefill THEN "prefill" ELSE "decode",
              status |-> "ok", pos |-> 0, pos0 |-> 0, token |-> w.toks[1], steps |-> Full,
              host_end |-> HostEnd(Full), s0 |-> 0, written |-> 0, pass |-> 0, bucket |-> 0, done |-> 0]
  BY DEF LlmInit, Full, ntok
<1>2. /\ ntok \in Nat /\ 1 <= ntok /\ ntok <= MaxLen /\ MaxLen \in Nat /\ w.toks[1] \in Id
      /\ w.prefill \in Nat /\ Full \in Nat /\ ntok <= Full
  BY <1>1, WorldIs
<1>3. /\ h.pc \in {"prefill", "decode"} /\ h.status = "ok" /\ h.pos = 0 /\ h.pos0 = 0 /\ h.steps = Full
      /\ h.s0 = 0 /\ h.written = 0
      /\ h.pc = "prefill" => w.prefill \in 1 .. ntok
  BY <1>1, <1>2 DEF ntok
<1>4. h \in HostType /\ h.host_end = IF w.rvsched THEN ntok ELSE Full
  <2>1. HostEnd(Full) \in Nat /\ HostEnd(Full) = IF w.rvsched THEN ntok ELSE Full
    BY <1>2 DEF HostEnd, Most
  <2> QED BY <1>1, <1>2, <2>1 DEF HostType, HostPc, HostStatus
<1>5. valid \in [Position -> {0, 1}] /\ Masks(valid, MaxLen, 0)
  BY <1>1 DEF Masks, Position
<1>6. \A s : Cached(kv, s, 0)
  BY DEF Cached
<1>7. out \in Seq(Id) /\ Len(out) = 0 /\ rows \in Seq(Floats) /\ Len(rows) = 0
  BY <1>1
<1>8. Good(w, out) /\ ~PrefillStops
  BY <1>2, <1>3, <1>7 DEF Good, PrefillStops
<1>9. RowsInv
  BY <1>2, <1>3, <1>7 DEF RowsInv
<1>10. Prefilling
  BY <1>1, <1>2, <1>3, <1>5, <1>6, <1>7 DEF Prefilling
<1>11. Decoding
  BY <1>1, <1>2, <1>3, <1>4, <1>5, <1>6, <1>7, <1>8 DEF Decoding
<1>12. Asking /\ Ending /\ Complete
  BY <1>3 DEF Asking, Ending, Complete, Recording_, Running
<1> QED BY <1>1, <1>2, <1>3, <1>4, <1>5, <1>8, <1>9, <1>10, <1>11, <1>12 DEF HostInv


\* One row of a chunk: the logits of the prompt up to its position.
LEMMA RowIs ==
    ASSUME w \in World, NEW n \in 1 .. ntok, NEW cache, Cached(cache, w.toks, n),
           NEW mask, Masks(mask, MaxLen, n), NEW len \in Nat, n <= len, len <= MaxLen,
           NEW pos \in 0 .. n - 1
    PROVE  /\ Row(cache, mask, pos, len) = Logits(w.model, Prefix(w.toks, pos + 1))
           /\ Logits(w.model, Prefix(w.toks, pos + 1)) \in Floats
<1>1. w.toks \in Seq(Id) /\ ntok \in Nat /\ ntok <= MaxLen /\ MaxLen \in Nat /\ ntok = Len(w.toks)
  BY WorldIs DEF ntok
<1>2. n \in 1 .. Len(w.toks) /\ n <= MaxLen /\ Masks(mask, len, n)
  BY <1>1 DEF Masks, Position
<1> DEFINE a == Attended(cache, mask, len)
<1>3. a = Prefix(w.toks, n)
  BY <1>1, <1>2, StepLogits
<1> HIDE DEF a
<1>4. DOMAIN a = 0 .. n - 1 /\ \A i \in 0 .. n - 1 : a[i] = w.toks[i + 1]
  BY <1>3 DEF Prefix
<1>5. {j \in DOMAIN a : j <= pos} = 0 .. pos
  BY <1>1, <1>4
<1>6. \A i \in 0 .. pos : i \in 0 .. n - 1
  BY <1>1
<1>7. [i \in {j \in DOMAIN a : j <= pos} |-> a[i]] = Prefix(w.toks, pos + 1)
  BY <1>4, <1>5, <1>6 DEF Prefix
<1>8. pos + 1 \in 0 .. Len(w.toks) /\ pos + 1 \in 1 .. MaxLen
  BY <1>1, <1>2
<1>9. Logits(w.model, Prefix(w.toks, pos + 1)) \in Floats
  BY <1>1, <1>8, PrefixType, LogitsFloat
<1> QED BY <1>7, <1>9 DEF Row, a

\* The attention is never longer than the cache.
LEMMA LengthMost ==
    ASSUME w \in World, NEW pos \in Nat, pos < MaxLen
    PROVE  Length(pos) \in Nat /\ pos < Length(pos) /\ Length(pos) <= MaxLen
<1>1. Pad \in Nat \ {0} /\ MaxLen \in Nat /\ MaxLen % Pad = 0
  BY Sizes, CoreAssumption
<1>2. Length(pos) \in Nat /\ pos < Length(pos)
  BY LengthIs
<1>3. (pos \div Pad + 1) * Pad <= MaxLen
  <2> DEFINE d == pos \div Pad
             e == MaxLen \div Pad
  <2>1. d \in Int /\ e \in Int /\ MaxLen = (Pad * e) + (MaxLen % Pad) /\ pos = (Pad * d) + (pos % Pad) /\ (pos % Pad) \in 0 .. Pad - 1
    BY <1>1
  <2> DEFINE r == pos % Pad
  <2>2. d \in Int /\ e \in Int /\ MaxLen = Pad * e /\ pos = Pad * d + r /\ r \in 0 .. Pad - 1
    BY <1>1, <2>1
  <2> HIDE DEF d, e, r
  <2>3. d < e
    <3> SUFFICES ASSUME d >= e PROVE FALSE
      BY <2>2
    <3>1. d - e \in Nat
      BY <2>2
    <3>2. Pad * (d - e) \in Nat /\ Pad * d = Pad * e + Pad * (d - e)
      BY <1>1, <2>2, <3>1
    <3> QED BY <1>1, <2>2, <3>2
  <2>4. e - d - 1 \in Nat
    BY <2>2, <2>3
  <2>5. Pad * (e - d - 1) \in Nat /\ Pad * e = (d + 1) * Pad + Pad * (e - d - 1) /\ (d + 1) * Pad \in Int
    BY <1>1, <2>2, <2>4
  <2>6. (d + 1) * Pad <= MaxLen
    <3> DEFINE x == Pad * (e - d - 1)
               y == (d + 1) * Pad
               z == Pad * e
    <3>1. x \in Nat /\ z = y + x /\ y \in Int /\ MaxLen = z
      BY <2>2, <2>5
    <3> HIDE DEF x, y, z
    <3>2. y <= MaxLen
      BY <3>1
    <3> QED BY <3>2 DEF y
  <2> QED BY <2>6 DEF d
<1> QED BY <1>1, <1>2, <1>3 DEF Length

\* The rows a chunk adds.
LEMMA NewRowsAre ==
    ASSUME HostInv, NEW s \in Nat, s <= h.s0, h.written = h.s0, h.s0 < s + w.prefill, w.prefill \in Nat
    PROVE  /\ Cardinality(NewRows(s)) = s + w.prefill - h.s0
           /\ Min(NewRows(s)) = h.s0 - s
<1> DEFINE a == h.s0 - s
           b == w.prefill - 1
<1>1. h.s0 \in Nat
  BY DEF HostInv, HostType
<1>2. a \in Nat /\ b \in Nat /\ a <= b /\ NewRows(s) = a .. b
  BY <1>1 DEF NewRows
<1> HIDE DEF a, b
<1>3. Cardinality(a .. b) = b - a + 1
  BY <1>2, FS_Interval
<1>4. a .. b \in SUBSET Nat /\ a \in a .. b
  BY <1>2
<1>5. Min(a .. b) = a
  <2>1. Min(a .. b) \in a .. b /\ Min(a .. b) <= a
    BY <1>4, Smallest, Zenon
  <2> QED BY <1>2, <2>1
<1> QED BY <1>1, <1>2, <1>3, <1>5 DEF a, b


\* A chunk of the prompt caches, masks and writes the rows that belong to it,
\* also where the last chunk overlaps the one before.
LEMMA PrefillHost ==
    ASSUME HostInv, Prefill
    PROVE  HostInv'
<1> DEFINE M == w.prefill
           s == IF h.s0 + M >= ntok THEN ntok - M ELSE h.s0
           n == s + M
           mask == [i \in Position |-> IF i <= s + M - 1 THEN 1 ELSE valid[i]]
           cache == [i \in Position |-> IF i \in s .. s + M - 1 THEN w.toks[i + 1] ELSE kv[i]]
           len == Length(s + M - 1)
           row(i) == Row(cache, mask, s + i, len)
           best == Argmax(row(M - 1))
           steps == IF best = w.stop THEN ntok ELSE h.steps
           more == [i \in 1 .. Cardinality(NewRows(s)) |-> row(Min(NewRows(s)) + i - 1)]
<1>1. /\ w.toks \in Seq(Id) /\ ntok \in Nat /\ 1 <= ntok /\ ntok <= MaxLen /\ MaxLen \in Nat
      /\ Full \in Nat /\ ntok <= Full /\ w \in World /\ ntok = Len(w.toks)
  BY WorldIs DEF HostInv, ntok
<1>2. /\ h.pc = "prefill" /\ out = <<>> /\ M \in 1 .. ntok /\ h.written = h.s0 /\ h.s0 < ntok
      /\ h.pos = 0 /\ h.pos0 = 0 /\ h.status = "ok" /\ h.steps = Full
      /\ Cached(kv, w.toks, h.s0) /\ Masks(valid, MaxLen, h.s0)
      /\ Len(rows) = IF w.all THEN h.s0 ELSE 0
  BY DEF Prefill, HostInv, Prefilling
<1>3. h \in HostType /\ h.s0 \in Nat /\ valid \in [Position -> {0, 1}]
  BY DEF HostInv, HostType
<1>4. /\ s \in Nat /\ s <= h.s0 /\ h.s0 < n /\ n <= ntok /\ n \in Nat /\ n \in 1 .. ntok /\ (n >= ntok <=> n = ntok)
      /\ n < ntok => s = h.s0
  <2> DEFINE a == h.s0
  <2>1. M \in 1 .. ntok /\ a \in Nat /\ a < ntok /\ ntok \in Nat
    BY <1>1, <1>2, <1>3
  <2>2. s = IF a + M >= ntok THEN ntok - M ELSE a
    OBVIOUS
  <2>3. n = s + M
    OBVIOUS
  <2> HIDE DEF s, n, M, a
  <2>4. /\ s \in Nat /\ s <= a /\ a < n /\ n <= ntok /\ n \in Nat /\ n \in 1 .. ntok /\ (n >= ntok <=> n = ntok)
        /\ n < ntok => s = a
    BY <2>1, <2>2, <2>3
  <2> QED BY <2>4 DEF a
<1>5. /\ w' = w /\ valid' = mask
      /\ \/ /\ kv' = cache
            /\ rows' = IF w.all THEN rows \o more ELSE rows
            /\ IF n >= ntok
               THEN /\ out' = w.toks
                    /\ h' = [h EXCEPT !.written = n, !.token = best, !.pos0 = ntok, !.pos = ntok,
                                      !.steps = steps, !.host_end = HostEnd(steps), !.pc = "decode"]
               ELSE /\ h' = [h EXCEPT !.written = n, !.s0 = @ + M]
                    /\ out' = out
         \/ h' = [h EXCEPT !.status = "CALL", !.pc = "end"] /\ kv' = kv /\ rows' = rows /\ out' = out
  BY Zenon DEF Prefill, Failed
<1>6. mask \in [Position -> {0, 1}] /\ Masks(mask, MaxLen, n)
  <2>1. mask \in [Position -> {0, 1}]
    BY <1>3
  <2>2. ASSUME NEW i \in Position
        PROVE  mask[i] = 1 <=> i < n
    <3>1. i \in Nat /\ i < MaxLen
      BY <1>1, <2>2 DEF Position
    <3>2. mask[i] = IF i <= s + M - 1 THEN 1 ELSE valid[i]
      OBVIOUS
    <3>3. valid[i] = 1 <=> i < h.s0
      BY <1>2, <3>1 DEF Masks
    <3>4. i <= s + M - 1 <=> i < n
      BY <1>2, <1>4, <3>1
    <3> HIDE DEF mask
    <3> QED BY <1>3, <1>4, <3>1, <3>2, <3>3, <3>4
  <2> QED BY <2>1, <2>2 DEF Masks
<1>7. Cached(cache, w.toks, n)
  <2> SUFFICES ASSUME NEW i \in 0 .. n - 1
               PROVE  cache[i] = w.toks[i + 1]
    BY DEF Cached
  <2>1. i \in Position /\ (i \in s .. s + M - 1 \/ i \in 0 .. h.s0 - 1)
    <3> DEFINE a == h.s0
    <3>1. a \in Nat /\ M \in Nat /\ n = s + M /\ s \in Nat /\ s <= a /\ n <= MaxLen /\ n \in Nat
      BY <1>1, <1>2, <1>3, <1>4
    <3> HIDE DEF a, M, s, n
    <3>2. i \in Position /\ (i \in s .. s + M - 1 \/ i \in 0 .. a - 1)
      BY <1>1, <3>1 DEF Position
    <3> QED BY <3>2 DEF a
  <2>2. cache[i] = IF i \in s .. s + M - 1 THEN w.toks[i + 1] ELSE kv[i]
    BY <2>1
  <2> QED BY <1>2, <2>1, <2>2 DEF Cached
<1>8. len \in Nat /\ n <= len /\ len <= MaxLen
  <2>1. s + M - 1 \in Nat /\ s + M - 1 < MaxLen
    BY <1>1, <1>2, <1>4
  <2>2. len \in Nat /\ s + M - 1 < len /\ len <= MaxLen
    BY <1>1, <2>1, LengthMost
  <2> DEFINE b == s + M - 1
  <2>3. b \in Nat /\ n = b + 1 /\ b < len
    BY <1>2, <1>4, <2>1, <2>2
  <2> HIDE DEF b, len, n
  <2>4. n <= len
    BY <2>2, <2>3
  <2> QED BY <2>2, <2>4
<1> HIDE DEF mask, cache, len
<1>9. ASSUME NEW i \in Int, s + i \in 0 .. n - 1
      PROVE  row(i) = Logits(w.model, Prefix(w.toks, s + i + 1)) /\ row(i) \in Floats
  BY <1>1, <1>4, <1>6, <1>7, <1>8, <1>9, RowIs
<1>10. row(M - 1) = Logits(w.model, Prefix(w.toks, n)) /\ row(M - 1) \in Floats
  <2>1. M - 1 \in Int /\ s + (M - 1) \in 0 .. n - 1 /\ s + (M - 1) + 1 = n
    BY <1>2, <1>4
  <2> QED BY <1>9, <2>1
<1>11. best \in Id /\ Goes(Logits(w.model, Prefix(w.toks, n)), best)
  BY <1>10, HostGoes
<1>12. /\ Len(more) = n - h.s0 /\ more \in Seq(Floats)
       /\ \A i \in 1 .. n - h.s0 : more[i] = Logits(w.model, Prefix(w.toks, h.s0 + i))
  <2>1. Cardinality(NewRows(s)) = n - h.s0 /\ Min(NewRows(s)) = h.s0 - s
    <3> HIDE DEF s
    <3>1. w.prefill \in Nat /\ h.s0 < s + w.prefill /\ s + w.prefill - h.s0 = n - h.s0
      <4>1. M \in Nat /\ h.s0 < n
        BY <1>1, <1>2, <1>4
      <4> QED BY <1>3, <1>4, <4>1
    <3> HIDE DEF n
    <3> QED BY <1>2, <1>4, <3>1, NewRowsAre
  <2>2. more = [i \in 1 .. n - h.s0 |-> row(h.s0 - s + i - 1)]
    BY <2>1
  <2>3. ASSUME NEW i \in 1 .. n - h.s0
        PROVE  /\ row(h.s0 - s + i - 1) = Logits(w.model, Prefix(w.toks, h.s0 + i))
               /\ row(h.s0 - s + i - 1) \in Floats
    <3>1. h.s0 - s + i - 1 \in Int /\ s + (h.s0 - s + i - 1) \in 0 .. n - 1 /\ s + (h.s0 - s + i - 1) + 1 = h.s0 + i
      BY <1>3, <1>4
    <3> QED BY <1>9, <3>1
  <2> HIDE DEF row
  <2>4. more \in [1 .. n - h.s0 -> Floats]
    BY <2>2, <2>3
  <2>5. n - h.s0 \in Nat
    BY <1>3, <1>4
  <2>6. more \in Seq(Floats) /\ Len(more) = n - h.s0
    <3> DEFINE a == n - h.s0
    <3>1. more \in [1 .. a -> Floats] /\ a \in Nat
      BY <2>4, <2>5
    <3> HIDE DEF more, a
    <3>2. more \in Seq(Floats) /\ Len(more) = a
      BY <3>1
    <3> QED BY <3>2 DEF a
  <2> QED BY <2>2, <2>3, <2>6
<1> HIDE DEF row, best, more
<1>13. rows \in Seq(Floats) /\ Len(rows) <= ntok
       /\ \A i \in 1 .. Len(rows) : rows[i] = Logits(w.model, Prefix(w.toks, i))
  BY DEF HostInv, RowsInv
<1> HIDE DEF s, n
<1>14. CASE h' = [h EXCEPT !.status = "CALL", !.pc = "end"] /\ kv' = kv /\ rows' = rows /\ out' = out
  <2>1. /\ h' \in HostType /\ h'.pc = "end" /\ h'.status = "CALL" /\ h'.pos0 = 0 /\ h'.steps = h.steps
        /\ h'.host_end = h.host_end
    BY <1>2, <1>3, <1>14 DEF HostType, HostPc, HostStatus
  <2>2. RowsInv'
    BY <1>5, <1>13, <1>14, <2>1 DEF RowsInv, ntok
  <2>3. Prefilling' /\ Decoding' /\ Asking' /\ Ending' /\ Complete'
    BY <2>1 DEF Prefilling, Decoding, Asking, Ending, Complete, Recording_, Running
  <2>4. Good(w, out)' /\ valid' \in [Position -> {0, 1}]
    BY <1>5, <1>6, <1>14 DEF HostInv
  <2>5. (ntok <= h.steps /\ h.steps <= Full /\ h.pos0 \in {0, ntok} /\ (w.rvsched => h.host_end = ntok))'
    BY <1>1, <1>2, <1>5, <2>1 DEF HostInv, ntok, Full
  <2> QED BY <1>1, <1>5, <2>1, <2>2, <2>3, <2>4, <2>5 DEF HostInv
<1>15. ASSUME NEW all \in BOOLEAN, all = w.all, rows' = IF all THEN rows \o more ELSE rows
       PROVE  /\ rows' \in Seq(Floats) /\ Len(rows') = (IF all THEN n ELSE 0)
              /\ \A i \in 1 .. Len(rows') : rows'[i] = Logits(w.model, Prefix(w.toks, i))
  <2>1. CASE ~all
    BY <1>2, <1>13, <1>15, <2>1
  <2>2. CASE all
    <3>1. Len(rows) = h.s0 /\ rows' = rows \o more
      BY <1>2, <1>15, <2>2
    <3>2. /\ rows \o more \in Seq(Floats) /\ Len(rows \o more) = h.s0 + (n - h.s0)
          /\ \A i \in 1 .. h.s0 + (n - h.s0) : (rows \o more)[i] = IF i <= h.s0 THEN rows[i] ELSE more[i - h.s0]
      <4> DEFINE a == n - h.s0
      <4>1. rows \in Seq(Floats) /\ more \in Seq(Floats) /\ Len(rows) = h.s0 /\ Len(more) = a
        BY <1>12, <1>13, <3>1
      <4> HIDE DEF a
      <4>2. /\ rows \o more \in Seq(Floats) /\ Len(rows \o more) = h.s0 + a
            /\ \A i \in 1 .. h.s0 + a : (rows \o more)[i] = IF i <= h.s0 THEN rows[i] ELSE more[i - h.s0]
        <5>1. /\ rows \o more \in Seq(Floats) /\ Len(rows \o more) = Len(rows) + Len(more)
              /\ \A i \in 1 .. Len(rows) + Len(more) :
                    (rows \o more)[i] = IF i <= Len(rows) THEN rows[i] ELSE more[i - Len(rows)]
          BY <4>1, Joined, Zenon
        <5> QED BY <4>1, <5>1, Zenon
      <4> QED BY <4>2 DEF a
    <3>3. h.s0 + (n - h.s0) = n
      BY <1>3, <1>4
    <3>4. ASSUME NEW i \in 1 .. n
          PROVE  rows'[i] = Logits(w.model, Prefix(w.toks, i))
      <4>1. CASE i <= h.s0
        <5>1. i \in 1 .. Len(rows) /\ i \in 1 .. h.s0 + (n - h.s0)
          BY <1>3, <1>4, <3>1, <3>3, <4>1
        <5> QED BY <1>13, <3>1, <3>2, <4>1, <5>1
      <4>2. CASE ~(i <= h.s0)
        <5>1. i - h.s0 \in 1 .. n - h.s0 /\ h.s0 + (i - h.s0) = i /\ i \in 1 .. h.s0 + (n - h.s0)
          BY <1>3, <1>4, <4>2
        <5> QED BY <1>12, <3>1, <3>2, <4>2, <5>1
      <4> QED BY <4>1, <4>2
    <3> QED BY <2>2, <3>1, <3>2, <3>3, <3>4
  <2> QED BY <2>1, <2>2
<1>16. w.all \in BOOLEAN
  BY <1>1, WorldAssumption DEF IsWorld
<1>17. CASE /\ kv' = cache /\ rows' = (IF w.all THEN rows \o more ELSE rows) /\ n >= ntok /\ out' = w.toks
            /\ h' = [h EXCEPT !.written = n, !.token = best, !.pos0 = ntok, !.pos = ntok,
                              !.steps = steps, !.host_end = HostEnd(steps), !.pc = "decode"]
  <2>1. /\ h' \in HostType /\ h'.pc = "decode" /\ h'.status = "ok" /\ h'.pos0 = ntok /\ h'.pos = ntok
        /\ h'.token = best /\ h'.steps = (IF best = w.stop THEN ntok ELSE Full)
        /\ h'.host_end = (IF w.rvsched \/ best = w.stop THEN ntok ELSE Full)
    <3> DEFINE e == HostEnd(steps)
    <3>1. steps \in Nat /\ steps = (IF best = w.stop THEN ntok ELSE Full) /\ ntok <= steps
      BY <1>1, <1>2
    <3>2. e \in Nat /\ e = (IF w.rvsched \/ best = w.stop THEN ntok ELSE Full)
      BY <1>1, <3>1 DEF HostEnd, Most
    <3>3. h' = [h EXCEPT !.written = n, !.token = best, !.pos0 = ntok, !.pos = ntok,
                         !.steps = steps, !.host_end = e, !.pc = "decode"]
      BY <1>17
    <3>4. h \in HostType /\ h.status = "ok" /\ n \in Nat /\ ntok \in Nat /\ best \in Id
      BY <1>1, <1>2, <1>3, <1>4, <1>11
    <3> HIDE DEF steps, e, n, best
    <3>5. h' \in HostType
      BY <3>1, <3>2, <3>3, <3>4 DEF HostType, HostPc
    <3>6. /\ h'.pc = "decode" /\ h'.status = "ok" /\ h'.pos0 = ntok /\ h'.pos = ntok
          /\ h'.token = best /\ h'.steps = steps /\ h'.host_end = e
      BY <3>3, <3>4 DEF HostType
    <3> QED BY <3>1, <3>2, <3>5, <3>6
  <2>2. n = ntok
    BY <1>1, <1>4, <1>17
  <2>3. RowsInv'
    BY <1>1, <1>5, <1>15, <1>16, <1>17, <2>1, <2>2 DEF RowsInv, ntok
  <2>4. Choice(w, w.toks, best)
    <3>1. ~(ntok < ntok)
      BY <1>1
    <3> QED BY <1>1, <1>11, <2>2, <3>1 DEF Choice
  <2>5. Len(out') = ntok /\ ntok' = ntok /\ Full' = Full
    BY <1>1, <1>5, <1>17 DEF ntok, Full
  <2>6. PrefillStops' <=> best = w.stop
    BY <1>1, <1>5, <2>1, <2>5 DEF PrefillStops
  <2>7. Decoding'
    BY <1>1, <1>5, <1>6, <1>7, <1>17, <2>1, <2>2, <2>4, <2>5, <2>6 DEF Decoding
  <2>8. Prefilling' /\ Asking' /\ Ending' /\ Complete'
    BY <2>1 DEF Prefilling, Asking, Ending, Complete, Recording_, Running
  <2>9. Good(w, out)' /\ valid' \in [Position -> {0, 1}]
    BY <1>1, <1>5, <1>6, <1>17, GoodPrompt
  <2>10. (ntok <= h.steps /\ h.steps <= Full /\ h.pos0 \in {0, ntok} /\ (w.rvsched => h.host_end = ntok))'
    BY <1>1, <1>5, <2>1, <2>5
  <2> QED BY <1>1, <1>5, <2>1, <2>3, <2>7, <2>8, <2>9, <2>10 DEF HostInv
<1>18. CASE /\ kv' = cache /\ rows' = (IF w.all THEN rows \o more ELSE rows) /\ ~(n >= ntok) /\ out' = out
            /\ h' = [h EXCEPT !.written = n, !.s0 = @ + M]
  <2>1. s = h.s0 /\ h.s0 + M = n /\ n < ntok
    BY <1>1, <1>2, <1>3, <1>4, <1>18 DEF n
  <2>2. /\ h' \in HostType /\ h'.pc = "prefill" /\ h'.status = "ok" /\ h'.pos0 = 0 /\ h'.pos = 0
        /\ h'.steps = Full /\ h'.host_end = h.host_end /\ h'.written = n /\ h'.s0 = n
    BY <1>1, <1>2, <1>3, <1>4, <1>18, <2>1 DEF HostType
  <2>3. ntok' = ntok /\ Full' = Full
    BY <1>5 DEF ntok, Full
  <2>4. Len(rows') = IF w.all THEN n ELSE 0
    BY <1>15, <1>16, <1>18
  <2>5. RowsInv'
    BY <1>1, <1>4, <1>5, <1>15, <1>16, <1>18, <2>1, <2>2, <2>3 DEF RowsInv
  <2>6. Prefilling'
    BY <1>2, <1>5, <1>6, <1>7, <1>18, <2>1, <2>2, <2>3, <2>4 DEF Prefilling
  <2>7. Decoding' /\ Asking' /\ Ending' /\ Complete'
    BY <2>2 DEF Decoding, Asking, Ending, Complete, Recording_, Running
  <2>8. Good(w, out)' /\ valid' \in [Position -> {0, 1}]
    BY <1>5, <1>6, <1>18 DEF HostInv
  <2>9. (ntok <= h.steps /\ h.steps <= Full /\ h.pos0 \in {0, ntok} /\ (w.rvsched => h.host_end = ntok))'
    BY <1>1, <1>5, <2>2, <2>3 DEF HostInv
  <2> QED BY <1>1, <1>5, <2>2, <2>5, <2>6, <2>7, <2>8, <2>9 DEF HostInv
<1> QED BY <1>5, <1>14, <1>17, <1>18


\* With --rvsched the host leaves off at the end of the prompt.
LEMMA StartIs ==
    ASSUME HostInv, w.rvsched
    PROVE  h.host_end = ntok /\ start = ntok
<1>1. ntok \in Nat /\ h.pos0 \in {0, ntok} /\ h.host_end = ntok
  BY WorldIs DEF HostInv, HostType
<1> QED BY <1>1 DEF start, Longer

\* A step of the host prints the token it feeds and finds the next one.
LEMMA DecodeHost ==
    ASSUME HostInv, CoreInv, Decode
    PROVE  HostInv'
<1> DEFINE pos == h.pos
           token == IF h.pos < ntok THEN w.toks[h.pos + 1] ELSE h.token
           mask == [valid EXCEPT ![h.pos] = 1]
           cache == [kv EXCEPT ![h.pos] = token]
           l == Logits(w.model, Attended(cache, mask, Length(h.pos)))
           best == Argmax(l)
           u == Append(out, token)
<1>1. /\ w.toks \in Seq(Id) /\ ntok \in Nat /\ 1 <= ntok /\ ntok <= MaxLen /\ MaxLen \in Nat
      /\ Full \in Nat /\ ntok <= Full /\ Full <= MaxLen /\ w \in World /\ ntok = Len(w.toks) /\ w.stop \in Int
  BY WorldIs DEF HostInv, ntok
<1>2. /\ h.pc = "decode" /\ Len(out) = pos /\ h.pos0 <= pos /\ h.status = "ok"
      /\ Cached(kv, out, pos) /\ Masks(valid, MaxLen, pos)
      /\ ntok <= pos => Choice(w, out, h.token)
      /\ w.rvsched /\ h.steps # Full => ntok <= pos
      /\ ~w.rvsched => h.host_end = IF PrefillStops THEN ntok ELSE Full
      /\ w.rvsched => h.host_end = ntok
      /\ pos < h.host_end
  BY DEF Decode, HostInv, Decoding
<1>3. /\ h \in HostType /\ pos \in Nat /\ h.token \in Id /\ h.steps \in Nat /\ ntok <= h.steps /\ h.steps <= Full
      /\ h.pos0 \in {0, ntok} /\ valid \in [Position -> {0, 1}] /\ Good(w, out) /\ out \in Seq(Id)
  BY DEF HostInv, HostType, Good
<1>4. /\ pos < Full /\ (w.rvsched => pos + 1 <= ntok /\ h.steps = Full) /\ pos \in Position /\ pos < MaxLen
      /\ ~w.rvsched => ~PrefillStops /\ h.host_end = Full
  <2>1. ~w.rvsched => ~PrefillStops /\ h.host_end = Full
    <3>1. ASSUME PrefillStops, ~w.rvsched
          PROVE  FALSE
      <4>1. h.pos0 > 0 /\ h.host_end = ntok
        BY <1>2, <3>1 DEF PrefillStops
      <4>2. h.pos0 = ntok
        BY <1>3, <4>1
      <4> QED BY <1>1, <1>2, <1>3, <4>1, <4>2
    <3> QED BY <1>2, <3>1
  <2>2. pos < Full /\ (w.rvsched => pos + 1 <= ntok /\ h.steps = Full)
    BY <1>1, <1>2, <1>3, <2>1
  <2> QED BY <1>1, <1>3, <2>1, <2>2 DEF Position
<1>5. /\ w' = w /\ valid' = mask /\ rows' = rows
      /\ \/ /\ kv' = cache /\ out' = u
            /\ h' = [h EXCEPT !.pos = @ + 1, !.token = best,
                              !.steps = IF h.pos + 1 >= ntok /\ best = w.stop THEN h.pos + 1 ELSE @]
         \/ h' = [h EXCEPT !.status = "CALL", !.pc = "end"] /\ kv' = kv /\ out' = out
  BY Zenon DEF Decode, Failed
<1>6. mask \in [Position -> {0, 1}] /\ Masks(mask, MaxLen, pos + 1)
  <2>1. mask \in [Position -> {0, 1}]
    BY <1>3
  <2>2. ASSUME NEW i \in Position
        PROVE  mask[i] = 1 <=> i < pos + 1
    <3>1. i \in Nat /\ i < MaxLen
      BY <1>1, <2>2 DEF Position
    <3>2. mask[i] = IF i = pos THEN 1 ELSE valid[i]
      BY <1>3
    <3>3. valid[i] = 1 <=> i < pos
      BY <1>2, <3>1 DEF Masks
    <3> HIDE DEF mask, pos
    <3> QED BY <1>3, <3>1, <3>2, <3>3
  <2> QED BY <2>1, <2>2 DEF Masks
<1>7. RowsInv /\ Complete
  BY DEF HostInv
<1>8. CASE h' = [h EXCEPT !.status = "CALL", !.pc = "end"] /\ kv' = kv /\ out' = out
  <2>1. /\ h' \in HostType /\ h'.pc = "end" /\ h'.status = "CALL" /\ h'.pos0 = h.pos0 /\ h'.steps = h.steps
        /\ h'.host_end = h.host_end
    BY <1>3, <1>8 DEF HostType, HostPc, HostStatus
  <2>2. RowsInv'
    BY <1>5, <1>7, <1>8, <2>1 DEF RowsInv, ntok
  <2>3. Prefilling' /\ Decoding' /\ Asking' /\ Ending' /\ Complete'
    BY <2>1 DEF Prefilling, Decoding, Asking, Ending, Complete, Recording_, Running
  <2>4. Good(w, out)' /\ valid' \in [Position -> {0, 1}]
    BY <1>3, <1>5, <1>6, <1>8
  <2>5. (ntok <= h.steps /\ h.steps <= Full /\ h.pos0 \in {0, ntok} /\ (w.rvsched => h.host_end = ntok))'
    BY <1>3, <1>5, <2>1 DEF HostInv, ntok, Full
  <2> QED BY <1>1, <1>5, <2>1, <2>2, <2>3, <2>4, <2>5 DEF HostInv
<1>9. token \in Id /\ Choice(w, out, token)
  BY <1>1, <1>2, <1>3 DEF Choice
<1>10. Good(w, u) /\ Len(u) = pos + 1 /\ Begins(out, u) /\ u \in Seq(Id) /\ u[pos + 1] = token
  <2>1. Good(w, u) /\ Len(u) = Len(out) + 1 /\ Begins(out, u)
    BY <1>1, <1>3, <1>9, GoodAppend
  <2>2. u[Len(out) + 1] = token
    BY <1>3
  <2> QED BY <1>2, <2>1, <2>2 DEF Good
<1>11. Cached(cache, u, pos + 1)
  <2> SUFFICES ASSUME NEW i \in 0 .. (pos + 1) - 1
               PROVE  cache[i] = u[i + 1]
    BY DEF Cached
  <2>0. kv = [j \in Position |-> kv[j]]
    BY <1>2 DEF CoreInv, Running
  <2>1. i \in Position /\ i \in Nat /\ i \in 0 .. pos
    BY <1>1, <1>3, <1>4 DEF Position
  <2>2. cache[i] = IF i = pos THEN token ELSE kv[i]
    BY <2>0, <2>1
  <2>3. i # pos => i \in 0 .. pos - 1 /\ i + 1 \in 1 .. Len(out)
    BY <1>2, <1>3, <2>1
  <2>4. i # pos => kv[i] = out[i + 1] /\ u[i + 1] = out[i + 1]
    BY <1>2, <1>10, <2>3 DEF Cached, Begins
  <2> HIDE DEF cache, u, token, pos
  <2> QED BY <1>10, <2>2, <2>4

<1>12. l \in Floats /\ l = Logits(w.model, Prefix(u, pos + 1)) /\ best \in Id /\ Goes(l, best)
  <2>1. Length(pos) \in Nat /\ pos < Length(pos)
    BY <1>1, <1>3, <1>4, LengthIs
  <2>2. pos + 1 \in 1 .. Len(u) /\ pos + 1 <= MaxLen /\ pos + 1 <= Length(pos)
    BY <1>1, <1>3, <1>4, <1>10, <2>1
  <2>3. Masks(mask, Length(pos), pos + 1)
    <3>1. \A i \in Position : i < MaxLen
      BY <1>1 DEF Position
    <3> HIDE DEF mask
    <3> QED BY <1>6, <3>1 DEF Masks
  <2> HIDE DEF cache, u, token, mask, pos
  <2>4. /\ Logits(w.model, Attended(cache, mask, Length(pos))) = Logits(w.model, Prefix(u, pos + 1))
        /\ Logits(w.model, Prefix(u, pos + 1)) \in Floats
    BY <1>1, <1>10, <1>11, <2>1, <2>2, <2>3, StepLogits
  <2>5. l = Logits(w.model, Prefix(u, pos + 1)) /\ l \in Floats
    BY <2>4 DEF pos
  <2> HIDE DEF l
  <2> QED BY <2>5, HostGoes
<1> HIDE DEF cache, u, mask, l, best, token
<1>13. CASE /\ kv' = cache /\ out' = u
            /\ h' = [h EXCEPT !.pos = @ + 1, !.token = best,
                              !.steps = IF h.pos + 1 >= ntok /\ best = w.stop THEN h.pos + 1 ELSE @]
  <2>1. /\ h' \in HostType /\ h'.pc = "decode" /\ h'.status = "ok" /\ h'.pos0 = h.pos0 /\ h'.pos = pos + 1
        /\ h'.token = best /\ h'.steps = (IF pos + 1 >= ntok /\ best = w.stop THEN pos + 1 ELSE h.steps)
        /\ h'.host_end = h.host_end
    <3> DEFINE c == IF h.pos + 1 >= ntok /\ best = w.stop THEN h.pos + 1 ELSE h.steps
               e == h.pos + 1
    <3>1. h' = [h EXCEPT !.pos = e, !.token = best, !.steps = c]
      BY <1>3, <1>13 DEF HostType
    <3>2. c \in Nat /\ e \in Nat /\ best \in Id
      BY <1>3, <1>12
    <3>3. e = pos + 1 /\ c = IF pos + 1 >= ntok /\ best = w.stop THEN pos + 1 ELSE h.steps
      OBVIOUS
    <3>4. h \in HostType /\ h.pc = "decode" /\ h.status = "ok"
      BY <1>2, <1>3
    <3> HIDE DEF c, e, pos
    <3>5. /\ h' \in HostType /\ h'.pc = "decode" /\ h'.status = "ok" /\ h'.pos0 = h.pos0 /\ h'.pos = e
          /\ h'.token = best /\ h'.steps = c /\ h'.host_end = h.host_end
      BY <3>1, <3>2, <3>4 DEF HostType
    <3> QED BY <3>3, <3>5
  <2>2. ntok' = ntok /\ Full' = Full /\ Len(out') = pos + 1
    BY <1>5, <1>10, <1>13 DEF ntok, Full
  <2>3. RowsInv'
    BY <1>5, <1>7, <2>1, <2>2 DEF RowsInv
  <2>4. ~w.rvsched => ~PrefillStops'
    <3> SUFFICES ASSUME ~w.rvsched, h.pos0 > 0
                 PROVE  ~(pos + 1 <= ntok) /\ u[ntok + 1] # w.stop
      BY <1>5, <1>13, <2>1, <2>2 DEF PrefillStops
    <3>1. ntok <= pos /\ ntok \in Nat /\ pos \in Nat
      BY <1>1, <1>2, <1>3
    <3>2. (IF pos <= ntok THEN h.token ELSE out[ntok + 1]) # w.stop
      BY <1>2, <1>4 DEF PrefillStops
    <3>3. CASE pos = ntok
      <4>1. token = h.token
        BY <3>1 DEF token
      <4> QED BY <1>10, <3>1, <3>2, <3>3, <4>1
    <3>4. CASE pos # ntok
      <4>1. ntok + 1 \in 1 .. Len(out)
        BY <1>2, <3>1, <3>4
      <4>2. u[ntok + 1] = out[ntok + 1]
        BY <1>10, <4>1 DEF Begins
      <4> QED BY <3>1, <3>2, <3>4, <4>2
    <3> QED BY <3>3, <3>4
  <2>5. ntok <= pos + 1 => Choice(w, u, best)
    <3> SUFFICES ASSUME ntok <= pos + 1 PROVE Choice(w, u, best)
      OBVIOUS
    <3>1. ~(pos + 1 < ntok)
      BY <1>1, <1>3
    <3> QED BY <1>1, <1>10, <1>12, <3>1 DEF Choice
  <2>6. Decoding'
    <3>1. /\ pos + 1 <= h'.host_end /\ h'.pos0 <= pos + 1
          /\ w.rvsched /\ ntok <= pos + 1 /\ best = w.stop => h'.steps = pos + 1
          /\ w.rvsched /\ h'.steps # Full => h'.steps = pos + 1 /\ ntok <= pos + 1 /\ best = w.stop
          /\ ~w.rvsched => h'.host_end = Full
      <4>1. h'.host_end = h.host_end /\ h.host_end \in Nat
        BY <1>3, <2>1 DEF HostType
      <4> QED BY <1>1, <1>2, <1>3, <1>4, <2>1, <4>1
    <3> QED BY <1>4, <1>5, <1>6, <1>11, <1>13, <2>1, <2>2, <2>4, <2>5, <3>1 DEF Decoding
  <2>7. Prefilling' /\ Asking' /\ Ending' /\ Complete'
    BY <2>1 DEF Prefilling, Asking, Ending, Complete, Recording_, Running
  <2>8. Good(w, out)' /\ valid' \in [Position -> {0, 1}]
    BY <1>5, <1>6, <1>10, <1>13
  <2>9. (ntok <= h.steps /\ h.steps <= Full /\ h.pos0 \in {0, ntok} /\ (w.rvsched => h.host_end = ntok))'
    BY <1>1, <1>2, <1>3, <1>4, <1>5, <2>1, <2>2
  <2> QED BY <1>1, <1>5, <2>1, <2>3, <2>6, <2>7, <2>8, <2>9 DEF HostInv
<1> QED BY <1>5, <1>8, <1>13

\* The end of the host's loop, with or without a schedule to follow.
LEMMA DecodedHost ==
    ASSUME HostInv, Decoded
    PROVE  HostInv'
<1>1. /\ ntok \in Nat /\ 1 <= ntok /\ ntok <= MaxLen /\ MaxLen \in Nat /\ Full \in Nat /\ ntok <= Full /\ w \in World
  BY WorldIs DEF HostInv
<1>2. /\ h.pc = "decode" /\ h.pos >= h.host_end
      /\ IF w.rvsched /\ h.steps > start
         THEN h' = [h EXCEPT !.pc = "record", !.pass = 1, !.bucket = start \div Pad, !.pos = start]
         ELSE h' = [h EXCEPT !.pc = "end"]
      /\ w' = w /\ valid' = valid /\ out' = out /\ rows' = rows /\ kv' = kv
  BY DEF Decoded, coreVars
<1>3. /\ h.pc = "decode" /\ Len(out) = h.pos /\ h.pos <= h.host_end /\ h.status = "ok"
      /\ ntok <= h.pos => Choice(w, out, h.token)
      /\ w.rvsched /\ ntok <= h.pos /\ h.token = w.stop => h.steps = h.pos
      /\ w.rvsched /\ h.steps # Full => h.steps = h.pos /\ h.token = w.stop
      /\ ~w.rvsched => h.host_end = IF PrefillStops THEN ntok ELSE Full
  BY <1>2 DEF HostInv, Decoding
<1>4. /\ h \in HostType /\ h.pos \in Nat /\ h.token \in Id /\ h.steps \in Nat /\ ntok <= h.steps /\ h.steps <= Full
      /\ h.pos0 \in {0, ntok} /\ valid \in [Position -> {0, 1}] /\ Good(w, out) /\ out \in Seq(Id)
  BY DEF HostInv, HostType, Good
<1>5. w.rvsched => h.host_end = ntok /\ start = ntok /\ h.pos = ntok
  <2> SUFFICES ASSUME w.rvsched PROVE h.host_end = ntok /\ start = ntok /\ h.pos = ntok
    OBVIOUS
  <2>1. h.host_end = ntok /\ start = ntok
    BY StartIs
  <2> QED BY <1>1, <1>2, <1>3, <1>4, <2>1
<1>6. ~w.rvsched => h.pos = IF PrefillStops THEN ntok ELSE Full
  BY <1>1, <1>2, <1>3, <1>4
<1>7. RowsInv /\ Complete
  BY DEF HostInv
<1>8. start \div Pad \in Nat \/ ~w.rvsched
  <2> SUFFICES ASSUME w.rvsched PROVE start \div Pad \in Nat
    OBVIOUS
  <2>1. start \in Nat /\ Pad \in Nat \ {0}
    BY <1>1, <1>5, Sizes
  <2> QED BY <2>1
<1>9. /\ h' \in HostType /\ h'.pos0 = h.pos0 /\ h'.steps = h.steps /\ h'.token = h.token /\ h'.status = "ok"
      /\ h'.host_end = h.host_end
      /\ h'.pc = IF w.rvsched /\ h.steps > start THEN "record" ELSE "end"
  <2>1. CASE w.rvsched /\ h.steps > start
    <3>1. h' = [h EXCEPT !.pc = "record", !.pass = 1, !.bucket = start \div Pad, !.pos = start] /\ start \in Nat
      BY <1>1, <1>2, <1>5, <2>1
    <3>2. start \div Pad \in Nat
      BY <1>8, <2>1
    <3> QED BY <1>3, <1>4, <2>1, <3>1, <3>2 DEF HostType, HostPc
  <2>2. CASE ~(w.rvsched /\ h.steps > start)
    <3>1. h' = [h EXCEPT !.pc = "end"]
      BY <1>2, <2>2
    <3> QED BY <1>3, <1>4, <2>2, <3>1 DEF HostType, HostPc
  <2> QED BY <2>1, <2>2
<1>10. ntok' = ntok /\ Full' = Full /\ (NoStop <=> NoStop') /\ (PrefillStops <=> PrefillStops')
  BY <1>2, <1>9 DEF ntok, Full, NoStop, PrefillStops
<1>11. RowsInv'
  BY <1>2, <1>7, <1>9, <1>10 DEF RowsInv
<1>12. Asking'
  <2> SUFFICES ASSUME h'.pc = "record"
               PROVE  w.rvsched /\ Len(out) = ntok /\ Choice(w, out, h.token) /\ h.steps = Full /\ ntok < Full /\ h.token # w.stop
    BY <1>2, <1>9, <1>10 DEF Asking, Recording_, Running
  <2>1. w.rvsched /\ h.steps > ntok /\ h.pos = ntok
    BY <1>5, <1>9
  <2> QED BY <1>1, <1>3, <1>4, <2>1
<1>13. Ending'
  <2> SUFFICES ASSUME h'.pc = "end"
               PROVE  /\ ntok <= Len(out) /\ Len(out) <= Full /\ Choice(w, out, h.token)
                      /\ w.rvsched => NoStop /\ (Len(out) = Full \/ h.token = w.stop)
                      /\ ~w.rvsched => Len(out) = IF PrefillStops THEN ntok ELSE Full
    BY <1>2, <1>9, <1>10 DEF Ending
  <2>1. ntok <= h.pos /\ h.pos <= Full
    BY <1>1, <1>4, <1>5, <1>6
  <2>2. ASSUME w.rvsched
        PROVE  NoStop /\ (Len(out) = Full \/ h.token = w.stop)
    <3>1. h.pos = ntok /\ ~(h.steps > ntok)
      BY <1>5, <1>9, <2>2
    <3>2. NoStop
      BY <1>1, <1>3, <3>1 DEF NoStop
    <3> QED BY <1>1, <1>3, <1>4, <2>2, <3>1, <3>2
  <2> QED BY <1>3, <1>6, <2>1, <2>2
<1>14. Prefilling' /\ Decoding' /\ Complete'
  BY <1>9 DEF Prefilling, Decoding, Complete
<1>15. Good(w, out)' /\ valid' \in [Position -> {0, 1}] /\ w' \in World
  BY <1>1, <1>2, <1>4
<1>16. (w.rvsched => h.host_end = ntok)'
  BY <1>2, <1>5, <1>9, <1>10
<1> QED BY <1>4, <1>9, <1>10, <1>11, <1>12, <1>13, <1>14, <1>15, <1>16 DEF HostInv


\* While the table is made and the core runs, the host prints nothing.
LEMMA HostAsks ==
    ASSUME HostInv, Recording_ \/ Running,
           w' = w, out' = out, rows' = rows, valid' \in [Position -> {0, 1}], h' \in HostType,
           h'.token = h.token, h'.steps = h.steps, h'.pos0 = h.pos0, h'.host_end = h.host_end,
           (Recording_ \/ Running)' \/ (h'.pc = "end" /\ h'.status # "ok")
    PROVE  HostInv'
<1>1. ntok' = ntok /\ Full' = Full
  BY DEF ntok, Full
<1>2. RowsInv'
  BY <1>1 DEF HostInv, RowsInv
<1>3. h'.pc \notin {"prefill", "decode", "exit"} /\ (h'.pc = "end" => h'.status # "ok")
  BY DEF Recording_, Running
<1>4. Prefilling' /\ Decoding' /\ Ending' /\ Complete'
  BY <1>3 DEF Prefilling, Decoding, Ending, Complete
<1>5. Asking' /\ (w.rvsched => h.host_end = ntok)'
  BY <1>1 DEF HostInv, Asking
<1> QED BY <1>1, <1>2, <1>4, <1>5 DEF HostInv

\* The host's part says nothing about the schedule.
LEMMA HostSame ==
    ASSUME HostInv, h.pc \notin {"prefill", "decode"}, UNCHANGED <<w, h, valid, out, rows>>
    PROVE  HostInv'
<1>1. ntok' = ntok /\ Full' = Full
  BY DEF ntok, Full
<1>2. RowsInv' /\ Complete'
  BY <1>1 DEF HostInv, RowsInv, Complete, G!After
<1>3. Prefilling' /\ Decoding'
  BY DEF Prefilling, Decoding
<1>4. Asking' /\ Ending'
  BY <1>1 DEF HostInv, Asking, Ending, NoStop, PrefillStops, Recording_, Running
<1> QED BY <1>1, <1>2, <1>3, <1>4 DEF HostInv

\* The end of a sequence, entry by entry.
LEMMA TailIs ==
    ASSUME NEW s \in Seq(Id), NEW m \in 0 .. Len(s)
    PROVE  /\ Len(SubSeq(s, m + 1, Len(s))) = Len(s) - m
           /\ \A k \in 1 .. Len(s) - m : SubSeq(s, m + 1, Len(s))[k] = s[m + k]
<1> DEFINE n == Len(s)
<1>1. n \in Nat /\ m \in Nat /\ m <= n
  OBVIOUS
<1>2. SubSeq(s, m + 1, n) = [k \in 1 .. (1 + n) - (m + 1) |-> s[(k + (m + 1)) - 1]]
  BY <1>1
<1> HIDE DEF n
<1>3. (1 + n) - (m + 1) = n - m /\ n - m \in Nat /\ \A k \in 1 .. n - m : (k + (m + 1)) - 1 = m + k
  BY <1>1
<1>4. SubSeq(s, m + 1, n) = [k \in 1 .. n - m |-> s[m + k]]
  BY <1>2, <1>3
<1>5. Len([k \in 1 .. n - m |-> s[m + k]]) = n - m
  BY <1>3
<1> QED BY <1>4, <1>5 DEF n

\* What is printed at the end is complete.
LEMMA EndHost ==
    ASSUME HostInv, End
    PROVE  HostInv'
<1>1. /\ h.pc = "end" /\ out' = (IF Says THEN Append(out, h.token) ELSE out) /\ h' = [h EXCEPT !.pc = "exit"]
      /\ w' = w /\ valid' = valid /\ rows' = rows
  BY DEF End
<1>2. /\ ntok \in Nat /\ 1 <= ntok /\ Full \in Nat /\ ntok <= Full /\ w \in World /\ w.generate \in Nat
      /\ w.toks \in Seq(Id) /\ (w.generate = 0 => Full = ntok)
  BY WorldIs DEF HostInv
<1>3. /\ h \in HostType /\ h.token \in Id /\ Good(w, out) /\ out \in Seq(Id) /\ RowsInv
      /\ ntok <= h.steps /\ h.steps <= Full /\ h.pos0 \in {0, ntok} /\ valid \in [Position -> {0, 1}]
  BY DEF HostInv, HostType, Good
<1>4. /\ h' \in HostType /\ h'.pc = "exit" /\ h'.status = h.status /\ h'.pos0 = h.pos0 /\ h'.steps = h.steps
      /\ h'.host_end = h.host_end
  BY <1>1, <1>3 DEF HostType, HostPc
<1>5. ntok' = ntok /\ Full' = Full
  BY <1>1 DEF ntok, Full
<1>6. RowsInv'
  BY <1>1, <1>3, <1>4, <1>5 DEF RowsInv
<1>7. h.status = "ok" =>
        /\ ntok <= Len(out) /\ Len(out) <= Full /\ Choice(w, out, h.token)
        /\ w.rvsched => NoStop /\ (Len(out) = Full \/ h.token = w.stop)
        /\ ~w.rvsched => Len(out) = IF PrefillStops THEN ntok ELSE Full
  BY <1>1 DEF HostInv, Ending
<1>8. Good(w, out') /\ out' \in Seq(Id)
  <2>1. CASE Says
    <3>1. Choice(w, out, h.token) /\ out' = Append(out, h.token)
      BY <1>1, <1>7, <2>1 DEF Says
    <3> QED BY <1>2, <1>3, <3>1, GoodAppend DEF Good
  <2>2. CASE ~Says
    BY <1>1, <1>3, <2>2
  <2> QED BY <2>1, <2>2
<1>9. Complete'
  <2> DEFINE full == Full + IF w.generate > 0 THEN 1 ELSE 0
             n == Most(ntok, Len(out'))
             said == SubSeq(out', n + 1, Len(out'))
  <2> SUFFICES ASSUME h.status = "ok"
               PROVE  IF w.rvsched
                      THEN \/ Len(out') = full /\ \A k \in 1 .. Len(said) - 1 : said[k] # w.stop
                           \/ /\ ntok < Len(out') /\ Len(out') < full
                              /\ \A k \in 1 .. Len(said) : (said[k] = w.stop) <=> (k = Len(said))
                      ELSE Len(out') = IF h.pos0 > 0 /\ Len(said) > 0 /\ said[1] = w.stop THEN ntok + 1 ELSE full
    BY <1>1, <1>4, <1>5 DEF Complete, Full
  <2>1. /\ Len(out) \in Nat /\ ntok <= Len(out) /\ Len(out) <= Full
        /\ w.rvsched => Len(out) = Full \/ h.token = w.stop
        /\ w.rvsched => \A k \in ntok + 1 .. Len(out) : out[k] # w.stop
        /\ ~w.rvsched => Len(out) = IF PrefillStops THEN ntok ELSE Full
    BY <1>3, <1>7 DEF NoStop
  <2>2. CASE w.generate = 0
    <3>1. ~Says /\ out' = out /\ full = Full /\ Full = ntok
      BY <1>1, <1>2, <2>2 DEF Says
    <3>2. n = ntok /\ Len(out') = ntok
      BY <1>2, <2>1, <3>1 DEF Most
    <3>3. Len(said) = 0
      BY <1>2, <1>8, <3>2
    <3> QED BY <3>1, <3>2, <3>3
  <2>3. CASE w.generate > 0
    <3>1. Says /\ out' = Append(out, h.token) /\ full = Full + 1
      BY <1>1, <1>2, <2>3 DEF Says
    <3>2. /\ Len(out') = Len(out) + 1 /\ out'[Len(out) + 1] = h.token
          /\ \A k \in 1 .. Len(out) : out'[k] = out[k]
      BY <1>3, <3>1
    <3>3. n = ntok
      BY <1>2, <2>1, <3>2 DEF Most
    <3> DEFINE m == Len(out)
    <3>4. /\ Len(said) = m + 1 - ntok
          /\ \A k \in 1 .. m + 1 - ntok : said[k] = out'[ntok + k]
      <4>1. ntok \in 0 .. Len(out') /\ out' \in Seq(Id) /\ said = SubSeq(out', ntok + 1, Len(out'))
        BY <1>2, <1>8, <2>1, <3>2, <3>3
      <4> HIDE DEF said, n, full
      <4>2. /\ Len(said) = Len(out') - ntok
            /\ \A k \in 1 .. Len(out') - ntok : said[k] = out'[ntok + k]
        BY <4>1, TailIs
      <4>3. Len(out') = m + 1
        BY <3>2
      <4> DEFINE z == Len(out')
      <4>4. Len(said) = z - ntok /\ \A k \in 1 .. z - ntok : said[k] = out'[ntok + k]
        BY <4>2
      <4>5. z = m + 1
        BY <4>3
      <4>6. m \in Nat /\ ntok \in Nat
        BY <1>2, <2>1
      <4> HIDE DEF z, m
      <4> QED BY <4>4, <4>5, <4>6
    <3> HIDE DEF said, n, full
    <3> DEFINE q == Len(said)
    <3>9. m \in Nat /\ ntok \in Nat /\ ntok <= m /\ q = m + 1 - ntok
      BY <1>2, <2>1, <3>4
    <3>10. \A k \in 1 .. q : said[k] = out'[ntok + k]
      BY <3>4, <3>9
    <3>11. \A k \in 1 .. m : out'[k] = out[k]
      BY <3>2
    <3> HIDE DEF m, q
    <3>5. ASSUME w.rvsched, NEW k \in 1 .. q, k # q
          PROVE  said[k] # w.stop
      <4>1. ntok + k \in ntok + 1 .. m /\ ntok + k \in 1 .. m
        BY <3>5, <3>9
      <4> QED BY <2>1, <3>5, <3>10, <3>11, <4>1 DEF m
    <3>6. said[q] = h.token
      <4>1. q \in 1 .. q /\ ntok + q = m + 1
        BY <3>9
      <4> QED BY <3>2, <3>10, <4>1 DEF m
    <3>7. CASE w.rvsched /\ Len(out) = Full
      <4>1. Len(out') = full
        BY <1>2, <3>1, <3>2, <3>7
      <4>2. \A k \in 1 .. q - 1 : k \in 1 .. q /\ k # q
        BY <3>9
      <4> QED BY <3>5, <3>7, <4>1, <4>2 DEF q
    <3>8. CASE w.rvsched /\ Len(out) # Full
      <4>1. h.token = w.stop /\ ntok < Len(out') /\ Len(out') < full
        BY <1>2, <2>1, <3>1, <3>2, <3>8
      <4>2. \A k \in 1 .. q : (said[k] = w.stop) <=> (k = q)
        BY <3>5, <3>6, <3>8, <4>1
      <4> QED BY <3>8, <4>1, <4>2 DEF q
    <3>12. CASE ~w.rvsched
      <4>1. Len(said) > 0 /\ said[1] = out'[ntok + 1] /\ ntok + 1 \in 1 .. m + 1
        <5>1. q > 0 /\ 1 \in 1 .. q /\ ntok + 1 \in 1 .. m + 1
          BY <3>9
        <5> QED BY <3>10, <5>1 DEF q
      <4>2. said[1] = IF m <= ntok THEN h.token ELSE out[ntok + 1]
        <5>1. CASE m <= ntok
          <6>1. ntok + 1 = m + 1
            BY <3>9, <5>1
          <6> QED BY <3>2, <4>1, <5>1, <6>1 DEF m
        <5>2. CASE ~(m <= ntok)
          <6>1. ntok + 1 \in 1 .. m
            BY <3>9, <5>2
          <6> QED BY <3>11, <4>1, <5>2, <6>1
        <5> QED BY <5>1, <5>2
      <4>3. PrefillStops <=> h.pos0 > 0 /\ said[1] = w.stop
        BY <4>2 DEF PrefillStops, m
      <4>4. Len(out) = (IF PrefillStops THEN ntok ELSE Full) /\ Len(out') = Len(out) + 1 /\ full = Full + 1
        BY <2>1, <3>1, <3>2, <3>12
      <4> QED BY <3>12, <4>1, <4>3, <4>4
    <3> QED BY <3>7, <3>8, <3>12
  <2>4. w.generate = 0 \/ w.generate > 0
    BY <1>2
  <2> HIDE DEF full, said, n
  <2> QED BY <2>2, <2>3, <2>4
<1>10. Prefilling' /\ Decoding' /\ Asking' /\ Ending'
  BY <1>4 DEF Prefilling, Decoding, Asking, Ending, Recording_, Running
<1>11. (w.rvsched => h.host_end = ntok)'
  BY <1>1, <1>4, <1>5 DEF HostInv
<1> QED BY <1>1, <1>2, <1>3, <1>4, <1>5, <1>6, <1>8, <1>9, <1>10, <1>11 DEF HostInv

-----------------------------------------------------------------------------
(* What the core has told the host. *)

\* The types the next lemmas need.
Telling == HostInv /\ Running /\ tab.out \in [1 .. N -> Id]

\* While the core runs the prompt is printed and the first choice known.
LEMMA TellingIs ==
    ASSUME Telling
    PROVE  /\ w \in World /\ w.toks \in Seq(Id) /\ ntok \in Nat /\ 1 <= ntok /\ ntok = Len(w.toks)
           /\ Full \in Nat /\ ntok < Full /\ Full <= MaxLen /\ MaxLen \in Nat /\ N \in Nat /\ N + ntok = Full
           /\ out \in Seq(Id) /\ Len(out) = ntok /\ Good(w, out) /\ h.token \in Id /\ h.token # w.stop
           /\ Choice(w, out, h.token) /\ h.steps = Full /\ w.rvsched
<1>1. /\ w \in World /\ w.toks \in Seq(Id) /\ ntok \in Nat /\ 1 <= ntok /\ ntok = Len(w.toks)
      /\ Full \in Nat /\ Full <= MaxLen /\ MaxLen \in Nat
  BY WorldIs DEF Telling, HostInv, ntok
<1>2. /\ out \in Seq(Id) /\ Good(w, out) /\ h.token \in Id
  BY DEF Telling, HostInv, HostType, Good
<1>3. ntok < Full /\ Len(out) = ntok /\ h.token # w.stop /\ Choice(w, out, h.token) /\ h.steps = Full /\ w.rvsched
  BY DEF Telling, HostInv, Asking
<1>4. N \in Nat /\ N + ntok = Full
  BY <1>1, <1>3 DEF N
<1> QED BY <1>1, <1>2, <1>3, <1>4

\* The tokens fed to the core, one by one: the prompt, the host's choice, the
\* core's.
LEMMA FedIs ==
    ASSUME Telling, NEW n \in 0 .. N
    PROVE  /\ Fed(n) \in Seq(Id) /\ Len(Fed(n)) = ntok + 1 + n
           /\ \A i \in 1 .. ntok : Fed(n)[i] = out[i]
           /\ Fed(n)[ntok + 1] = h.token
           /\ \A i \in 1 .. n : Fed(n)[ntok + 1 + i] = tab.out[i]
<1>1. /\ ntok \in Nat /\ N \in Nat /\ out \in Seq(Id) /\ Len(out) = ntok /\ h.token \in Id /\ tab.out \in [1 .. N -> Id]
  BY TellingIs DEF Telling
<1>2. \A i \in 1 .. ntok : out[i] \in Id
  BY <1>1
<1>3. \A i \in 1 .. ntok + 1 + n : i <= ntok \/ i = ntok + 1 \/ i - ntok - 1 \in 1 .. N
  BY <1>1
<1>4. \A i \in 1 .. ntok + 1 + n : (IF i <= ntok THEN out[i] ELSE IF i = ntok + 1 THEN h.token ELSE tab.out[i - ntok - 1]) \in Id
  BY <1>1, <1>2, <1>3
<1>5. Fed(n) \in [1 .. ntok + 1 + n -> Id] /\ ntok + 1 + n \in Nat
  BY <1>1, <1>4 DEF Fed
<1>6. Fed(n) \in Seq(Id) /\ Len(Fed(n)) = ntok + 1 + n
  <2> DEFINE m == ntok + 1 + n
             f == Fed(n)
  <2>1. f \in [1 .. m -> Id] /\ m \in Nat
    BY <1>5
  <2> HIDE DEF m, f
  <2>2. f \in Seq(Id) /\ Len(f) = m
    BY <2>1
  <2> QED BY <2>2 DEF m, f
<1>7. \A i \in 1 .. n : ntok + 1 + i \in 1 .. ntok + 1 + n /\ ~(ntok + 1 + i <= ntok) /\ ntok + 1 + i # ntok + 1 /\ (ntok + 1 + i) - ntok - 1 = i
  BY <1>1
<1>8. \A i \in 1 .. n : Fed(n)[ntok + 1 + i] = tab.out[i]
  BY <1>7 DEF Fed
<1>9. \A i \in 1 .. ntok : i \in 1 .. ntok + 1 + n /\ i <= ntok
  BY <1>1
<1>10. \A i \in 1 .. ntok : Fed(n)[i] = out[i]
  BY <1>9 DEF Fed
<1>11. ntok + 1 \in 1 .. ntok + 1 + n /\ ~(ntok + 1 <= ntok)
  BY <1>1
<1>12. Fed(n)[ntok + 1] = h.token
  BY <1>11 DEF Fed
<1> QED BY <1>6, <1>8, <1>10, <1>12

\* What is told of more steps begins with what is told of fewer.
LEMMA FedBegins ==
    ASSUME Telling, NEW n \in 0 .. N, NEW m \in 0 .. n
    PROVE  /\ Begins(Fed(m), Fed(n)) /\ m \in 0 .. N
           /\ \A i \in 1 .. ntok + 1 + m : Fed(m)[i] = Fed(n)[i]
<1>1. ntok \in Nat /\ N \in Nat
  BY TellingIs
<1>2. m \in 0 .. N /\ m <= n /\ m \in Nat /\ n \in Nat
  BY <1>1
<1>3. \A i \in 1 .. ntok + 1 + m : i \in 1 .. ntok + 1 + n
  BY <1>1, <1>2
<1>4. \A i \in 1 .. ntok + 1 + m : Fed(m)[i] = Fed(n)[i]
  BY <1>3 DEF Fed
<1>5. Len(Fed(m)) = ntok + 1 + m /\ Len(Fed(n)) = ntok + 1 + n
  BY <1>2, FedIs
<1>6. ntok + 1 + m <= ntok + 1 + n
  BY <1>1, <1>2
<1> QED BY <1>2, <1>4, <1>5, <1>6 DEF Begins

\* What the core told earlier stays told.
LEMMA ToldLess ==
    ASSUME Telling, NEW n, Told(n), NEW m \in 0 .. n
    PROVE  Told(m)
<1>1. n \in 0 .. N /\ Good(w, Fed(n))
  BY DEF Told
<1>2. Begins(Fed(m), Fed(n)) /\ m \in 0 .. N
  BY <1>1, FedBegins
<1>3. Fed(m) \in Seq(Id)
  BY <1>2, FedIs
<1>4. Good(w, Fed(m))
  BY <1>1, <1>2, <1>3, GoodBegins, TellingIs
<1> QED BY <1>2, <1>4 DEF Told

\* The table the host may read at any time counts steps that were told.
LEMMA ToldNow ==
    ASSUME HostInv, CoreInv, Running
    PROVE  Telling /\ tab.done \in 0 .. N /\ Told(tab.done) /\ Unstopped(tab.done - 1)
<1>1. /\ TableIs /\ AtStep /\ AtItems /\ AtOut /\ AtDone /\ AtOff /\ core \in CoreType
      /\ core.pc # "off" => tab.done = core.s /\ Unstopped(core.s)
  BY DEF CoreInv, CoreRuns, CoreTypes, Counted
<1>2. Telling
  BY <1>1 DEF Telling, TableIs
<1>3. CASE core.pc = "off"
  <2>1. Told(tab.done) /\ Unstopped(tab.done - 1)
    BY <1>1, <1>3 DEF AtOff
  <2> QED BY <1>2, <2>1 DEF Told
<1>4. CASE core.pc # "off"
  <2>1. tab.done = core.s /\ Unstopped(core.s) /\ core.s \in Nat
    BY <1>1, <1>4 DEF CoreType
  <2>2. core.pc \in {"step", "items", "out", "done"}
    BY <1>1, <1>4 DEF CoreType
  <2>3. Told(core.s)
    <3>1. CASE core.pc \in {"step", "items", "out"}
      BY <1>1, <3>1 DEF AtStep, AtItems, AtOut
    <3>2. CASE core.pc = "done"
      <4>1. Told(core.s + 1) /\ core.s \in 0 .. core.s + 1
        BY <1>1, <2>1, <3>2 DEF AtDone
      <4> QED BY <1>2, <4>1, ToldLess
    <3> QED BY <2>2, <3>1, <3>2
  <2>4. Unstopped(core.s - 1)
    <3>1. \A k \in 1 .. core.s - 1 : k \in 1 .. core.s
      BY <2>1
    <3> QED BY <2>1, <3>1 DEF Unstopped
  <2> QED BY <1>2, <2>1, <2>3, <2>4 DEF Told
<1> QED BY <1>3, <1>4

\* The tokens printed after reading d steps.
LEMMA ReadIs ==
    ASSUME Telling, NEW d \in 0 .. N,
           NEW u, u = out \o [i \in 1 .. d |-> IF i = 1 THEN h.token ELSE tab.out[i - 1]]
    PROVE  /\ u \in Seq(Id) /\ Len(u) = ntok + d /\ Begins(u, Fed(d)) /\ Begins(out, u)
           /\ \A i \in 1 .. ntok + d : u[i] = Fed(d)[i]
<1> DEFINE q == [i \in 1 .. d |-> IF i = 1 THEN h.token ELSE tab.out[i - 1]]
<1>1. /\ ntok \in Nat /\ N \in Nat /\ out \in Seq(Id) /\ Len(out) = ntok /\ h.token \in Id /\ tab.out \in [1 .. N -> Id]
  BY TellingIs DEF Telling
<1>2. d \in Nat /\ d <= N
  BY <1>1
<1>3. \A i \in 1 .. d : i = 1 \/ i - 1 \in 1 .. N
  BY <1>1, <1>2
<1>4. q \in [1 .. d -> Id]
  BY <1>1, <1>3
<1>5. q \in Seq(Id) /\ Len(q) = d
  <2> HIDE DEF q
  <2> QED BY <1>2, <1>4
<1>6. \A i \in 1 .. d : q[i] = IF i = 1 THEN h.token ELSE tab.out[i - 1]
  OBVIOUS
<1>7. u = out \o q
  OBVIOUS
<1> HIDE DEF q
<1>8. /\ u \in Seq(Id) /\ Len(u) = Len(out) + Len(q)
      /\ \A i \in 1 .. Len(out) + Len(q) : u[i] = IF i <= Len(out) THEN out[i] ELSE q[i - Len(out)]
  <2>1. /\ out \o q \in Seq(Id) /\ Len(out \o q) = Len(out) + Len(q)
        /\ \A i \in 1 .. Len(out) + Len(q) : (out \o q)[i] = IF i <= Len(out) THEN out[i] ELSE q[i - Len(out)]
    BY <1>1, <1>5, Joined, Zenon
  <2> QED BY <1>7, <2>1
<1>9. /\ Len(u) = ntok + d
      /\ \A i \in 1 .. ntok + d : u[i] = IF i <= ntok THEN out[i] ELSE q[i - ntok]
  BY <1>1, <1>5, <1>8, Zenon
<1>10. ASSUME NEW i \in 1 .. ntok + d
       PROVE  u[i] = Fed(d)[i]
  <2>0. i \in 1 .. ntok + 1 + d /\ i \in Nat
    BY <1>1, <1>2
  <2>1. Fed(d)[i] = IF i <= ntok THEN out[i] ELSE IF i = ntok + 1 THEN h.token ELSE tab.out[i - ntok - 1]
    BY <2>0 DEF Fed
  <2>2. CASE i <= ntok
    BY <1>9, <2>1, <2>2
  <2>3. CASE ~(i <= ntok)
    <3>1. i - ntok \in 1 .. d /\ (i - ntok = 1 <=> i = ntok + 1) /\ (i - ntok) - 1 = i - ntok - 1
      BY <1>1, <1>2, <2>0, <2>3
    <3>2. u[i] = q[i - ntok]
      BY <1>9, <2>3
    <3>3. q[i - ntok] = IF i - ntok = 1 THEN h.token ELSE tab.out[(i - ntok) - 1]
      BY <1>6, <3>1
    <3> QED BY <2>1, <2>3, <3>1, <3>2, <3>3
  <2> QED BY <2>2, <2>3
<1>11. Len(Fed(d)) = ntok + 1 + d
  BY FedIs
<1>12. Begins(u, Fed(d))
  <2>1. Len(u) <= Len(Fed(d))
    BY <1>1, <1>2, <1>9, <1>11
  <2> QED BY <1>9, <1>10, <2>1 DEF Begins
<1>13. Begins(out, u)
  <2>1. Len(out) <= Len(u) /\ \A i \in 1 .. Len(out) : i \in 1 .. ntok + d /\ i <= ntok
    BY <1>1, <1>2, <1>9
  <2> QED BY <1>9, <2>1 DEF Begins
<1> QED BY <1>8, <1>9, <1>10, <1>12, <1>13

\* The host prints the tokens fed to the steps counted, whether the core is
\* done or was given up on.
LEMMA ReadHost ==
    ASSUME HostInv, CoreInv, Read
    PROVE  HostInv'
<1> DEFINE d == h.done
<1>1. /\ h.pc = "read" /\ Running
      /\ out' = out \o [i \in 1 .. d |-> IF i = 1 THEN h.token ELSE tab.out[i - 1]]
      /\ h' = [h EXCEPT !.pc = "end", !.token = IF d > 0 THEN tab.out[d] ELSE @,
                        !.steps = IF d > 0 THEN start + d ELSE @]
      /\ w' = w /\ valid' = valid /\ rows' = rows
  BY DEF Read, Running
<1>2. Telling /\ tab.done \in 0 .. N /\ Told(tab.done) /\ Unstopped(tab.done - 1)
  BY <1>1, ToldNow
<1>3. /\ w \in World /\ w.toks \in Seq(Id) /\ ntok \in Nat /\ 1 <= ntok /\ ntok = Len(w.toks)
      /\ Full \in Nat /\ ntok < Full /\ N \in Nat /\ N + ntok = Full
      /\ out \in Seq(Id) /\ Len(out) = ntok /\ Good(w, out) /\ h.token \in Id /\ h.token # w.stop
      /\ Choice(w, out, h.token) /\ h.steps = Full /\ w.rvsched
  BY <1>2, TellingIs
<1>4. /\ h \in HostType /\ d \in Nat /\ valid \in [Position -> {0, 1}] /\ h.pos0 \in {0, ntok} /\ RowsInv
  BY DEF HostInv, HostType
<1>5. /\ d <= tab.done
      /\ h.status = "ok" => core.pc = "off" /\ tab.status = "ok" /\ d = tab.done
      /\ TableIs /\ AtOff
  BY <1>1 DEF CoreInv, CoreRuns, HostReads
<1>6. start = ntok
  BY <1>3, StartIs
<1>7. d \in 0 .. N /\ d \in 0 .. tab.done /\ tab.out \in [1 .. N -> Id]
  BY <1>2, <1>3, <1>4, <1>5 DEF Telling
<1> HIDE DEF d
<1>19. d \in Nat /\ d <= N
  BY <1>3, <1>7
<1>20. ntok \in Nat
  BY <1>3
<1>8. Told(d)
  BY <1>2, <1>7, ToldLess
<1>9. /\ out' \in Seq(Id) /\ Len(out') = ntok + d /\ Begins(out', Fed(d)) /\ Begins(out, out')
      /\ \A i \in 1 .. ntok + d : out'[i] = Fed(d)[i]
  BY <1>1, <1>2, <1>7, ReadIs
<1>10. Good(w, out')
  BY <1>3, <1>8, <1>9, GoodBegins DEF Told
<1>11. d > 0 => tab.out[d] \in Id
  <2>1. d > 0 => d \in 1 .. N
    BY <1>3, <1>19
  <2> QED BY <1>7, <2>1
<1>12. /\ h' \in HostType /\ h'.pc = "end" /\ h'.status = h.status /\ h'.pos0 = h.pos0 /\ h'.host_end = h.host_end
       /\ h'.token = (IF d > 0 THEN tab.out[d] ELSE h.token)
       /\ h'.steps = (IF d > 0 THEN ntok + d ELSE h.steps)
  <2> DEFINE a == IF d > 0 THEN tab.out[d] ELSE h.token
             b == IF d > 0 THEN ntok + d ELSE h.steps
  <2>1. a \in Id /\ b \in Nat
    BY <1>3, <1>4, <1>11
  <2>2. h' = [h EXCEPT !.pc = "end", !.token = a, !.steps = b]
    BY <1>1, <1>4, <1>6 DEF HostType
  <2> HIDE DEF a, b
  <2>3. /\ h' \in HostType /\ h'.pc = "end" /\ h'.status = h.status /\ h'.pos0 = h.pos0 /\ h'.host_end = h.host_end
        /\ h'.token = a /\ h'.steps = b
    BY <1>4, <2>1, <2>2 DEF HostType, HostPc
  <2> QED BY <2>3 DEF a, b
<1>13. ntok' = ntok /\ Full' = Full
  BY <1>1 DEF ntok, Full
<1>14. ntok <= h'.steps /\ h'.steps <= Full
  BY <1>3, <1>7, <1>12
<1>15. RowsInv'
  BY <1>1, <1>4, <1>12, <1>13 DEF RowsInv
<1>16. ASSUME h.status = "ok"
       PROVE  /\ Len(out') = h'.steps /\ ntok <= Len(out') /\ Len(out') <= Full /\ NoStop'
              /\ Choice(w, out', h'.token) /\ (Len(out') = Full \/ h'.token = w.stop)
  <2>1. d = tab.done /\ d > 0 /\ (d = N \/ tab.out[d] = w.stop)
    BY <1>5, <1>16 DEF AtOff
  <2>2. h'.steps = ntok + d /\ h'.token = tab.out[d]
    BY <1>12, <2>1
  <2>3. Len(out') = h'.steps /\ ntok <= Len(out') /\ Len(out') <= Full /\ (Len(out') = Full \/ h'.token = w.stop)
    BY <1>3, <1>7, <1>9, <2>1, <2>2
  <2>4. ASSUME NEW k \in ntok + 1 .. ntok + d
        PROVE  out'[k] # w.stop
    <3>1. k \in 1 .. ntok + d /\ k \in Nat
      BY <1>3, <1>7
    <3>2. out'[k] = Fed(d)[k]
      BY <1>9, <3>1
    <3>3. CASE k = ntok + 1
      BY <1>2, <1>3, <1>7, <3>2, <3>3, FedIs
    <3>4. CASE k # ntok + 1
      <4>1. k - ntok - 1 \in 1 .. d - 1 /\ k - ntok - 1 \in 1 .. d /\ ntok + 1 + (k - ntok - 1) = k
        BY <1>19, <1>20, <3>1, <3>4
      <4>2. Fed(d)[k] = tab.out[k - ntok - 1]
        BY <1>2, <1>7, <4>1, FedIs
      <4>3. tab.out[k - ntok - 1] # w.stop
        BY <1>2, <2>1, <4>1 DEF Unstopped
      <4> QED BY <3>2, <4>2, <4>3
    <3> QED BY <3>3, <3>4
  <2>5. NoStop'
    BY <1>1, <1>9, <1>13, <2>4 DEF NoStop
  <2>6. Choice(w, out', h'.token)
    <3> DEFINE n == ntok + d
    <3>1. n \in Nat /\ ~(n < ntok) /\ n + 1 \in 1 .. ntok + 1 + d /\ ~(n + 1 <= ntok) /\ n + 1 - 1 = n /\ ntok + 1 + d = n + 1 /\ d \in 1 .. d
      <4>1. d \in Nat /\ d > 0
        BY <1>19, <2>1
      <4> QED BY <1>20, <4>1
    <3>2. Fed(d)[n + 1] = tab.out[d] /\ Len(Fed(d)) = n + 1
      BY <1>2, <1>7, <3>1, FedIs
    <3>3. Right(w, Fed(d), n + 1)
      BY <1>8, <3>1, <3>2 DEF Told, Good
    <3>4. Len(out') = n /\ \A i \in 1 .. n : out'[i] = Fed(d)[i]
      BY <1>9
    <3> HIDE DEF n
    <3>5. Prefix(out', n) = Prefix(Fed(d), n)
      BY <3>1, <3>4, PrefixSame
    <3>6. Goes(Logits(w.model, Prefix(Fed(d), n)), Fed(d)[n + 1])
      BY <1>3, <3>1, <3>3 DEF Right
    <3> QED BY <1>3, <2>2, <3>1, <3>2, <3>4, <3>5, <3>6 DEF Choice
  <2> QED BY <2>3, <2>5, <2>6
<1>17. Ending'
  BY <1>1, <1>3, <1>12, <1>13, <1>16 DEF Ending
<1>18. Prefilling' /\ Decoding' /\ Asking' /\ Complete'
  BY <1>12 DEF Prefilling, Decoding, Asking, Complete, Recording_, Running
<1>21. (w.rvsched => h.host_end = ntok)'
  BY <1>1, <1>12, <1>13 DEF HostInv
<1> QED BY <1>1, <1>3, <1>4, <1>10, <1>12, <1>13, <1>14, <1>15, <1>17, <1>18, <1>21 DEF HostInv

-----------------------------------------------------------------------------
(* Buckets of positions. *)

\* The bucket of a position and the positions of a bucket.
LEMMA DivIs ==
    ASSUME NEW x \in Nat
    PROVE  x \div Pad \in Nat /\ (x \div Pad) * Pad \in Nat
           /\ (x \div Pad) * Pad <= x /\ x < (x \div Pad) * Pad + Pad
<1> DEFINE d == x \div Pad
           r == x % Pad
<1>1. Pad \in Nat \ {0}
  BY Sizes
<1>2. d \in Int /\ r \in 0 .. Pad - 1 /\ x = Pad * d + r
  BY <1>1
<1> HIDE DEF d, r
<1>3. d >= 0
  BY <1>1, <1>2
<1>4. Pad * d = d * Pad /\ d * Pad \in Int
  BY <1>1, <1>2
<1> DEFINE e == d * Pad
<1>5. e \in Int /\ x = e + r
  BY <1>2, <1>4
<1> HIDE DEF e
<1>6. e <= x /\ x < e + Pad
  BY <1>1, <1>2, <1>5
<1>7. e \in Nat
  <2>1. d \in Nat
    BY <1>2, <1>3
  <2> QED BY <1>1, <2>1 DEF e
<1> QED BY <1>2, <1>3, <1>6, <1>7 DEF d, e

\* A bucket has Pad positions...
LEMMA Times ==
    ASSUME NEW b \in Nat
    PROVE  b * Pad \in Nat /\ (b + 1) * Pad = b * Pad + Pad
BY Sizes

\* ...and ends before the next begins.
LEMMA TimesLess ==
    ASSUME NEW b \in Nat, NEW c \in Nat, b < c
    PROVE  b * Pad + Pad <= c * Pad
<1>1. Pad \in Nat \ {0} /\ c - b - 1 \in Nat
  BY Sizes
<1>2. (c - b - 1) * Pad \in Nat
  BY <1>1
<1>3. c * Pad = (b * Pad + Pad) + (c - b - 1) * Pad /\ b * Pad \in Nat
  BY <1>1
<1> DEFINE e == (c - b - 1) * Pad
           f == b * Pad
           g == c * Pad
<1>4. e \in Nat /\ f \in Nat /\ g = (f + Pad) + e
  BY <1>2, <1>3
<1> HIDE DEF e, f, g
<1>5. f + Pad <= g
  BY <1>1, <1>4
<1> QED BY <1>5 DEF f, g

\* A position belongs to the bucket it lies in.
LEMMA DivOf ==
    ASSUME NEW x \in Nat, NEW b \in Nat, b * Pad <= x, x < b * Pad + Pad
    PROVE  x \div Pad = b
<1> DEFINE d == x \div Pad
<1>1. d \in Nat /\ d * Pad \in Nat /\ d * Pad <= x /\ x < d * Pad + Pad /\ b * Pad \in Nat /\ Pad \in Nat \ {0}
  BY DivIs, Times, Sizes
<1> HIDE DEF d
<1>2. ~(d < b)
  <2> SUFFICES ASSUME d < b PROVE FALSE
    OBVIOUS
  <2> DEFINE e == d * Pad
             f == b * Pad
  <2>1. e + Pad <= f
    BY <1>1, TimesLess
  <2>2. e \in Nat /\ f \in Nat /\ f <= x /\ x < e + Pad
    BY <1>1
  <2> HIDE DEF e, f
  <2> QED BY <1>1, <2>1, <2>2
<1>3. ~(b < d)
  <2> SUFFICES ASSUME b < d PROVE FALSE
    OBVIOUS
  <2> DEFINE e == d * Pad
             f == b * Pad
  <2>1. f + Pad <= e
    BY <1>1, TimesLess
  <2>2. e \in Nat /\ f \in Nat /\ e <= x /\ x < f + Pad
    BY <1>1
  <2> HIDE DEF e, f
  <2> QED BY <1>1, <2>1, <2>2
<1>4. d = b
  BY <1>1, <1>2, <1>3
<1> QED BY <1>4 DEF d

\* Later positions are in later buckets.
LEMMA DivMore ==
    ASSUME NEW x \in Nat, NEW y \in Nat, x <= y
    PROVE  x \div Pad <= y \div Pad
<1> DEFINE d == x \div Pad
           c == y \div Pad
<1>1. d \in Nat /\ d * Pad \in Nat /\ d * Pad <= x /\ c \in Nat /\ c * Pad \in Nat /\ y < c * Pad + Pad /\ Pad \in Nat
  BY DivIs, Sizes
<1> HIDE DEF d, c
<1>2. ~(c < d)
  <2> SUFFICES ASSUME c < d PROVE FALSE
    OBVIOUS
  <2> DEFINE e == d * Pad
             f == c * Pad
  <2>1. f + Pad <= e
    BY <1>1, TimesLess
  <2>2. e \in Nat /\ f \in Nat /\ e <= x /\ y < f + Pad
    BY <1>1
  <2> HIDE DEF e, f
  <2> QED BY <1>1, <2>1, <2>2
<1>3. d <= c
  BY <1>1, <1>2
<1> QED BY <1>3 DEF d, c

\* The buckets the run needs are buckets of the cache, and every position it
\* decodes lies in one of them.
LEMMA BucketsAre ==
    ASSUME w \in World, ntok < Full
    PROVE  /\ FirstBucket \in Nat /\ (Full - 1) \div Pad \in Nat /\ FirstBucket <= (Full - 1) \div Pad
           /\ FirstBucket \in Buckets
           /\ \A b \in Buckets : b \in Nat /\ b \in 0 .. MaxLen \div Pad - 1
           /\ \A x \in ntok .. Full - 1 : x \in Nat /\ x \div Pad \in Buckets
<1>1. ntok \in Nat /\ Full \in Nat /\ Full <= MaxLen /\ MaxLen \in Nat /\ Pad \in Nat \ {0}
  BY WorldIs, Sizes
<1>2. Full - 1 \in Nat /\ ntok <= Full - 1
  BY <1>1
<1>3. FirstBucket \in Nat /\ (Full - 1) \div Pad \in Nat /\ FirstBucket <= (Full - 1) \div Pad
  BY <1>1, <1>2, DivIs, DivMore DEF FirstBucket
<1>4. (Full - 1) \div Pad < MaxLen \div Pad /\ MaxLen \div Pad \in Nat
  <2> DEFINE d == (Full - 1) \div Pad
             e == MaxLen \div Pad
             f == d * Pad
             g == e * Pad
  <2>1. f \in Nat /\ f <= Full - 1 /\ d \in Nat
    BY <1>2, DivIs
  <2>2. e \in Nat /\ g \in Nat /\ MaxLen = g
    <3>1. MaxLen % Pad = 0
      BY CoreAssumption
    <3>2. MaxLen = (Pad * e) + (MaxLen % Pad) /\ e \in Nat
      BY <1>1, DivIs
    <3>3. Pad * e = g /\ g \in Nat
      BY <1>1, <3>2
    <3> HIDE DEF e, g
    <3> QED BY <3>1, <3>2, <3>3
  <2> HIDE DEF d, e
  <2>3. d < e
    <3> SUFFICES ASSUME ~(d < e) PROVE FALSE
      OBVIOUS
    <3>1. e = d \/ e < d
      BY <2>1, <2>2
    <3>2. e < d => g + Pad <= f
      BY <2>1, <2>2, TimesLess
    <3>3. e = d => f = g
      OBVIOUS
    <3> HIDE DEF f, g
    <3> QED BY <1>1, <2>1, <2>2, <3>1, <3>2, <3>3
  <2> QED BY <2>2, <2>3 DEF d, e
<1>5. ASSUME NEW x \in ntok .. Full - 1
      PROVE  x \in Nat /\ x \div Pad \in Buckets
  <2>1. x \in Nat /\ ntok <= x /\ x <= Full - 1
    BY <1>1
  <2>2. x \div Pad \in Nat /\ FirstBucket <= x \div Pad /\ x \div Pad <= (Full - 1) \div Pad
    BY <1>1, <1>2, <2>1, DivIs, DivMore DEF FirstBucket
  <2> DEFINE d == x \div Pad
             e == (Full - 1) \div Pad
  <2>3. d \in Nat /\ FirstBucket <= d /\ d <= e /\ e \in Nat /\ FirstBucket \in Nat
    BY <1>3, <2>2
  <2> HIDE DEF d, e
  <2>4. d \in FirstBucket .. e
    BY <2>3
  <2> QED BY <2>1, <2>4 DEF d, e, Buckets
<1>6. \A b \in Buckets : b \in Nat /\ b \in 0 .. MaxLen \div Pad - 1
  <2> DEFINE d == MaxLen \div Pad
             e == (Full - 1) \div Pad
  <2>1. d \in Nat /\ e \in Nat /\ e < d /\ FirstBucket \in Nat
    BY <1>3, <1>4
  <2> HIDE DEF d, e
  <2>2. \A b \in FirstBucket .. e : b \in Nat /\ b \in 0 .. d - 1
    BY <2>1
  <2> QED BY <2>2 DEF d, e, Buckets
<1>7. FirstBucket \in Buckets
  BY <1>3 DEF Buckets
<1> QED BY <1>3, <1>5, <1>6, <1>7

\* A bucket is recorded at a position of its own.
LEMMA PosIs ==
    ASSUME w \in World, ntok < Full, NEW b \in Buckets
    PROVE  PosOf(b) \in ntok .. Full - 1 /\ PosOf(b) \in Nat /\ PosOf(b) \div Pad = b
<1>1. ntok \in Nat /\ Full \in Nat /\ Full - 1 \in Nat /\ Pad \in Nat \ {0}
  BY WorldIs, Sizes
<1>2. b \in Nat /\ FirstBucket \in Nat /\ FirstBucket <= b /\ b <= (Full - 1) \div Pad /\ (Full - 1) \div Pad \in Nat
  <2> DEFINE e == (Full - 1) \div Pad
  <2>1. b \in Nat /\ e \in Nat /\ FirstBucket \in Nat /\ b \in FirstBucket .. e
    BY BucketsAre DEF Buckets
  <2> HIDE DEF e
  <2>2. b \in Nat /\ FirstBucket \in Nat /\ FirstBucket <= b /\ b <= e /\ e \in Nat
    BY <2>1
  <2> QED BY <2>2 DEF e
<1>3. CASE b = FirstBucket
  BY <1>1, <1>3 DEF PosOf, FirstBucket
<1>4. CASE b # FirstBucket
  <2>1. FirstBucket < b /\ PosOf(b) = b * Pad
    BY <1>2, <1>4 DEF PosOf
  <2> DEFINE p == b * Pad
             q == FirstBucket * Pad
             e == (Full - 1) \div Pad
             r == e * Pad
  <2>2. p \in Nat /\ q \in Nat /\ q + Pad <= p /\ ntok < q + Pad
    BY <1>1, <1>2, <2>1, TimesLess, Times, DivIs DEF FirstBucket
  <2>3. r \in Nat /\ r <= Full - 1
    BY <1>1, DivIs
  <2>4. p <= r
    <3>1. b = e \/ b < e
      <4>1. b <= e /\ e \in Nat
        BY <1>2
      <4> HIDE DEF e
      <4> QED BY <1>2, <4>1
    <3>2. b < e => p + Pad <= r
      BY <1>2, TimesLess
    <3>3. b = e => p = r
      OBVIOUS
    <3> HIDE DEF p, r, e
    <3> QED BY <1>1, <2>2, <2>3, <3>1, <3>2, <3>3
  <2>5. p \div Pad = b
    <3>1. b * Pad <= p /\ p < b * Pad + Pad
      <4> HIDE DEF p
      <4>1. p <= p /\ p < p + Pad
        BY <1>1, <2>2
      <4> QED BY <4>1 DEF p
    <3> QED BY <1>2, <2>2, <3>1, DivOf
  <2> HIDE DEF p, q, r
  <2>6. p \in ntok .. Full - 1
    BY <1>1, <2>2, <2>3, <2>4
  <2> QED BY <2>1, <2>2, <2>5, <2>6 DEF p
<1> QED BY <1>3, <1>4

\* The host's variables while the table is made.
LEMMA RecordingIs ==
    ASSUME HostInv, TableInv, CoreInv, Recording_
    PROVE  /\ w \in World /\ ntok \in Nat /\ Full \in Nat /\ ntok < Full /\ start = ntok /\ h.steps = Full
           /\ w.dyn /\ w.rvsched /\ h \in HostType /\ h.pass \in 1 .. 3 /\ h.status = "ok"
           /\ sched.b0 = FirstBucket /\ sched.nb = (Full - 1) \div Pad - FirstBucket + 1 /\ sched.max = N
           /\ Bucket(sched) = Buckets /\ LastBucket = (Full - 1) \div Pad /\ sched.pass = h.pass
           /\ core = CoreOff /\ mem \in [Frame -> FrameType] /\ kv = [i \in Position |-> kv[i]]
           /\ out \in Seq(Id) /\ Len(out) = ntok /\ h.token \in Id /\ Choice(w, out, h.token) /\ h.token # w.stop
           /\ IsWorld(w)
<1>1. w \in World /\ w.rvsched /\ ntok < Full /\ h.steps = Full /\ Len(out) = ntok /\ Choice(w, out, h.token) /\ h.token # w.stop
  BY DEF HostInv, Asking
<1>2. ntok \in Nat /\ Full \in Nat /\ IsWorld(w)
  BY <1>1, WorldIs, WorldAssumption
<1>3. w.dyn
  BY <1>1, <1>2 DEF IsWorld
<1>4. start = ntok
  BY <1>1, StartIs
<1>5. h \in HostType /\ out \in Seq(Id) /\ h.token \in Id
  BY DEF HostInv, HostType, Good
<1>6. h.pass \in 1 .. 3
  BY DEF TableInv, Recording_
<1>7. IsSched /\ sched.pass = h.pass /\ h.status = "ok"
  BY DEF TableInv
<1>8. sched.b0 = FirstBucket /\ sched.nb = (Full - 1) \div Pad - FirstBucket + 1 /\ sched.max = N
  BY <1>7 DEF IsSched, N
<1>9. sched.b0 + sched.nb - 1 = (Full - 1) \div Pad
  <2> DEFINE e == (Full - 1) \div Pad
  <2>1. e \in Nat /\ FirstBucket \in Nat /\ sched.b0 = FirstBucket /\ sched.nb = e - FirstBucket + 1
    BY <1>1, <1>8, BucketsAre
  <2> HIDE DEF e
  <2>2. sched.b0 + sched.nb - 1 = e
    BY <2>1
  <2> QED BY <2>2 DEF e
<1>10. core = CoreOff /\ mem \in [Frame -> FrameType] /\ kv = [i \in Position |-> kv[i]]
  BY DEF CoreInv, Recording_, Running
<1> QED BY <1>1, <1>2, <1>3, <1>4, <1>5, <1>6, <1>7, <1>8, <1>9, <1>10 DEF Bucket, Buckets, LastBucket

\* What the host records for a bucket, and what becomes of it in each pass.
LEMMA RecordOfIs ==
    ASSUME HostInv, TableInv, CoreInv, Recording_, NEW b \in Buckets, NEW pos \in Nat, pos \div Pad = b
    PROVE  /\ Length(pos) = (b + 1) * Pad /\ RecordOf(b, pos) = RecAt(h.pass, b, pos)
           /\ RecordStatus(sched, b, RecordOf(b, pos)) =
                (IF h.pass = 3 /\ sched.rec[b] # RecordOf(b, pos) THEN "FAILED_PRECONDITION" ELSE "ok")
           /\ Recorded(sched, b, RecordOf(b, pos)) =
                (IF h.pass # 3 THEN [sched EXCEPT !.rec[b] = RecordOf(b, pos)] ELSE sched)
<1>1. w.dyn /\ Bucket(sched) = Buckets /\ sched.pass = h.pass
  BY RecordingIs
<1>2. Length(pos) = (b + 1) * Pad
  BY <1>1 DEF Length
<1>3. RecordOf(b, pos) = RecAt(h.pass, b, pos)
  BY <1>2 DEF RecordOf, RecAt, Kinds
<1> QED BY <1>1, <1>2, <1>3 DEF RecordStatus, Recorded

\* A recording writes the inputs of its frame.
LEMMA RecordWrites ==
    ASSUME HostInv, TableInv, CoreInv, Recording_, NEW b \in Buckets, NEW pos \in Nat, rvs_record(b, pos)
    PROVE  valid' \in [Position -> {0, 1}] /\ mem' \in [Frame -> FrameType]
<1> DEFINE f == w.frames[h.pass][b]
           len == Length(pos)
           mask == Masked(valid, len, pos)
           old == mem[f].valid
           newer == Masked(old, len, pos)
<1>1. /\ w \in World /\ ntok < Full /\ h.pass \in 1 .. 3 /\ mem \in [Frame -> FrameType] /\ IsWorld(w)
      /\ valid \in [Position -> {0, 1}]
  BY RecordingIs DEF HostInv
<1>2. f \in Frame
  <2>1. w.frames \in [1 .. 3 -> [0 .. MaxLen \div Pad - 1 -> Frame]] /\ b \in 0 .. MaxLen \div Pad - 1
    BY <1>1, BucketsAre DEF IsWorld
  <2>2. w.frames[h.pass] \in [0 .. MaxLen \div Pad - 1 -> Frame]
    BY <1>1, <2>1
  <2> DEFINE n == MaxLen \div Pad - 1
             g == w.frames[h.pass]
  <2>3. g \in [0 .. n -> Frame] /\ b \in 0 .. n
    BY <2>1, <2>2
  <2> HIDE DEF n, g
  <2>4. g[b] \in Frame
    BY <2>3
  <2> QED BY <2>4 DEF g
<1>3. \A v \in [Position -> {0, 1}] : Masked(v, len, pos) \in [Position -> {0, 1}]
  BY DEF Masked, Upto
<1>4. mask \in [Position -> {0, 1}] /\ newer \in [Position -> {0, 1}]
  <2>1. old \in [Position -> {0, 1}]
    BY <1>1, <1>2 DEF FrameType
  <2> QED BY <1>1, <1>3, <2>1
<1>5. valid' = mask /\ mem' = [mem EXCEPT ![f] = [mem[f] EXCEPT !.token = 0, !.pos = pos, !.valid = newer]]
  <2>1. valid' = mask /\ mem' = [mem EXCEPT ![f].token = 0, ![f].pos = pos, ![f].valid = Masked(@, len, pos)]
    BY DEF rvs_record
  <2> QED BY <1>1, <1>2, <2>1 DEF FrameType
<1>6. 0 \in Id
  BY VocabAssumption DEF Id
<1> HIDE DEF f, mask, newer
<1>7. [mem[f] EXCEPT !.token = 0, !.pos = pos, !.valid = newer] \in FrameType
  BY <1>1, <1>2, <1>4, <1>6 DEF FrameType
<1> QED BY <1>1, <1>2, <1>4, <1>5, <1>7

\* Nothing more is said of the table and the core once the host has given up.
LEMMA NothingMore ==
    ASSUME h'.pc \in {"end", "exit"}
    PROVE  TableInv' /\ CoreInv'
BY DEF TableInv, CoreInv, Recording_, Running

\* What depends on the request alone stays.
LEMMA WorldSame ==
    ASSUME w' = w
    PROVE  /\ ntok' = ntok /\ Full' = Full /\ N' = N /\ FirstBucket' = FirstBucket /\ Buckets' = Buckets
           /\ \A b : PosOf(b)' = PosOf(b) /\ Kinds(b)' = Kinds(b) /\ ItemsOf(b)' = ItemsOf(b)
           /\ \A p, b, x : RecAt(p, b, x)' = RecAt(p, b, x)
           /\ (FirstSame' <=> FirstSame) /\ (PosFixed' <=> PosFixed)
<1>1. ntok' = ntok
  BY DEF ntok
<1>2. Full' = Full
  BY <1>1 DEF Full
<1>3. FirstBucket' = FirstBucket /\ N' = N
  BY <1>1, <1>2 DEF FirstBucket, N
<1>4. Buckets' = Buckets
  BY <1>2, <1>3 DEF Buckets
<1>5. \A b : PosOf(b)' = PosOf(b) /\ Kinds(b)' = Kinds(b)
  BY <1>1, <1>3 DEF PosOf, Kinds
<1>6. \A p, b, x : RecAt(p, b, x)' = RecAt(p, b, x)
  BY <1>5 DEF RecAt
<1>7. \A b : ItemsOf(b)' = ItemsOf(b)
  BY <1>5, <1>6 DEF ItemsOf
<1>8. (FirstSame' <=> FirstSame) /\ (PosFixed' <=> PosFixed)
  BY <1>1, <1>2, <1>3 DEF FirstSame, PosFixed
<1> QED BY <1>1, <1>2, <1>3, <1>4, <1>5, <1>6, <1>7, <1>8

\* A recording is kept or refused with a status.
LEMMA StatusOfRecord ==
    ASSUME NEW b, NEW pos
    PROVE  RecordError(b, pos) \in HostStatus
BY DEF RecordError, RecordStatus, HostStatus

\* A recording that is refused ends the run.
LEMMA GivesUp ==
    ASSUME LlmInv, Recording_, NEW s \in HostStatus \ {"ok"}, h' = [h EXCEPT !.status = s, !.pc = "end"],
           w' = w, out' = out, rows' = rows, valid' \in [Position -> {0, 1}]
    PROVE  LlmInv'
<1>1. h \in HostType
  BY DEF LlmInv, HostInv
<1>2. h' \in HostType /\ h'.pc = "end" /\ h'.status # "ok" /\ h'.token = h.token /\ h'.steps = h.steps /\ h'.pos0 = h.pos0 /\ h'.host_end = h.host_end
  BY <1>1 DEF HostType, HostPc
<1>3. HostInv'
  BY <1>2, HostAsks DEF LlmInv
<1>4. TableInv' /\ CoreInv'
  BY <1>2, NothingMore
<1> QED BY <1>3, <1>4 DEF LlmInv

\* A recording of the first two passes is kept.
LEMMA RecordInv ==
    ASSUME LlmInv, Record
    PROVE  LlmInv'
<1> DEFINE b == h.bucket
           pos == IF h.bucket = sched.b0 THEN start ELSE h.bucket * Pad
           err == RecordError(b, pos)
<1>1. /\ h.pc = "record" /\ Recording_ /\ rvs_record(b, pos)
      /\ IF err # "ok" THEN h' = [h EXCEPT !.status = err, !.pc = "end"]
         ELSE h' = [h EXCEPT !.bucket = @ + 1, !.pc = IF h.bucket = LastBucket THEN "pass" ELSE @]
      /\ w' = w /\ out' = out /\ rows' = rows /\ tab' = tab /\ kv' = kv /\ core' = core
  BY DEF Record, Recording_, Failed
<1>2. HostInv /\ TableInv /\ CoreInv
  BY DEF LlmInv
<1>3. /\ w \in World /\ ntok < Full /\ start = ntok /\ h \in HostType /\ h.status = "ok"
      /\ sched.b0 = FirstBucket /\ LastBucket = (Full - 1) \div Pad /\ sched.pass = h.pass
      /\ core = CoreOff /\ kv = [i \in Position |-> kv[i]] /\ mem \in [Frame -> FrameType]
  BY <1>1, <1>2, RecordingIs
<1>4. /\ b \in Buckets /\ h.pass \in {1, 2} /\ IsSched /\ Cached(kv, out, ntok)
      /\ \A a \in FirstBucket .. b - 1 : sched.rec[a] = RecAt(h.pass, a, PosOf(a))
  BY <1>1, <1>2 DEF TableInv
<1>5. pos = PosOf(b) /\ pos \in Nat /\ pos \div Pad = b
  BY <1>3, <1>4, PosIs DEF PosOf
<1> HIDE DEF pos, b
<1>6. /\ RecordOf(b, pos) = RecAt(h.pass, b, pos)
      /\ Recorded(sched, b, RecordOf(b, pos)) = [sched EXCEPT !.rec[b] = RecordOf(b, pos)]
  BY <1>1, <1>2, <1>4, <1>5, RecordOfIs
<1>7. valid' \in [Position -> {0, 1}] /\ mem' \in [Frame -> FrameType]
  BY <1>1, <1>2, <1>4, <1>5, RecordWrites
<1>8. sched' = [sched EXCEPT !.rec[b] = RecAt(h.pass, b, PosOf(b))]
  BY <1>1, <1>5, <1>6 DEF rvs_record
<1>9. CASE err # "ok"
  <2>1. err \in HostStatus \ {"ok"}
    BY <1>9, StatusOfRecord
  <2> HIDE DEF err
  <2> QED BY <1>1, <1>7, <1>9, <2>1, GivesUp
<1>10. CASE err = "ok"
  <2> DEFINE e == (Full - 1) \div Pad
  <2>1. b \in Nat /\ b \in FirstBucket .. e /\ FirstBucket \in Nat /\ e \in Nat /\ b = h.bucket
    BY <1>3, <1>4, BucketsAre DEF b, Buckets
  <2>2. h' = [h EXCEPT !.bucket = b + 1, !.pc = IF b = e THEN "pass" ELSE "record"]
    BY <1>1, <1>3, <1>10 DEF b, HostType
  <2> HIDE DEF e
  <2>3. /\ h' \in HostType /\ h'.pc = (IF b = e THEN "pass" ELSE "record") /\ h'.bucket = b + 1
        /\ h'.token = h.token /\ h'.steps = h.steps /\ h'.pos0 = h.pos0 /\ h'.host_end = h.host_end
        /\ h'.pass = h.pass /\ h'.status = "ok"
    <3> DEFINE c == b + 1
               q == IF b = e THEN "pass" ELSE "record"
    <3>1. h' = [h EXCEPT !.bucket = c, !.pc = q] /\ c \in Nat /\ q \in HostPc
      BY <2>1, <2>2 DEF HostPc
    <3> HIDE DEF c, q
    <3>2. /\ h' \in HostType /\ h'.pc = q /\ h'.bucket = c
          /\ h'.token = h.token /\ h'.steps = h.steps /\ h'.pos0 = h.pos0 /\ h'.host_end = h.host_end
        /\ h'.pass = h.pass /\ h'.status = "ok"
      BY <1>3, <3>1 DEF HostType
    <3> QED BY <3>2 DEF c, q
  <2>4. HostInv'
    BY <1>1, <1>2, <1>7, <2>3, HostAsks DEF Recording_
  <2>5. /\ sched'.b0 = sched.b0 /\ sched'.nb = sched.nb /\ sched'.max = sched.max /\ sched'.pass = sched.pass
        /\ sched'.cap = sched.cap /\ sched'.shape = sched.shape
        /\ sched'.rec = [sched.rec EXCEPT ![b] = RecAt(h.pass, b, PosOf(b))]
        /\ sched' = [b0 |-> FirstBucket, nb |-> (Full - 1) \div Pad - FirstBucket + 1, max |-> Full - ntok,
                     pass |-> sched'.pass, cap |-> sched'.cap, shape |-> sched'.shape, rec |-> sched'.rec]
    BY <1>4, <1>8 DEF IsSched
  <2>6. DOMAIN sched.rec = Buckets /\ sched'.rec = [a \in Buckets |-> sched'.rec[a]]
    BY <1>4, <2>5 DEF IsSched
  <2>7. IsSched'
    BY <1>1, <2>5, <2>6, WorldSame DEF IsSched
  <2>8. \A a \in Buckets : sched'.rec[a] = IF a = b THEN RecAt(h.pass, b, PosOf(b)) ELSE sched.rec[a]
    BY <2>5, <2>6
  <2>9. ASSUME NEW a \in FirstBucket .. b
        PROVE  sched'.rec[a] = RecAt(h.pass, a, PosOf(a))
    <3>1. a \in Buckets /\ (a = b \/ a \in FirstBucket .. b - 1)
      <4>1. a \in FirstBucket .. e /\ (a = b \/ a \in FirstBucket .. b - 1)
        BY <2>1
      <4> QED BY <4>1 DEF Buckets, e
    <3> QED BY <1>4, <2>8, <3>1
  <2>10. Cached(kv, out, ntok)' /\ (Recording_)' /\ h'.pass # 3
    BY <1>1, <1>4, <2>3, WorldSame DEF Cached, Recording_
  <2>11. TableInv'
    <3>1. CASE b = e
      <4>1. h'.pc = "pass" /\ h'.pass \in {1, 2} /\ Buckets = FirstBucket .. b
        BY <1>4, <2>3, <3>1 DEF Buckets, e
      <4>2. \A a \in Buckets : sched'.rec[a] = RecAt(h'.pass, a, PosOf(a))
        BY <2>3, <2>9, <4>1
      <4>3. (\A a \in Buckets : sched.rec[a] = RecAt(h.pass, a, PosOf(a)))'
        BY <1>1, <4>2, WorldSame
      <4> QED BY <1>3, <2>3, <2>5, <2>7, <2>10, <4>1, <4>3 DEF TableInv
    <3>2. CASE b # e
      <4>1. h'.pc = "record" /\ h'.pass \in {1, 2} /\ h'.bucket \in Buckets /\ h'.bucket - 1 = b
        <5>1. b + 1 \in FirstBucket .. e /\ h'.bucket - 1 = b
          BY <2>1, <2>3, <3>2
        <5> QED BY <1>4, <2>3, <3>2, <5>1 DEF Buckets, e
      <4>2. \A a \in FirstBucket .. h'.bucket - 1 : sched'.rec[a] = RecAt(h'.pass, a, PosOf(a))
        BY <2>3, <2>9, <4>1
      <4>3. (h.bucket \in Buckets /\ \A a \in FirstBucket .. h.bucket - 1 : sched.rec[a] = RecAt(h.pass, a, PosOf(a)))'
        BY <1>1, <4>1, <4>2, WorldSame
      <4> QED BY <1>3, <2>3, <2>5, <2>7, <2>10, <4>1, <4>3 DEF TableInv
    <3> QED BY <3>1, <3>2
  <2>12. CoreInv'
    BY <1>1, <1>3, <1>7, <2>3 DEF CoreInv, Running
  <2> QED BY <2>4, <2>11, <2>12 DEF LlmInv
<1> QED BY <1>9, <1>10

\* The words that differ and the table depend on the recordings alone.
LEMMA TablePass ==
    ASSUME NEW s, NEW t, t.rec = s.rec, t.b0 = s.b0, t.nb = s.nb, t.max = s.max, NEW r
    PROVE  Diff(t) = Diff(s) /\ Table(t, r) = Table(s, r) /\ (Alike(t) <=> Alike(s))
<1>1. Bucket(t) = Bucket(s)
  BY DEF Bucket
<1>2. Diff(t) = Diff(s)
  BY <1>1 DEF Diff
<1> QED BY <1>1, <1>2 DEF Table, Alike

\* The end of a pass: the table is made of the second pass's recordings.
LEMMA EndPassInv ==
    ASSUME LlmInv, EndPass
    PROVE  LlmInv'
<1> DEFINE err == EndStatus(sched)
           again == h.pass = 1
<1>1. /\ h.pc = "pass" /\ Recording_
      /\ IF err # "ok" THEN h' = [h EXCEPT !.status = err, !.pc = "end"]
         ELSE /\ sched' = Ended(sched)
              /\ h' = [h EXCEPT !.pass = @ + 1, !.bucket = sched.b0, !.pc = IF h.pass = 1 THEN "record" ELSE "first"]
              /\ tab' = IF h.pass = 1 THEN tab ELSE Table(sched, w.r5)
      /\ w' = w /\ valid' = valid /\ out' = out /\ rows' = rows /\ mem' = mem /\ kv' = kv /\ core' = core
  BY DEF EndPass, Recording_, Failed
<1>2. HostInv /\ TableInv /\ CoreInv
  BY DEF LlmInv
<1>3. /\ w \in World /\ ntok < Full /\ h \in HostType /\ h.status = "ok"
      /\ sched.b0 = FirstBucket /\ Bucket(sched) = Buckets /\ sched.pass = h.pass
      /\ core = CoreOff /\ kv = [i \in Position |-> kv[i]] /\ mem \in [Frame -> FrameType]
  BY <1>1, <1>2, RecordingIs
<1>4. /\ h.pass \in {1, 2} /\ IsSched /\ Cached(kv, out, ntok)
      /\ \A a \in Buckets : sched.rec[a] = RecAt(h.pass, a, PosOf(a))
  BY <1>1, <1>2 DEF TableInv
<1>5. valid' \in [Position -> {0, 1}] /\ err \in HostStatus
  BY <1>1, <1>2 DEF HostInv, EndStatus, HostStatus
<1>6. CASE err # "ok"
  <2> HIDE DEF err
  <2> QED BY <1>1, <1>5, <1>6, GivesUp
<1>7. CASE err = "ok"
  <2>1. Alike(sched)
    BY <1>7 DEF EndStatus
  <2>2. FirstBucket \in Nat /\ FirstBucket \in Buckets
    BY <1>3, BucketsAre
  <2>3. /\ h' \in HostType /\ h'.pc = (IF again THEN "record" ELSE "first") /\ h'.bucket = FirstBucket
        /\ h'.token = h.token /\ h'.steps = h.steps /\ h'.pos0 = h.pos0 /\ h'.host_end = h.host_end
        /\ h'.pass = (IF again THEN 2 ELSE 3) /\ h'.status = "ok"
    <3> DEFINE c == h.pass + 1
               q == IF again THEN "record" ELSE "first"
               b == sched.b0
    <3>1. h' = [h EXCEPT !.pass = c, !.bucket = b, !.pc = q]
      BY <1>1, <1>3, <1>7 DEF HostType
    <3>2. c \in Nat /\ q \in HostPc /\ b \in Nat /\ b = FirstBucket /\ c = IF again THEN 2 ELSE 3
      BY <1>3, <1>4, <2>2 DEF HostPc
    <3> HIDE DEF c, q, b
    <3>3. /\ h' \in HostType /\ h'.pc = q /\ h'.bucket = b
          /\ h'.token = h.token /\ h'.steps = h.steps /\ h'.pos0 = h.pos0 /\ h'.host_end = h.host_end /\ h'.pass = c /\ h'.status = "ok"
      BY <1>3, <3>1, <3>2 DEF HostType
    <3> QED BY <3>2, <3>3 DEF q
  <2>4. HostInv'
    BY <1>1, <1>2, <1>5, <2>3, HostAsks DEF Recording_
  <2>5. CoreInv'
    BY <1>1, <1>3, <2>3 DEF CoreInv, Running
  <2>6. Cached(kv, out, ntok)' /\ (Recording_)'
    BY <1>1, <1>4, <2>3, WorldSame DEF Cached, Recording_
  <2>7. CASE again
    <3>1. /\ sched' = [sched EXCEPT !.pass = 2, !.shape = Shape(sched.rec[sched.b0]),
                          !.cap = Len(Diff(sched)) + Len(Diff(sched)) \div 4 + Slack,
                          !.rec = [a \in Buckets |-> NoRecording]]
      BY <1>1, <1>3, <1>7, <2>7 DEF Ended
    <3>2. /\ sched'.pass = 2 /\ DOMAIN sched'.rec = Buckets
          /\ sched'.rec = [a \in Buckets |-> sched'.rec[a]]
          /\ sched' = [b0 |-> FirstBucket, nb |-> (Full - 1) \div Pad - FirstBucket + 1, max |-> Full - ntok,
                       pass |-> sched'.pass, cap |-> sched'.cap, shape |-> sched'.shape, rec |-> sched'.rec]
      <4> DEFINE x == Shape(sched.rec[sched.b0])
                 c == Len(Diff(sched)) + Len(Diff(sched)) \div 4 + Slack
                 f == [a \in Buckets |-> NoRecording]
      <4>1. sched' = [sched EXCEPT !.pass = 2, !.shape = x, !.cap = c, !.rec = f]
        BY <3>1
      <4>2. DOMAIN f = Buckets /\ f = [a \in Buckets |-> f[a]]
        OBVIOUS
      <4> DEFINE y == (Full - 1) \div Pad - FirstBucket + 1
                 z == Full - ntok
      <4>6. sched = [b0 |-> FirstBucket, nb |-> y, max |-> z,
                     pass |-> sched.pass, cap |-> sched.cap, shape |-> sched.shape, rec |-> sched.rec]
        BY <1>4 DEF IsSched
      <4> HIDE DEF x, c, f, y, z
      <4>3. PICK p, q, u, r : sched = [b0 |-> FirstBucket, nb |-> y, max |-> z,
                     pass |-> p, cap |-> q, shape |-> u, rec |-> r]
        BY <4>6, Zenon
      <4>4. sched' = [b0 |-> FirstBucket, nb |-> y, max |-> z, pass |-> 2, cap |-> c, shape |-> x, rec |-> f]
        BY <4>1, <4>3
      <4>5. /\ sched'.pass = 2 /\ sched'.rec = f
            /\ sched' = [b0 |-> FirstBucket, nb |-> y, max |-> z, pass |-> sched'.pass,
                         cap |-> sched'.cap, shape |-> sched'.shape, rec |-> sched'.rec]
        BY <4>4
      <4> QED BY <4>2, <4>5 DEF y, z
    <3>3. IsSched'
      BY <1>1, <3>2, WorldSame DEF IsSched
    <3>4. h'.pc = "record" /\ h'.bucket \in Buckets /\ h'.pass = 2 /\ ~(h'.bucket - 1 >= FirstBucket)
      BY <2>2, <2>3, <2>7
    <3>5. (h.bucket \in Buckets /\ \A a \in FirstBucket .. h.bucket - 1 : sched.rec[a] = RecAt(h.pass, a, PosOf(a)))'
      <4>1. FirstBucket' = FirstBucket /\ Buckets' = Buckets
        BY <1>1, WorldSame
      <4>2. FirstBucket .. h'.bucket - 1 = {}
        BY <2>2, <2>3
      <4> QED BY <3>4, <4>1, <4>2
    <3> QED BY <2>3, <2>4, <2>5, <2>6, <3>2, <3>3, <3>4, <3>5 DEF TableInv, LlmInv
  <2>8. CASE ~again
    <3>1. sched' = [sched EXCEPT !.pass = 3] /\ tab' = Table(sched, w.r5)
      BY <1>1, <1>3, <1>7, <2>8 DEF Ended
    <3>2. /\ sched'.pass = 3 /\ sched'.rec = sched.rec /\ sched'.b0 = sched.b0 /\ sched'.nb = sched.nb
          /\ sched'.max = sched.max
          /\ sched' = [b0 |-> FirstBucket, nb |-> (Full - 1) \div Pad - FirstBucket + 1, max |-> Full - ntok,
                       pass |-> sched'.pass, cap |-> sched'.cap, shape |-> sched'.shape, rec |-> sched'.rec]
          /\ sched'.rec = [a \in Buckets |-> sched'.rec[a]]
      BY <1>4, <3>1 DEF IsSched
    <3>3. IsSched'
      BY <1>1, <3>2, WorldSame DEF IsSched
    <3>4. tab' = Table(sched', w.r5) /\ Alike(sched')
      <4> HIDE DEF err
      <4>1. Table(sched', w.r5) = Table(sched, w.r5) /\ (Alike(sched') <=> Alike(sched))
        BY <3>2, TablePass
      <4> QED BY <2>1, <3>1, <4>1
    <3>5. (tab = Table(sched, w.r5) /\ Alike(sched))'
      BY <1>1, <3>4 DEF Table, Alike, Diff, Bucket, Shape, Words
    <3>6. (\A a \in Buckets : sched.rec[a] = RecAt(2, a, PosOf(a)))'
      <4>1. h.pass = 2
        BY <1>4, <2>8
      <4> QED BY <1>1, <1>4, <3>2, <4>1, WorldSame
    <3> QED BY <2>3, <2>4, <2>5, <2>6, <2>8, <3>2, <3>3, <3>5, <3>6 DEF TableInv, LlmInv
  <2> QED BY <2>7, <2>8
<1> QED BY <1>6, <1>7

\* A bucket recorded again, at another position, and compared.
Shown(next) == (next = "last" => FirstSame) /\ (next = "run" => PosFixed)

\* A third recording that is accepted shows that the lists of its bucket do
\* not depend on the position.
LEMMA CheckInv ==
    ASSUME LlmInv, NEW pc \in {"first", "last"}, NEW next \in {"last", "run"}, NEW b \in Buckets, NEW pos \in Nat,
           NEW wanted \in BOOLEAN, wanted => pos \div Pad = b, Check(pc, next, b, pos, wanted),
           ~wanted => Shown(next), wanted /\ sched.rec[b] = RecAt(3, b, pos) => Shown(next)
    PROVE  LlmInv'
<1> DEFINE err == RecordError(b, pos)
<1>1. /\ h.pc = pc /\ h.pc \in {"first", "last"} /\ Recording_
      /\ IF wanted
         THEN /\ rvs_record(b, pos)
              /\ IF err # "ok" THEN h' = [h EXCEPT !.status = err, !.pc = "end"] ELSE h' = [h EXCEPT !.pc = next]
         ELSE h' = [h EXCEPT !.pc = next] /\ valid' = valid /\ mem' = mem /\ sched' = sched
      /\ w' = w /\ out' = out /\ rows' = rows /\ tab' = tab /\ kv' = kv /\ core' = core
  BY DEF Check, Recording_, Failed
<1>2. HostInv /\ TableInv /\ CoreInv
  BY DEF LlmInv
<1>3. /\ w \in World /\ ntok < Full /\ h \in HostType /\ h.status = "ok" /\ sched.pass = h.pass
      /\ core = CoreOff /\ kv = [i \in Position |-> kv[i]] /\ mem \in [Frame -> FrameType]
  BY <1>1, <1>2, RecordingIs
<1>4. /\ h.pass = 3 /\ IsSched /\ Cached(kv, out, ntok) /\ Alike(sched) /\ tab = Table(sched, w.r5)
      /\ \A a \in Buckets : sched.rec[a] = RecAt(2, a, PosOf(a))
  BY <1>1, <1>2 DEF TableInv
<1>5. valid' \in [Position -> {0, 1}] /\ mem' \in [Frame -> FrameType]
  <2>1. CASE wanted
    BY <1>1, <1>2, <2>1, RecordWrites
  <2>2. CASE ~wanted
    BY <1>1, <1>2, <1>3, <2>2 DEF HostInv
  <2> QED BY <2>1, <2>2
<1>6. CASE wanted /\ err # "ok"
  <2>1. err \in HostStatus \ {"ok"}
    BY <1>6, StatusOfRecord
  <2> HIDE DEF err
  <2> QED BY <1>1, <1>5, <1>6, <2>1, GivesUp
<1>7. ASSUME h' = [h EXCEPT !.pc = next], sched' = sched, Shown(next)
      PROVE  LlmInv'
  <2>1. /\ h' \in HostType /\ h'.pc = next /\ h'.token = h.token /\ h'.steps = h.steps /\ h'.pos0 = h.pos0 /\ h'.host_end = h.host_end
        /\ h'.pass = 3 /\ h'.status = "ok"
    BY <1>3, <1>4, <1>7 DEF HostType, HostPc
  <2>2. Recording_'
    BY <2>1 DEF Recording_
  <2>3. HostInv'
    BY <1>1, <1>2, <1>5, <2>1, <2>2, HostAsks
  <2>4. CoreInv'
    BY <1>1, <1>3, <1>5, <2>1 DEF CoreInv, Running
  <2>5. IsSched' /\ Cached(kv, out, ntok)' /\ (\A a \in Buckets : sched.rec[a] = RecAt(2, a, PosOf(a)))'
    <3>1. IsSched'
      BY <1>1, <1>4, <1>7, WorldSame DEF IsSched
    <3>2. Cached(kv, out, ntok)'
      BY <1>1, <1>4, WorldSame DEF Cached
    <3> QED BY <1>1, <1>4, <1>7, <3>1, <3>2, WorldSame
  <2>6. (tab = Table(sched, w.r5) /\ Alike(sched))'
    <3>1. tab' = Table(sched', w.r5) /\ Alike(sched')
      BY <1>1, <1>4, <1>7
    <3> QED BY <1>1, <3>1 DEF Table, Alike, Diff, Bucket, Shape, Words
  <2>7. (h'.pc = "last" => FirstSame') /\ (h'.pc = "run" => PosFixed')
    BY <1>1, <1>7, <2>1, WorldSame DEF Shown
  <2>8. TableInv'
    BY <1>3, <1>4, <1>7, <2>1, <2>5, <2>6, <2>7 DEF TableInv
  <2> QED BY <2>3, <2>4, <2>8 DEF LlmInv
<1>8. CASE wanted /\ err = "ok"
  <2>1. /\ RecordOf(b, pos) = RecAt(3, b, pos)
        /\ RecordStatus(sched, b, RecordOf(b, pos)) =
                (IF h.pass = 3 /\ sched.rec[b] # RecordOf(b, pos) THEN "FAILED_PRECONDITION" ELSE "ok")
        /\ Recorded(sched, b, RecordOf(b, pos)) = (IF h.pass # 3 THEN [sched EXCEPT !.rec[b] = RecordOf(b, pos)] ELSE sched)
    BY <1>1, <1>2, <1>4, <1>8, RecordOfIs
  <2>2. sched.rec[b] = RecAt(3, b, pos) /\ sched' = sched
    <3>1. RecordStatus(sched, b, RecordOf(b, pos)) = "ok"
      BY <1>8 DEF RecordError
    <3>2. sched' = Recorded(sched, b, RecordOf(b, pos))
      BY <1>1, <1>8 DEF rvs_record
    <3> QED BY <1>4, <2>1, <3>1, <3>2
  <2> HIDE DEF err
  <2> QED BY <1>1, <1>7, <1>8, <2>2
<1>9. CASE ~wanted
  BY <1>1, <1>7, <1>9
<1> QED BY <1>6, <1>8, <1>9

\* Two recordings of a bucket that are equal have the same position in them.
LEMMA SamePos ==
    ASSUME NEW p, NEW q, NEW b, NEW x \in Nat, NEW y \in Nat, RecAt(p, b, x) = RecAt(q, b, y), w.posdep
    PROVE  x = y
<1>1. \A r, z : RecAt(r, b, z).items[1].words[3] = z + 1
  <2> TAKE r, z
  <2> DEFINE f == w.frames[r][b]
             k == Kinds(b)
             l == (b + 1) * Pad
  <2>1. k[1] = "step" /\ Len(k) \in {2, 3} /\ 1 \in 1 .. Len(k)
    BY DEF Kinds
  <2>2. RecAt(r, b, z) = Recording(f, l, z + 1, w.code, k)
    BY DEF RecAt
  <2> HIDE DEF f, k, l
  <2>3. Recording(f, l, z + 1, w.code, k).items[1].words = <<f, l, z + 1>>
    BY <2>1 DEF Recording
  <2> QED BY <2>2, <2>3
<1>2. x + 1 = y + 1
  BY <1>1
<1> QED BY <1>2

\* The second position of the first bucket, where there is one.
LEMMA CheckFirstInv ==
    ASSUME LlmInv, CheckFirst
    PROVE  LlmInv'
<1> DEFINE wanted == (start + 1) \div Pad = sched.b0 /\ start + 1 < h.steps
<1>1. Check("first", "last", sched.b0, start + 1, wanted)
  BY DEF CheckFirst
<1>2. HostInv /\ TableInv /\ CoreInv /\ h.pc = "first" /\ Recording_
  BY <1>1 DEF LlmInv, Check, Recording_
<1>3. /\ w \in World /\ ntok < Full /\ ntok \in Nat /\ Full \in Nat /\ start = ntok /\ h.steps = Full /\ sched.b0 = FirstBucket
  BY <1>2, RecordingIs
<1>4. FirstBucket \in Buckets /\ ntok + 1 \in Nat /\ PosOf(FirstBucket) = ntok
  BY <1>3, BucketsAre DEF PosOf
<1>5. sched.rec[FirstBucket] = RecAt(2, FirstBucket, ntok)
  BY <1>2, <1>4 DEF TableInv
<1>6. wanted <=> (ntok + 1) \div Pad = FirstBucket /\ ntok + 1 < Full
  BY <1>3
<1>7. ~wanted => Shown("last")
  BY <1>3, <1>6 DEF Shown, FirstSame
<1>8. wanted /\ sched.rec[FirstBucket] = RecAt(3, FirstBucket, ntok + 1) => Shown("last")
  <2> SUFFICES ASSUME sched.rec[FirstBucket] = RecAt(3, FirstBucket, ntok + 1), w.posdep
               PROVE  FALSE
    BY DEF Shown, FirstSame
  <2>1. ntok = ntok + 1
    BY <1>3, <1>4, <1>5, SamePos
  <2> QED BY <1>3, <2>1
<1>9. Check("first", "last", FirstBucket, ntok + 1, wanted)
  BY <1>1, <1>3
<1>10. wanted \in BOOLEAN /\ (wanted => (ntok + 1) \div Pad = FirstBucket)
  BY <1>6
<1> HIDE DEF wanted
<1> QED BY <1>4, <1>7, <1>8, <1>9, <1>10, CheckInv

\* The last position of the last bucket: with the first check, no word of a
\* list that serves more than one step depends on the position.
LEMMA CheckLastInv ==
    ASSUME LlmInv, CheckLast
    PROVE  LlmInv'
<1> DEFINE wanted == sched.nb > 1
           b == (Full - 1) \div Pad
           pos == (b + 1) * Pad - 1
<1>1. Check("last", "run", LastBucket, (LastBucket + 1) * Pad - 1, wanted)
  BY DEF CheckLast
<1>2. HostInv /\ TableInv /\ CoreInv /\ h.pc = "last" /\ Recording_
  BY <1>1 DEF LlmInv, Check, Recording_
<1>3. /\ w \in World /\ ntok < Full /\ ntok \in Nat /\ Full \in Nat /\ LastBucket = b /\ sched.b0 = FirstBucket
      /\ sched.nb = b - FirstBucket + 1
  BY <1>2, RecordingIs
<1>4. b \in Nat /\ FirstBucket \in Nat /\ FirstBucket <= b /\ Pad \in Nat \ {0} /\ b \in Buckets
  <2>1. b \in Nat /\ FirstBucket \in Nat /\ FirstBucket <= b /\ Pad \in Nat \ {0}
    BY <1>3, BucketsAre, Sizes
  <2> QED BY <2>1 DEF Buckets
<1>5. sched.rec[b] = RecAt(2, b, PosOf(b)) /\ FirstSame
  BY <1>2, <1>4 DEF TableInv
<1>6. b * Pad \in Nat /\ pos = b * Pad + Pad - 1 /\ pos \in Nat /\ pos \div Pad = b
  <2> DEFINE c == b * Pad
  <2>1. c \in Nat /\ pos = c + Pad - 1
    BY <1>4, Times
  <2> HIDE DEF b, c, pos
  <2>2. pos \in Nat /\ c <= pos /\ pos < c + Pad
    BY <1>4, <2>1
  <2>3. pos \div Pad = b
    BY <1>4, <2>2, DivOf DEF c
  <2> QED BY <2>1, <2>2, <2>3 DEF c
<1>7. Check("last", "run", b, pos, wanted)
  BY <1>1, <1>3
<1> HIDE DEF pos, b
<1>8. ~wanted => Shown("run")
  <2> SUFFICES ASSUME ~wanted, w.posdep
               PROVE  Full = ntok + 1
    BY DEF Shown, PosFixed
  <2>1. b = FirstBucket
    BY <1>3, <1>4
  <2>2. (ntok + 1) \div Pad # FirstBucket \/ Full = ntok + 1
    BY <1>5 DEF FirstSame
  <2>3. ASSUME ntok + 1 < Full
        PROVE  (ntok + 1) \div Pad = FirstBucket
    <3>1. ntok + 1 \in ntok .. Full - 1
      BY <1>3, <2>3
    <3>2. (ntok + 1) \div Pad \in Buckets
      BY <1>3, <3>1, BucketsAre
    <3>3. (ntok + 1) \div Pad \in FirstBucket .. FirstBucket
      BY <2>1, <3>2 DEF Buckets, b
    <3> QED BY <1>4, <3>3
  <2> QED BY <1>3, <2>2, <2>3
<1>9. wanted /\ sched.rec[b] = RecAt(3, b, pos) => Shown("run")
  <2> SUFFICES ASSUME wanted, sched.rec[b] = RecAt(3, b, pos), w.posdep
               PROVE  Pad = 1
    BY DEF Shown, PosFixed
  <2>1. b # FirstBucket
    BY <1>3, <1>4
  <2>2. PosOf(b) = b * Pad /\ PosOf(b) \in Nat
    BY <1>6, <2>1 DEF PosOf
  <2>3. PosOf(b) = pos
    BY <1>5, <1>6, <2>2, SamePos
  <2> DEFINE c == b * Pad
  <2>4. c \in Nat /\ c = c + Pad - 1
    BY <1>6, <2>2, <2>3
  <2> HIDE DEF c
  <2> QED BY <1>4, <2>4
<1>10. wanted \in BOOLEAN
  OBVIOUS
<1> HIDE DEF wanted
<1> QED BY <1>4, <1>6, <1>7, <1>8, <1>9, <1>10, CheckInv

-----------------------------------------------------------------------------
(* The whole invariant, at the steps before the core runs and after. *)

\* The invariant holds at first...
LEMMA StartInv ==
    ASSUME LlmInit
    PROVE  LlmInv
<1>1. HostInv
  BY HostStart
<1>2. h.pc \in {"prefill", "decode"} /\ core = CoreOff /\ mem = [f \in Frame |-> NoFrame] /\ kv = [i \in Position |-> NoToken]
  BY DEF LlmInit, CoreInit
<1>3. TableInv
  BY <1>2 DEF TableInv, Recording_
<1>4. NoFrame \in FrameType
  <2>1. 0 \in Id
    BY VocabAssumption DEF Id
  <2> QED BY <2>1 DEF NoFrame, FrameType, Floats
<1>5. CoreInv
  BY <1>2, <1>4 DEF CoreInv, Running
<1> QED BY <1>1, <1>3, <1>5 DEF LlmInv

\* ...after each chunk...
LEMMA PrefillInv ==
    ASSUME LlmInv, Prefill
    PROVE  LlmInv'
<1>1. HostInv'
  BY PrefillHost DEF LlmInv
<1>2. /\ h.pc = "prefill" /\ h'.pc \in {"prefill", "decode", "end"} /\ core' = core /\ mem' = mem
      /\ kv' = kv \/ kv' = [i \in Position |-> kv'[i]]
  BY DEF Prefill, Failed, LlmInv, HostInv, HostType
<1>3. core = CoreOff /\ mem \in [Frame -> FrameType] /\ kv = [i \in Position |-> kv[i]]
  BY <1>2 DEF LlmInv, CoreInv, Running
<1>4. TableInv'
  BY <1>2 DEF TableInv, Recording_
<1>5. CoreInv'
  BY <1>2, <1>3 DEF CoreInv, Running
<1> QED BY <1>1, <1>4, <1>5 DEF LlmInv

\* ...each step of the host...
LEMMA DecodeInv ==
    ASSUME LlmInv, Decode
    PROVE  LlmInv'
<1>1. HostInv'
  BY DecodeHost DEF LlmInv
<1>2. /\ h.pc = "decode" /\ core' = core /\ mem' = mem
      /\ \/ kv' = [kv EXCEPT ![h.pos] = IF h.pos < ntok THEN w.toks[h.pos + 1] ELSE h.token]
         \/ kv' = kv
  BY DEF Decode, Failed
<1>3. core = CoreOff /\ mem \in [Frame -> FrameType] /\ kv = [i \in Position |-> kv[i]]
  BY <1>2 DEF LlmInv, CoreInv, Running
<1>4. kv' = [i \in Position |-> kv'[i]]
  BY <1>2, <1>3
<1>5. h'.pc \in {"decode", "end"}
  BY DEF Decode, Failed, LlmInv, HostInv, HostType
<1>6. TableInv'
  BY <1>5 DEF TableInv, Recording_
<1>7. CoreInv'
  BY <1>2, <1>3, <1>4, <1>5 DEF CoreInv, Running
<1> QED BY <1>1, <1>6, <1>7 DEF LlmInv

\* ...at the start of the recordings...
LEMMA DecodedInv ==
    ASSUME LlmInv, Decoded
    PROVE  LlmInv'
<1>1. HostInv' /\ HostInv /\ CoreInv
  BY DecodedHost DEF LlmInv
<1>2. /\ h.pc = "decode" /\ h.pos >= h.host_end
      /\ IF w.rvsched /\ h.steps > start
         THEN /\ sched' = Created(start \div Pad, (h.steps - 1) \div Pad - start \div Pad + 1, h.steps - start)
              /\ h' = [h EXCEPT !.pc = "record", !.pass = 1, !.bucket = start \div Pad, !.pos = start]
         ELSE h' = [h EXCEPT !.pc = "end"]
      /\ w' = w /\ out' = out /\ kv' = kv /\ mem' = mem /\ core' = core
  BY Zenon DEF Decoded, coreVars
<1>3. h \in HostType /\ h.status = "ok" /\ core = CoreOff /\ mem \in [Frame -> FrameType] /\ kv = [i \in Position |-> kv[i]]
  BY <1>1, <1>2 DEF HostInv, Decoding, CoreInv, Running
<1>4. CASE ~(w.rvsched /\ h.steps > start)
  <2>1. h'.pc = "end"
    BY <1>2, <1>3, <1>4 DEF HostType
  <2> QED BY <1>1, <2>1, NothingMore DEF LlmInv
<1>5. CASE w.rvsched /\ h.steps > start
  <2>1. /\ w \in World /\ ntok \in Nat /\ 1 <= ntok /\ Full \in Nat /\ start = ntok /\ h.host_end = ntok
        /\ h.pos \in Nat /\ h.pos <= ntok /\ h.steps \in Nat /\ h.steps <= Full
        /\ h.steps # Full => h.steps = h.pos /\ ntok <= h.pos /\ h.token = w.stop
        /\ Cached(kv, out, h.pos)
    BY <1>1, <1>2, <1>3, <1>5, StartIs, WorldIs DEF HostInv, Decoding, HostType
  <2>2. h.pos = ntok /\ h.steps = Full /\ ntok < Full /\ Cached(kv, out, ntok)
    BY <1>2, <1>5, <2>1
  <2>3. start \div Pad = FirstBucket /\ FirstBucket \in Nat /\ FirstBucket \in Buckets
    BY <2>1, <2>2, BucketsAre DEF FirstBucket
  <2>4. /\ h'.pc = "record" /\ h'.pass = 1 /\ h'.bucket = FirstBucket /\ h'.status = "ok"
    BY <1>2, <1>3, <1>5, <2>3 DEF HostType
  <2>5. sched' = Created(FirstBucket, (Full - 1) \div Pad - FirstBucket + 1, Full - ntok)
    BY <1>2, <1>5, <2>1, <2>2, <2>3
  <2>6. /\ sched' = [b0 |-> FirstBucket, nb |-> (Full - 1) \div Pad - FirstBucket + 1, max |-> Full - ntok,
                     pass |-> sched'.pass, cap |-> sched'.cap, shape |-> sched'.shape, rec |-> sched'.rec]
        /\ sched'.pass = 1 /\ sched'.rec = [b \in Buckets |-> sched'.rec[b]]
    <3> DEFINE e == (Full - 1) \div Pad
               n == e - FirstBucket + 1
               m == Full - ntok
    <3>1. e \in Nat /\ FirstBucket + n - 1 = e
      <4>1. e \in Nat /\ FirstBucket \in Nat
        BY <2>1, <2>2, BucketsAre
      <4> HIDE DEF e
      <4> QED BY <4>1
    <3>2. FirstBucket .. FirstBucket + n - 1 = Buckets
      BY <3>1 DEF Buckets
    <3> HIDE DEF e, n, m
    <3> DEFINE f == [b \in Buckets |-> NoRecording]
    <3>3. sched' = [b0 |-> FirstBucket, nb |-> n, max |-> m, pass |-> 1, cap |-> 0, shape |-> NoShape, rec |-> f]
      BY <2>5, <3>2 DEF Created, n, m, e
    <3>4. f = [b \in Buckets |-> f[b]]
      OBVIOUS
    <3> HIDE DEF f
    <3>5. /\ sched' = [b0 |-> FirstBucket, nb |-> n, max |-> m,
                       pass |-> sched'.pass, cap |-> sched'.cap, shape |-> sched'.shape, rec |-> sched'.rec]
          /\ sched'.pass = 1 /\ sched'.rec = f
      BY <3>3
    <3> QED BY <3>4, <3>5 DEF n, m, e
  <2>7. IsSched'
    BY <1>2, <2>6, WorldSame DEF IsSched
  <2>8. (h.bucket \in Buckets /\ \A a \in FirstBucket .. h.bucket - 1 : sched.rec[a] = RecAt(h.pass, a, PosOf(a)))'
    <3>1. FirstBucket' = FirstBucket /\ Buckets' = Buckets
      BY <1>2, WorldSame
    <3>2. FirstBucket .. h'.bucket - 1 = {}
      BY <2>3, <2>4
    <3> QED BY <2>3, <2>4, <3>1, <3>2
  <2>9. Cached(kv, out, ntok)' /\ Recording_'
    BY <1>2, <2>2, <2>4, WorldSame DEF Cached, Recording_
  <2>10. TableInv'
    BY <2>4, <2>6, <2>7, <2>8, <2>9 DEF TableInv
  <2>11. CoreInv'
    BY <1>2, <1>3, <2>4 DEF CoreInv, Running
  <2> QED BY <1>1, <2>10, <2>11 DEF LlmInv
<1> QED BY <1>4, <1>5

\* ...when the core's tokens are read...
LEMMA ReadInv ==
    ASSUME LlmInv, Read
    PROVE  LlmInv'
<1>1. HostInv'
  BY ReadHost DEF LlmInv
<1>2. h'.pc = "end"
  BY DEF Read, LlmInv, HostInv, HostType
<1> QED BY <1>1, <1>2, NothingMore DEF LlmInv

\* ...and at the end.
LEMMA EndInv ==
    ASSUME LlmInv, End
    PROVE  LlmInv'
<1>1. HostInv'
  BY EndHost DEF LlmInv
<1>2. h'.pc = "exit"
  BY DEF End, LlmInv, HostInv, HostType
<1> QED BY <1>1, <1>2, NothingMore DEF LlmInv

-----------------------------------------------------------------------------
(* The core starts. *)

\* What is recorded stays while it is not recorded again.
LEMMA SchedSame ==
    ASSUME sched' = sched, w' = w
    PROVE  /\ Diff(sched)' = Diff(sched) /\ Table(sched, w.r5)' = Table(sched, w.r5) /\ (Alike(sched)' <=> Alike(sched))
           /\ (IsSched' <=> IsSched)
           /\ (\A b \in Buckets : sched.rec[b] = RecAt(2, b, PosOf(b)))' <=>
                    \A b \in Buckets : sched.rec[b] = RecAt(2, b, PosOf(b))
<1>1. Diff(sched)' = Diff(sched') /\ Diff(sched') = Diff(sched)
  BY DEF Diff, Bucket, Words
<1>2. Table(sched, w.r5)' = Table(sched', w.r5) /\ Table(sched', w.r5) = Table(sched, w.r5)
  BY DEF Table, Diff, Bucket, Words
<1>3. Alike(sched)' <=> Alike(sched)
  BY DEF Alike, Bucket, Shape
<1>4. IsSched' <=> IsSched
  BY WorldSame DEF IsSched
<1>5. (\A b \in Buckets : sched.rec[b] = RecAt(2, b, PosOf(b)))' <=> \A b \in Buckets : sched.rec[b] = RecAt(2, b, PosOf(b))
  BY WorldSame
<1> QED BY <1>1, <1>2, <1>3, <1>4, <1>5

\* The tokens fed, as what is told grows.
FedOf(n, o, t, u, m) == [i \in 1 .. n + 1 + m |-> IF i <= n THEN o[i] ELSE IF i = n + 1 THEN t ELSE u[i - n - 1]]

\* Before the core's first token what is fed is the prompt and the choice.
LEMMA FedFirst ==
    ASSUME NEW o \in Seq(Id), NEW n \in Nat, Len(o) = n, NEW t \in Id, NEW u
    PROVE  FedOf(n, o, t, u, 0) = Append(o, t)
<1> DEFINE f == FedOf(n, o, t, u, 0)
           g == Append(o, t)
<1>1. g \in Seq(Id) /\ Len(g) = n + 1 /\ g[n + 1] = t /\ \A i \in 1 .. n : g[i] = o[i]
  OBVIOUS
<1>2. n + 1 + 0 = n + 1 /\ n + 1 \in Nat
  OBVIOUS
<1>3. f = [i \in 1 .. n + 1 |-> IF i <= n THEN o[i] ELSE IF i = n + 1 THEN t ELSE u[i - n - 1]]
  BY <1>2 DEF FedOf
<1>4. \A i \in 1 .. n + 1 : i \in 1 .. n \/ (i = n + 1 /\ ~(i <= n))
  OBVIOUS
<1> HIDE DEF g
<1>5. \A i \in 1 .. n + 1 : f[i] = g[i]
  BY <1>1, <1>3, <1>4
<1>6. g = [i \in 1 .. n + 1 |-> g[i]]
  BY <1>1, <1>2
<1> HIDE DEF f
<1>7. f = g
  BY <1>3, <1>5, <1>6
<1> QED BY <1>7 DEF f, g

\* A token more the core found is one more to feed.
LEMMA FedMore ==
    ASSUME NEW n \in Nat, NEW m \in Nat, NEW o, NEW t, NEW u, NEW v, NEW x \in Id,
           FedOf(n, o, t, u, m) \in Seq(Id), \A i \in 1 .. m : v[i] = u[i], v[m + 1] = x
    PROVE  FedOf(n, o, t, v, m + 1) = Append(FedOf(n, o, t, u, m), x)
<1> DEFINE f == FedOf(n, o, t, u, m)
           g == Append(f, x)
           k == n + 1 + m
           F == FedOf(n, o, t, v, m + 1)
<1>1. k \in Nat /\ n + 1 + (m + 1) = k + 1 /\ k >= n + 1
  OBVIOUS
<1>2. f = [i \in 1 .. k |-> IF i <= n THEN o[i] ELSE IF i = n + 1 THEN t ELSE u[i - n - 1]]
  BY DEF FedOf
<1>3. F = [i \in 1 .. k + 1 |-> IF i <= n THEN o[i] ELSE IF i = n + 1 THEN t ELSE v[i - n - 1]]
  BY <1>1 DEF FedOf
<1>4. f \in Seq(Id) /\ DOMAIN f = 1 .. k
  BY <1>2
<1>5. Len(f) = k
  <2> HIDE DEF f, k
  <2> QED BY <1>1, <1>4
<1> HIDE DEF f
<1>6. g \in Seq(Id) /\ Len(g) = k + 1 /\ g[k + 1] = x /\ \A i \in 1 .. k : g[i] = f[i]
  <2> HIDE DEF k
  <2> QED BY <1>1, <1>4, <1>5
<1> HIDE DEF F, g
<1>7. ASSUME NEW i \in 1 .. k + 1
      PROVE  F[i] = g[i]
  <2>1. CASE i = k + 1
    <3>1. ~(i <= n) /\ i # n + 1 /\ i - n - 1 = m + 1
      BY <1>1, <2>1
    <3> QED BY <1>3, <1>6, <2>1, <3>1
  <2>2. CASE i # k + 1
    <3>1. i \in 1 .. k /\ (i <= n \/ i = n + 1 \/ i - n - 1 \in 1 .. m)
      BY <1>1, <2>2
    <3>2. F[i] = IF i <= n THEN o[i] ELSE IF i = n + 1 THEN t ELSE v[i - n - 1]
      BY <1>3
    <3>3. g[i] = IF i <= n THEN o[i] ELSE IF i = n + 1 THEN t ELSE u[i - n - 1]
      BY <1>2, <1>6, <3>1
    <3> QED BY <3>1, <3>2, <3>3
  <2> QED BY <2>1, <2>2
<1>8. g = [i \in 1 .. k + 1 |-> g[i]] /\ F = [i \in 1 .. k + 1 |-> F[i]]
  BY <1>1, <1>3, <1>6
<1>9. F = g
  BY <1>7, <1>8
<1> QED BY <1>9 DEF F, g, f

\* A recording's inputs lie where its frame is.
LEMMA RecIo ==
    ASSUME NEW p, NEW b, NEW x
    PROVE  RecAt(p, b, x).io = w.frames[p][b]
<1> DEFINE l == (b + 1) * Pad
           y == IF w.posdep THEN x + 1 ELSE 0
           k == Kinds(b)
<1>1. RecAt(p, b, x) = Recording(w.frames[p][b], l, y, w.code, k)
  BY DEF RecAt
<1> HIDE DEF l, y, k
<1> QED BY <1>1 DEF Recording

\* The request: the core starts with the table, the cache and the token the
\* host has.
LEMMA RunInv ==
    ASSUME LlmInv, Run
    PROVE  LlmInv'
<1>1. /\ h.pc = "run" /\ Recording_
      /\ tab' = [tab EXCEPT !.pos = start, !.steps = h.steps - start, !.token = h.token, !.stop = w.stop,
                            !.done = 0, !.status = "none"]
      /\ core' = [CoreOff EXCEPT !.pc = "step", !.pos = start, !.token = h.token]
      /\ h' = [h EXCEPT !.pc = "wait"]
      /\ w' = w /\ valid' = valid /\ sched' = sched /\ out' = out /\ rows' = rows /\ mem' = mem /\ kv' = kv
  BY DEF Run, Recording_
<1>2. HostInv /\ TableInv /\ CoreInv
  BY DEF LlmInv
<1>3. /\ w \in World /\ ntok \in Nat /\ Full \in Nat /\ ntok < Full /\ start = ntok /\ h.steps = Full
      /\ h \in HostType /\ h.status = "ok" /\ Bucket(sched) = Buckets /\ sched.max = N /\ sched.b0 = FirstBucket
      /\ mem \in [Frame -> FrameType] /\ kv = [i \in Position |-> kv[i]]
      /\ out \in Seq(Id) /\ Len(out) = ntok /\ h.token \in Id /\ Choice(w, out, h.token) /\ h.token # w.stop
  BY <1>1, <1>2, RecordingIs
<1>4. /\ IsSched /\ Cached(kv, out, ntok) /\ Alike(sched) /\ PosFixed /\ tab = Table(sched, w.r5)
      /\ \A b \in Buckets : sched.rec[b] = RecAt(2, b, PosOf(b))
  BY <1>1, <1>2 DEF TableInv
<1>5. /\ h' \in HostType /\ h'.pc = "wait" /\ h'.status = "ok"
      /\ h'.token = h.token /\ h'.steps = h.steps /\ h'.pos0 = h.pos0 /\ h'.host_end = h.host_end
  BY <1>1, <1>3 DEF HostType, HostPc
<1>6. Running' /\ ~Recording_'
  BY <1>5 DEF Running, Recording_
<1>7. HostInv'
  BY <1>1, <1>2, <1>5, <1>6, HostAsks DEF HostInv
<1>8. TableInv'
  BY <1>5, <1>6 DEF TableInv
<1>9. core' = [pc |-> "step", s |-> 0, pos |-> ntok, token |-> h.token, cur |-> -1, item |-> 1]
  BY <1>1, <1>3 DEF CoreOff
<1>10. core' \in CoreType
  BY <1>3, <1>9 DEF CoreType
<1>11. ntok' = ntok /\ N' = N /\ N \in Nat /\ N > 0 /\ Buckets' = Buckets /\ FirstBucket' = FirstBucket
  BY <1>1, <1>3, WorldSame DEF N
<1> DEFINE I == sched.rec[sched.b0].items
           B == [b \in Bucket(sched) |-> sched.rec[b].io]
           V == [b \in Bucket(sched) |-> [n \in 1 .. Len(Diff(sched)) |->
                    sched.rec[b].items[Diff(sched)[n][1]].words[Diff(sched)[n][2]]]]
           D == Diff(sched)
           O == [n \in 1 .. sched.max |-> 0]
<1>12. tab = [items |-> I, words |-> D, b0 |-> sched.b0, nb |-> sched.nb, r5 |-> w.r5, buckets |-> B, values |-> V,
              pos |-> 0, steps |-> 0, token |-> 0, stop |-> -1, out |-> O, done |-> 0, status |-> "none"]
  BY <1>4 DEF Table
<1>14. B = [b \in Buckets |-> w.frames[2][b]]
  <2>1. \A b \in Buckets : sched.rec[b].io = w.frames[2][b]
    BY <1>4, RecIo
  <2> QED BY <1>3, <2>1
<1>15. I = ItemsOf(FirstBucket)
  <2>1. FirstBucket \in Buckets
    BY <1>3, BucketsAre
  <2> QED BY <1>3, <1>4, <2>1 DEF ItemsOf
<1>16. O \in [1 .. N -> Id]
  <2>1. 0 \in Id
    BY VocabAssumption DEF Id
  <2> QED BY <1>3, <2>1
<1>17. h.steps - start = N
  BY <1>3 DEF N
<1> HIDE DEF I, B, V, D, O
<1>13. V = Table(sched, w.r5).values
  BY <1>4, <1>12
<1>18. tab' = [items |-> I, words |-> D, b0 |-> sched.b0, nb |-> sched.nb, r5 |-> w.r5, buckets |-> B, values |-> V,
               pos |-> ntok, steps |-> N, token |-> h.token, stop |-> w.stop, out |-> O, done |-> 0, status |-> "none"]
  BY <1>1, <1>3, <1>12, <1>17
<1>19. /\ tab'.items = I /\ tab'.out = O /\ tab'.done = 0 /\ tab'.status = "none"
  BY <1>18
<1>20. TableIs'
  <2>1. tab' = [items |-> tab'.items, words |-> Diff(sched), b0 |-> sched.b0, nb |-> sched.nb, r5 |-> w.r5,
              buckets |-> [b \in Buckets |-> w.frames[2][b]],
              values |-> Table(sched, w.r5).values,
              pos |-> ntok, steps |-> N, token |-> h.token, stop |-> w.stop,
              out |-> tab'.out, done |-> tab'.done, status |-> tab'.status]
    BY <1>13, <1>14, <1>18, <1>19, Zenon DEF D
  <2>2. (tab = [items |-> tab.items, words |-> Diff(sched), b0 |-> sched.b0, nb |-> sched.nb, r5 |-> w.r5,
              buckets |-> [b \in Buckets |-> w.frames[2][b]],
              values |-> Table(sched, w.r5).values,
              pos |-> ntok, steps |-> N, token |-> h.token, stop |-> w.stop,
              out |-> tab.out, done |-> tab.done, status |-> tab.status])'
    BY <1>1, <1>5, <1>11, <2>1, SchedSame
  <2>3. (tab.out \in [1 .. N -> Id] /\ tab.done \in Nat)'
    BY <1>11, <1>16, <1>19
  <2>5. (Bucket_)' = FirstBucket
    BY <1>9, <1>11 DEF Bucket_
  <2>6. ItemsOf(FirstBucket) = I /\ \A b : ItemsOf(b)' = ItemsOf(b)
    BY <1>1, <1>15, WorldSame
  <2>4. (\A b \in Buckets : b = Bucket_ => tab.items = ItemsOf(b))'
    BY <1>11, <1>19, <2>5, <2>6
  <2> QED BY <2>2, <2>3, <2>4 DEF TableIs
<1>21. Fed(0)' = Append(out, h.token)
  <2>1. Fed(0)' = FedOf(ntok, out, h.token, O, 0)
    BY <1>1, <1>5, <1>11, <1>19 DEF Fed, FedOf
  <2> QED BY <1>3, <2>1, FedFirst
<1>22. Good(w, Append(out, h.token)) /\ Good(w, out)
  BY <1>2, <1>3, WorldIs, GoodAppend DEF HostInv
<1>23. AtStep'
  <2>1. Told(0)'
    <3>1. 0 \in 0 .. N'
      BY <1>11
    <3>2. Good(w, Fed(0))'
      BY <1>1, <1>21, <1>22
    <3> QED BY <3>1, <3>2 DEF Told
  <2>2. Cached(kv, out, ntok) => Cached(kv, Append(out, h.token), ntok)
    <3>1. \A i \in 0 .. ntok - 1 : i + 1 \in 1 .. Len(out)
      BY <1>3
    <3>2. \A i \in 1 .. Len(out) : Append(out, h.token)[i] = out[i]
      BY <1>3
    <3> QED BY <3>1, <3>2 DEF Cached
  <2>3. Append(out, h.token)[ntok + 1] = h.token
    BY <1>3
  <2>4. /\ core'.cur = -1 /\ core'.s = 0 /\ core'.pos = ntok /\ core'.token = h.token
    BY <1>9
  <2>5. Cached(kv', Fed(0)', ntok) /\ core'.token = Fed(0)'[ntok + 1]
    BY <1>1, <1>4, <1>21, <2>2, <2>3, <2>4
  <2>6. Told(core.s)' /\ Fed(core.s)' = Fed(0)'
    BY <2>1, <2>4 DEF Told, Fed
  <2>7. Cached(kv, Fed(core.s), core.pos)' /\ (core.token = Fed(core.s)[core.pos + 1])'
    <3>1. Cached(kv', Fed(core.s)', core'.pos) /\ core'.token = Fed(core.s)'[core'.pos + 1]
      BY <2>4, <2>5, <2>6
    <3> QED BY <3>1 DEF Cached
  <2> QED BY <2>4, <2>6, <2>7 DEF AtStep
<1>24. AtItems' /\ AtOut' /\ AtDone' /\ AtOff'
  BY <1>9 DEF AtItems, AtOut, AtDone, AtOff
<1>25. Counted'
  BY <1>3, <1>9, <1>11, <1>19 DEF Counted, Unstopped
<1>26. Static'
  BY <1>1, <1>4, SchedSame, WorldSame DEF Static
<1>27. CoreTypes' /\ HostReads'
  <2>1. core'.cur = -1 /\ (mem \in [Frame -> FrameType])' /\ (kv = [i \in Position |-> kv[i]])'
    <3>1. core'.cur = -1
      BY <1>9
    <3>2. mem' \in [Frame -> FrameType]
      BY <1>1, <1>3
    <3>3. kv' = [i \in Position |-> kv'[i]]
      BY <1>1, <1>3
    <3> QED BY <3>1, <3>2, <3>3
  <2>2. CoreTypes'
    BY <1>10, <2>1 DEF CoreTypes
  <2>3. HostReads'
    BY <1>5 DEF HostReads
  <2> QED BY <2>2, <2>3
<1>28. CoreInv'
  BY <1>6, <1>20, <1>23, <1>24, <1>25, <1>26, <1>27 DEF CoreInv, CoreRuns
<1> QED BY <1>7, <1>8, <1>28 DEF LlmInv

-----------------------------------------------------------------------------
(* The words the core patches. *)

\* The sequence q has the elements of S.
Lists(q, S) ==
    /\ Len(q) \in Nat /\ DOMAIN q = 1 .. Len(q) /\ \A n \in 1 .. Len(q) : q[n] \in S
    /\ \A x \in S : \E n \in 1 .. Len(q) : q[n] = x

\* The sequence made of a finite set has its elements.
LEMMA ListOfSet ==
    ASSUME NEW S, IsFiniteSet(S), NEW q, q = SetToSeq(S)
    PROVE  Lists(q, S)
<1> DEFINE m == Cardinality(S)
<1>1. m \in Nat /\ ExistsBijection(1 .. m, S)
  BY FS_CardinalityType
<1>2. \E f \in [1 .. m -> S] : IsInjective(f)
  BY <1>1 DEF ExistsBijection, Bijection, Injection
<1>3. q \in [1 .. m -> S] /\ IsInjective(q)
  BY <1>2 DEF SetToSeq
<1>4. q \in Injection(1 .. m, S)
  BY <1>3 DEF Injection
<1>5. Cardinality(1 .. m) = m
  BY <1>1, FS_Interval
<1>6. q \in Surjection(1 .. m, S)
  BY <1>4, <1>5, FS_Injection
<1> HIDE DEF m
<1>7. \A x \in S : \E k \in 1 .. m : q[k] = x
  BY <1>6 DEF Surjection
<1>8. Len(q) = m
  BY <1>1, <1>3
<1> QED BY <1>1, <1>3, <1>7, <1>8 DEF Lists


\* The words of an item of a bucket's step.
WordsOf(b, i) ==
    IF Kinds(b)[i] = "max" THEN <<w.frames[2][b]>>
    ELSE <<w.frames[2][b], (b + 1) * Pad, IF w.posdep THEN PosOf(b) + 1 ELSE 0>>
CodeOf(b, i) == IF Kinds(b)[i] = "max" THEN w.code ELSE 0

\* Tuples of one and of three, as functions.
LEMMA TupleIs ==
    ASSUME NEW a, NEW b, NEW c
    PROVE  /\ <<a>> = [k \in 1 .. 1 |-> <<a>>[k]] /\ Len(<<a>>) = 1 /\ <<a>>[1] = a
           /\ <<a, b, c>> = [k \in 1 .. 3 |-> <<a, b, c>>[k]] /\ Len(<<a, b, c>>) = 3
           /\ <<a, b, c>>[1] = a /\ <<a, b, c>>[2] = b /\ <<a, b, c>>[3] = c
<1>1. <<a>> = [k \in 1 .. 1 |-> <<a>>[k]] /\ Len(<<a>>) = 1
  OBVIOUS
<1>2. <<a, b, c>> = [k \in 1 .. 3 |-> <<a, b, c>>[k]] /\ Len(<<a, b, c>>) = 3
  OBVIOUS
<1> QED BY <1>1, <1>2

\* A step's items: the model's lists, then the block maxima.
LEMMA KindsAre ==
    ASSUME NEW b
    PROVE  /\ Len(Kinds(b)) \in {2, 3} /\ Kinds(b)[Len(Kinds(b))] = "max"
           /\ \A i \in 1 .. Len(Kinds(b)) : Kinds(b)[i] \in {"step", "max"} /\ (Kinds(b)[i] = "max" <=> i = Len(Kinds(b)))
<1>1. CASE b \in w.longer
  <2>1. Kinds(b) = <<"step", "step", "max">>
    BY <1>1 DEF Kinds
  <2> QED BY <2>1
<1>2. CASE b \notin w.longer
  <2>1. Kinds(b) = <<"step", "max">>
    BY <1>2 DEF Kinds
  <2> QED BY <2>1
<1> QED BY <1>1, <1>2

\* The items of a bucket's recording.
LEMMA ItemsAre ==
    ASSUME NEW b
    PROVE  /\ ItemsOf(b) = [i \in 1 .. Len(Kinds(b)) |->
                    [kind |-> Kinds(b)[i], code |-> CodeOf(b, i), words |-> WordsOf(b, i)]]
           /\ Len(ItemsOf(b)) = Len(Kinds(b))
<1>1. ItemsOf(b) = [i \in 1 .. Len(Kinds(b)) |->
                    [kind |-> Kinds(b)[i], code |-> CodeOf(b, i), words |-> WordsOf(b, i)]]
  BY DEF ItemsOf, RecAt, Recording, CodeOf, WordsOf
<1>2. Len(Kinds(b)) \in Nat
  BY KindsAre
<1> QED BY <1>1, <1>2


\* Buckets whose recordings are alike have the same items.
LEMMA KindsSame ==
    ASSUME w \in World, ntok < Full, Static, NEW b \in Buckets
    PROVE  Kinds(b) = Kinds(FirstBucket) /\ sched.rec[b].items = ItemsOf(b) /\ sched.rec[b].io = w.frames[2][b]
<1>1. FirstBucket \in Buckets /\ sched.b0 = FirstBucket /\ sched.nb = (Full - 1) \div Pad - FirstBucket + 1
      /\ FirstBucket \in Nat /\ (Full - 1) \div Pad \in Nat
  <2>1. IsSched
    BY DEF Static
  <2>2. sched.b0 = FirstBucket /\ sched.nb = (Full - 1) \div Pad - FirstBucket + 1
    BY <2>1 DEF IsSched
  <2> QED BY <2>2, BucketsAre
<1>2. Bucket(sched) = Buckets
  <2> DEFINE e == (Full - 1) \div Pad
  <2>1. sched.b0 + sched.nb - 1 = e
    <3> HIDE DEF e
    <3>1. e \in Nat /\ FirstBucket \in Nat /\ sched.b0 = FirstBucket /\ sched.nb = e - FirstBucket + 1
      BY <1>1 DEF e
    <3> QED BY <3>1
  <2> QED BY <2>1, <1>1 DEF Bucket, Buckets
<1>3. \A c \in Buckets : sched.rec[c].items = ItemsOf(c) /\ sched.rec[c].io = w.frames[2][c]
  <2>1. ASSUME NEW c \in Buckets PROVE sched.rec[c].items = ItemsOf(c) /\ sched.rec[c].io = w.frames[2][c]
    <3>1. sched.rec[c] = RecAt(2, c, PosOf(c))
      BY <2>1, Zenon DEF Static
    <3>2. sched.rec[c].items = ItemsOf(c)
      BY <3>1, Zenon DEF ItemsOf
    <3>3. sched.rec[c].io = w.frames[2][c]
      BY <3>1, RecIo
    <3> QED BY <3>2, <3>3
  <2> QED BY <2>1
<1>4. Shape(sched.rec[b]) = Shape(sched.rec[FirstBucket])
  BY <1>1, <1>2 DEF Static, Alike
<1>5. DOMAIN Shape(sched.rec[b]) = 1 .. Len(Kinds(b)) /\ DOMAIN Shape(sched.rec[FirstBucket]) = 1 .. Len(Kinds(FirstBucket))
  <2>1. ASSUME NEW c \in Buckets PROVE DOMAIN Shape(sched.rec[c]) = 1 .. Len(Kinds(c))
    <3>1. Len(sched.rec[c].items) = Len(Kinds(c))
      BY <1>3, <2>1, ItemsAre
    <3> QED BY <3>1 DEF Shape
  <2> QED BY <2>1, <1>1
<1>6. 1 .. Len(Kinds(b)) = 1 .. Len(Kinds(FirstBucket))
  BY <1>4, <1>5
<1>7. Len(Kinds(b)) = Len(Kinds(FirstBucket))
  <2> DEFINE x == Len(Kinds(b))
             y == Len(Kinds(FirstBucket))
  <2>1. x \in {2, 3} /\ y \in {2, 3}
    BY KindsAre
  <2>2. 1 .. x = 1 .. y
    BY <1>6
  <2> HIDE DEF x, y
  <2>3. x = y
    BY <2>1, <2>2
  <2> QED BY <2>3 DEF x, y
<1>8. ASSUME NEW c PROVE IF c \in w.longer THEN Kinds(c) = <<"step", "step", "max">> /\ Len(Kinds(c)) = 3
                         ELSE Kinds(c) = <<"step", "max">> /\ Len(Kinds(c)) = 2
  BY DEF Kinds
<1>9. Kinds(b) = Kinds(FirstBucket)
  <2> DEFINE y == Kinds(b)
             z == Kinds(FirstBucket)
             s == <<"step", "step", "max">>
             t == <<"step", "max">>
  <2>1. (y = s /\ Len(y) = 3) \/ (y = t /\ Len(y) = 2)
    BY <1>8
  <2>2. (z = s /\ Len(z) = 3) \/ (z = t /\ Len(z) = 2)
    BY <1>8
  <2>3. Len(y) = Len(z)
    BY <1>7
  <2>5. CASE y = s /\ z = t
    <3>1. Len(y) = 3 /\ Len(z) = 2
      BY <2>5
    <3> HIDE DEF y, z
    <3> QED BY <3>1, <2>3
  <2>6. CASE y = t /\ z = s
    <3>1. Len(y) = 2 /\ Len(z) = 3
      BY <2>6
    <3> HIDE DEF y, z
    <3> QED BY <3>1, <2>3
  <2>7. (y = s \/ y = t) /\ (z = s \/ z = t)
    BY <2>1, <2>2
  <2>4. CASE y = z
    BY <2>4
  <2> HIDE DEF s, t
  <2> QED BY <2>4, <2>5, <2>6, <2>7
<1> QED BY <1>3, <1>9

\* How many words an item has.
LEMMA WordsAre ==
    ASSUME NEW b, NEW i
    PROVE  /\ Len(WordsOf(b, i)) = IF Kinds(b)[i] = "max" THEN 1 ELSE 3
           /\ WordsOf(b, i) = [k \in 1 .. Len(WordsOf(b, i)) |-> WordsOf(b, i)[k]]
           /\ WordsOf(b, i)[1] = w.frames[2][b]
           /\ Kinds(b)[i] # "max" => /\ WordsOf(b, i)[2] = (b + 1) * Pad
                                     /\ WordsOf(b, i)[3] = IF w.posdep THEN PosOf(b) + 1 ELSE 0
<1>1. CASE Kinds(b)[i] = "max"
  <2>1. WordsOf(b, i) = <<w.frames[2][b]>>
    BY <1>1 DEF WordsOf
  <2> QED BY <2>1, <1>1, TupleIs
<1>2. CASE Kinds(b)[i] # "max"
  <2> DEFINE y == (b + 1) * Pad
             z == IF w.posdep THEN PosOf(b) + 1 ELSE 0
  <2>1. WordsOf(b, i) = <<w.frames[2][b], y, z>>
    BY <1>2 DEF WordsOf
  <2> HIDE DEF y, z
  <2>2. /\ Len(WordsOf(b, i)) = 3 /\ WordsOf(b, i) = [k \in 1 .. 3 |-> WordsOf(b, i)[k]]
        /\ WordsOf(b, i)[1] = w.frames[2][b] /\ WordsOf(b, i)[2] = y /\ WordsOf(b, i)[3] = z
    BY <2>1, TupleIs
  <2> QED BY <2>2, <1>2 DEF y, z
<1> QED BY <1>1, <1>2


\* The words that differ are those the table lists.
DiffSet(s) ==
    {x \in Words(s.rec[s.b0]) : \E b \in Bucket(s) :
        s.rec[b].items[x[1]].words[x[2]] # s.rec[s.b0].items[x[1]].words[x[2]]}

\* The words to patch are listed once each.
LEMMA DiffLists ==
    ASSUME w \in World, ntok < Full, Static
    PROVE  Lists(Diff(sched), DiffSet(sched))
<1> DEFINE r == sched.rec[sched.b0]
           n == Len(r.items)
           S == DiffSet(sched)
<1>1. sched.b0 = FirstBucket /\ FirstBucket \in Buckets
  <2>1. IsSched
    BY DEF Static
  <2> QED BY <2>1, BucketsAre DEF IsSched
<1>2. r.items = ItemsOf(FirstBucket)
  BY <1>1, KindsSame
<1>3. n \in Nat
  BY <1>2, ItemsAre, KindsAre
<1>4. S \subseteq (1 .. n) \X (1 .. 3)
  BY DEF DiffSet, Words
<1>5. IsFiniteSet(S)
  <2> HIDE DEF n, S
  <2>4. \A m \in Nat : IsFiniteSet(1 .. m)
    BY FS_Interval
  <2>1. IsFiniteSet(1 .. n)
    BY <1>3, <2>4
  <2>3. IsFiniteSet(1 .. 3)
    BY <2>4
  <2>2. IsFiniteSet((1 .. n) \X (1 .. 3))
    BY <2>1, <2>3, FS_Product
  <2> QED BY <2>2, <1>4, FS_Subset
<1>6. Diff(sched) = SetToSeq(S)
  BY Zenon DEF Diff, DiffSet
<1> HIDE DEF S
<1>7. Lists(Diff(sched), S)
  BY <1>5, <1>6, ListOfSet
<1> QED BY <1>7 DEF S


\* A word of the table is patched to what it is in the bucket.
PatchOf(b, i, k, old) ==
    IF \E n \in 1 .. Len(tab.words) : tab.words[n] = <<i, k>>
    THEN tab.values[b][CHOOSE n \in 1 .. Len(tab.words) : tab.words[n] = <<i, k>>]
    ELSE old

\* A word of one bucket's list, patched, is the other bucket's.
LEMMA PatchWord ==
    ASSUME w \in World, ntok < Full, Static, TableIs, NEW b \in Buckets, NEW c \in Buckets,
           NEW i \in 1 .. Len(Kinds(b)), NEW k \in 1 .. Len(WordsOf(b, i))
    PROVE  PatchOf(b, i, k, WordsOf(c, i)[k]) = WordsOf(b, i)[k]
<1> DEFINE D == Diff(sched)
           b0 == FirstBucket
<1>1. tab.words = D /\ tab.values = Table(sched, w.r5).values
  BY DEF TableIs
<1>2. sched.b0 = FirstBucket /\ sched.nb = (Full - 1) \div Pad - FirstBucket + 1
  <2>1. IsSched
    BY DEF Static
  <2> QED BY <2>1 DEF IsSched
<1>3. Bucket(sched) = Buckets /\ FirstBucket \in Buckets
  <2> DEFINE e == (Full - 1) \div Pad
  <2>1. sched.b0 + sched.nb - 1 = e
    <3>1. e \in Nat /\ FirstBucket \in Nat /\ sched.b0 = FirstBucket /\ sched.nb = e - FirstBucket + 1
      BY <1>2, BucketsAre
    <3> HIDE DEF e
    <3> QED BY <3>1
  <2> QED BY <2>1, <1>2, BucketsAre DEF Bucket, Buckets
<1>4. \A x \in Buckets : Len(Kinds(x)) = Len(Kinds(b)) /\ Kinds(x) = Kinds(b)
  BY KindsSame
<1>5. \A x \in Buckets : sched.rec[x].items[i].words = WordsOf(x, i)
  <2>1. ASSUME NEW x \in Buckets PROVE sched.rec[x].items[i].words = WordsOf(x, i)
    <3>1. sched.rec[x].items = ItemsOf(x) /\ i \in 1 .. Len(Kinds(x))
      BY <1>4, KindsSame
    <3> QED BY <3>1, ItemsAre
  <2> QED BY <2>1
<1>6. Lists(D, DiffSet(sched))
  BY DiffLists
<1>7. ASSUME NEW n \in 1 .. Len(D) PROVE tab.values[b][n] = sched.rec[b].items[D[n][1]].words[D[n][2]]
  <2> DEFINE V(x) == [m \in 1 .. Len(D) |-> sched.rec[x].items[D[m][1]].words[D[m][2]]]
  <2>1. Table(sched, w.r5).values = [x \in Bucket(sched) |-> V(x)]
    BY DEF Table
  <2>2. tab.values[b] = V(b)
    BY <2>1, <1>1, <1>3
  <2> QED BY <2>2
<1> HIDE DEF D
<1>8. CASE \E n \in 1 .. Len(tab.words) : tab.words[n] = <<i, k>>
  <2> DEFINE m == CHOOSE n \in 1 .. Len(tab.words) : tab.words[n] = <<i, k>>
  <2>1. m \in 1 .. Len(D) /\ D[m] = <<i, k>>
    BY <1>1, <1>8
  <2>2. PatchOf(b, i, k, WordsOf(c, i)[k]) = tab.values[b][m]
    BY <1>8 DEF PatchOf
  <2> HIDE DEF m
  <2>3. tab.values[b][m] = sched.rec[b].items[i].words[k]
    BY <2>1, <1>7
  <2> QED BY <2>2, <2>3, <1>5
<1>9. CASE ~ \E n \in 1 .. Len(tab.words) : tab.words[n] = <<i, k>>
  <2>1. <<i, k>> \notin DiffSet(sched)
    BY <1>9, <1>6, <1>1 DEF Lists
  <2>2. <<i, k>> \in Words(sched.rec[b0])
    <3>1. Len(sched.rec[b0].items) = Len(Kinds(b))
      BY <1>3, <1>4, KindsSame, ItemsAre
    <3>2. sched.rec[b0].items[i].words = WordsOf(b0, i)
      BY <1>3, <1>5
    <3>3. Len(WordsOf(b0, i)) = Len(WordsOf(b, i)) /\ Len(WordsOf(b, i)) \in {1, 3}
      BY <1>3, <1>4, WordsAre
    <3>4. k \in 1 .. 3 /\ k <= Len(sched.rec[b0].items[i].words)
      BY <3>2, <3>3
    <3>5. <<i, k>> \in (1 .. Len(sched.rec[b0].items)) \X (1 .. 3)
      BY <3>1, <3>4
    <3> QED BY <3>4, <3>5 DEF Words
  <2>3. \A x \in Buckets : sched.rec[x].items[i].words[k] = sched.rec[b0].items[i].words[k]
    BY <2>1, <2>2, <1>2, <1>3 DEF DiffSet
  <2>4. WordsOf(c, i)[k] = WordsOf(b, i)[k]
    BY <2>3, <1>5
  <2>5. PatchOf(b, i, k, WordsOf(c, i)[k]) = WordsOf(c, i)[k]
    BY <1>9 DEF PatchOf
  <2> QED BY <2>4, <2>5
<1> QED BY <1>8, <1>9

\* The core's patches make the items of any bucket those of the bucket it enters.
LEMMA PatchedIs ==
    ASSUME w \in World, ntok < Full, Static, TableIs, Bucket_ \in Buckets, NEW b \in Buckets
    PROVE  Patched(b) = ItemsOf(b)
<1> DEFINE c == Bucket_
           L == Len(Kinds(b))
<1>1. tab.items = ItemsOf(c)
  BY DEF TableIs
<1>2. Kinds(c) = Kinds(b)
  BY KindsSame
<1>3. ItemsOf(c) = [i \in 1 .. L |-> [kind |-> Kinds(b)[i], code |-> CodeOf(b, i), words |-> WordsOf(c, i)]]
      /\ Len(ItemsOf(c)) = L
  BY <1>2, ItemsAre DEF CodeOf
<1>4. ItemsOf(b) = [i \in 1 .. L |-> [kind |-> Kinds(b)[i], code |-> CodeOf(b, i), words |-> WordsOf(b, i)]]
  BY ItemsAre
<1>5. Patched(b) = [i \in 1 .. L |-> [tab.items[i] EXCEPT !.words =
                        [k \in 1 .. Len(tab.items[i].words) |-> PatchOf(b, i, k, tab.items[i].words[k])]]]
  BY <1>1, <1>3 DEF Patched, PatchOf
<1>6. ASSUME NEW i \in 1 .. L
      PROVE  [tab.items[i] EXCEPT !.words = [k \in 1 .. Len(tab.items[i].words) |-> PatchOf(b, i, k, tab.items[i].words[k])]]
             = [kind |-> Kinds(b)[i], code |-> CodeOf(b, i), words |-> WordsOf(b, i)]
  <2> DEFINE F == [k \in 1 .. Len(tab.items[i].words) |-> PatchOf(b, i, k, tab.items[i].words[k])]
  <2>1. tab.items[i] = [kind |-> Kinds(b)[i], code |-> CodeOf(b, i), words |-> WordsOf(c, i)]
    BY <1>1, <1>3
  <2>2. tab.items[i].words = WordsOf(c, i)
    BY <2>1
  <2>3. Len(WordsOf(c, i)) = Len(WordsOf(b, i))
    BY <1>2, WordsAre
  <2>4. F = [k \in 1 .. Len(WordsOf(b, i)) |-> PatchOf(b, i, k, WordsOf(c, i)[k])]
    BY <2>2, <2>3
  <2>5. \A k \in 1 .. Len(WordsOf(b, i)) : PatchOf(b, i, k, WordsOf(c, i)[k]) = WordsOf(b, i)[k]
    BY PatchWord
  <2>6. F = [k \in 1 .. Len(WordsOf(b, i)) |-> WordsOf(b, i)[k]]
    BY <2>4, <2>5
  <2>7. F = WordsOf(b, i)
    BY <2>6, WordsAre
  <2> HIDE DEF F
  <2>8. [tab.items[i] EXCEPT !.words = F] = [kind |-> Kinds(b)[i], code |-> CodeOf(b, i), words |-> F]
    BY <2>1
  <2> QED BY <2>7, <2>8 DEF F
<1> HIDE DEF c, L
<1> QED BY <1>4, <1>5, <1>6


-----------------------------------------------------------------------------
(* What a step of the core leaves alone. *)

\* What is known while the core may run.
LEMMA CoreNow ==
    ASSUME LlmInv, Running
    PROVE  /\ w \in World /\ ntok \in Nat /\ 1 <= ntok /\ Full \in Nat /\ ntok < Full /\ Full <= MaxLen /\ MaxLen \in Nat
           /\ N \in Nat /\ N > 0 /\ N + ntok = Full /\ Telling /\ Static /\ TableIs
           /\ core \in CoreType /\ mem \in [Frame -> FrameType] /\ kv = [i \in Position |-> kv[i]]
           /\ core.cur \in Buckets \cup {-1} /\ Bucket_ \in Buckets
           /\ h.token \in Id /\ out \in Seq(Id) /\ Len(out) = ntok
<1>1. CoreRuns /\ HostInv /\ TableIs /\ CoreTypes /\ Static /\ CoreInv
  BY DEF LlmInv, CoreInv, CoreRuns
<1>2. Telling
  BY <1>1, ToldNow
<1>3. /\ w \in World /\ ntok \in Nat /\ 1 <= ntok /\ Full \in Nat /\ ntok < Full /\ Full <= MaxLen /\ MaxLen \in Nat
      /\ N \in Nat /\ N + ntok = Full /\ h.token \in Id /\ out \in Seq(Id) /\ Len(out) = ntok
  BY <1>2, TellingIs
<1>4. N > 0
  BY <1>3
<1>5. Bucket_ \in Buckets
  BY <1>1, <1>3, BucketsAre DEF Bucket_, CoreTypes
<1> QED BY <1>1, <1>2, <1>3, <1>4, <1>5 DEF CoreTypes

\* The host's variables and the schedule are not the core's.
LEMMA CoreKeeps ==
    ASSUME LlmInv, Running, UNCHANGED <<w, h, valid, sched, out, rows>>, CoreRuns'
    PROVE  LlmInv'
<1>1. HostInv'
  BY HostSame DEF LlmInv, Running
<1>2. TableInv'
  BY DEF TableInv, Recording_, Running
<1>3. CoreInv'
  BY DEF CoreInv, Running
<1> QED BY <1>1, <1>2, <1>3 DEF LlmInv

\* What is fed depends on the core's tokens only...
LEMMA FedStill ==
    ASSUME w' = w, out' = out, h'.token = h.token
    PROVE  /\ N' = N
           /\ \A n : Fed(n) = FedOf(ntok, out, h.token, tab.out, n)
           /\ \A n : Fed(n)' = FedOf(ntok, out, h.token, tab'.out, n)
<1>1. ntok' = ntok /\ N' = N
  BY WorldSame
<1> QED BY <1>1 DEF Fed, FedOf

\* ...and stays while the core finds none.
LEMMA ToldStill ==
    ASSUME w' = w, out' = out, h'.token = h.token, tab'.out = tab.out
    PROVE  \A n : Fed(n)' = Fed(n) /\ (Told(n)' <=> Told(n)) /\ (Unstopped(n)' <=> Unstopped(n))
<1>1. N' = N /\ \A n : Fed(n)' = Fed(n)
  BY FedStill
<1>2. \A n : Told(n)' <=> Told(n)
  BY <1>1 DEF Told
<1>3. \A n : Unstopped(n)' <=> Unstopped(n)
  BY DEF Unstopped
<1> QED BY <1>1, <1>2, <1>3

\* The recordings the table was made of stay.
LEMMA StaticStill ==
    ASSUME w' = w, sched' = sched, Static
    PROVE  Static'
  BY SchedSame, WorldSame DEF Static

\* The next state of the core at each of its places.
LEMMA NextStep ==
    ASSUME NEW s, NEW p, NEW c, NEW F, core'.pc = "step", core'.s = s, core'.pos = p, core'.cur = c,
           Told(s)', Fed(s)' = F, Cached(kv', F, p), core'.token = F[p + 1],
           c # -1 => Masks(mem'[tab'.buckets[c]].valid, (c + 1) * Pad, p)
    PROVE  AtStep' /\ AtItems' /\ AtOut' /\ AtDone' /\ AtOff'
<1>1. Told(core.s)' /\ Fed(core.s)' = F
  BY DEF Told, Fed
<1>2. Cached(kv, Fed(core.s), core.pos)' /\ (core.token = Fed(core.s)[core.pos + 1])'
  BY <1>1 DEF Cached
<1>3. (core.cur # -1 => MaskedTo(core.pos))'
  BY DEF MaskedTo, FrameOf, Masks
<1>4. AtStep'
  BY <1>1, <1>2, <1>3 DEF AtStep
<1> QED BY <1>4 DEF AtItems, AtOut, AtDone, AtOff

\* ...among the items of a step...
LEMMA NextItems ==
    ASSUME NEW s, NEW p, NEW c, NEW F, NEW i, NEW L, NEW f, NEW l,
           core'.pc = "items", core'.s = s, core'.pos = p, core'.cur = c, core'.item = i,
           f = tab'.buckets[c], L = Len(tab'.items), l = Logits(w.model, Prefix(F, p + 1)), w' = w,
           s < N', Told(s)', Fed(s)' = F, core'.token = F[p + 1], c = p \div Pad,
           Masks(mem'[f].valid, (c + 1) * Pad, p + 1), mem'[f].token = core'.token, mem'[f].pos = p,
           i \in 1 .. L + 1, Cached(kv', F, p),
           i > 1 => Cached(kv', F, p + 1) /\ mem'[f].logits = l,
           i > L => mem'[f].bmax = Maxima(l)
    PROVE  AtStep' /\ AtItems' /\ AtOut' /\ AtDone' /\ AtOff'
<1>1. Told(core.s)' /\ Fed(core.s)' = F
  BY DEF Told, Fed
<1>2. Cached(kv, Fed(core.s), core.pos)' /\ (core.token = Fed(core.s)[core.pos + 1])'
  BY <1>1 DEF Cached
<1>3. FrameOf' = f
  BY DEF FrameOf
<1>4. MaskedTo(core.pos + 1)'
  BY DEF MaskedTo, FrameOf, Masks
<1>5. StepIs' = l
  BY <1>1 DEF StepIs, Prefix
<1>6. (core.item > 1 => Cached(kv, Fed(core.s), core.pos + 1) /\ mem[FrameOf].logits = StepIs)'
  BY <1>1, <1>3, <1>5 DEF Cached
<1>7. (core.item > Len(tab.items) => mem[FrameOf].bmax = Maxima(StepIs))'
  BY <1>3, <1>5 DEF Maxima, MaxOf
<1>8. AtItems'
  BY <1>1, <1>2, <1>3, <1>4, <1>6, <1>7 DEF AtItems
<1> QED BY <1>8 DEF AtStep, AtOut, AtDone, AtOff


\* ...with a token found...
LEMMA NextOut ==
    ASSUME NEW s, NEW p, NEW c, NEW F, core'.pc = "out", core'.s = s, core'.pos = p, core'.cur = c, c # -1,
           w' = w, s < N', Told(s)', Fed(s)' = F, Choice(w, F, core'.token),
           Masks(mem'[tab'.buckets[c]].valid, (c + 1) * Pad, p + 1), Cached(kv', F, p + 1)
    PROVE  AtStep' /\ AtItems' /\ AtOut' /\ AtDone' /\ AtOff'
<1>1. Told(core.s)' /\ Fed(core.s)' = F
  BY DEF Told, Fed
<1>2. Cached(kv, Fed(core.s), core.pos + 1)'
  BY <1>1 DEF Cached
<1>3. MaskedTo(core.pos + 1)'
  BY DEF MaskedTo, FrameOf, Masks
<1>4. Choice(w, Fed(core.s), core.token)'
  BY <1>1 DEF Choice, Goes, Largest, Argmax, Prefix, Value
<1>5. AtOut'
  BY <1>1, <1>2, <1>3, <1>4 DEF AtOut
<1> QED BY <1>5 DEF AtStep, AtItems, AtDone, AtOff

\* ...with the token told...
LEMMA NextDone ==
    ASSUME NEW s, NEW p, NEW c, NEW F, core'.pc = "done", core'.s = s, core'.pos = p, core'.cur = c, c # -1,
           s < N', Told(s + 1)', Fed(s + 1)' = F, core'.token = tab'.out[s + 1],
           Masks(mem'[tab'.buckets[c]].valid, (c + 1) * Pad, p + 1), Cached(kv', F, p + 1)
    PROVE  AtStep' /\ AtItems' /\ AtOut' /\ AtDone' /\ AtOff'
<1>1. Told(core.s + 1)' /\ Fed(core.s + 1)' = F
  BY DEF Told, Fed
<1>2. Cached(kv, Fed(core.s + 1), core.pos + 1)'
  BY <1>1 DEF Cached
<1>3. MaskedTo(core.pos + 1)'
  BY DEF MaskedTo, FrameOf, Masks
<1>5. AtDone'
  BY <1>1, <1>2, <1>3 DEF AtDone
<1> QED BY <1>5 DEF AtStep, AtItems, AtOut, AtOff

\* ...and when it stops.
LEMMA NextOff ==
    ASSUME NEW d, core'.pc = "off", tab'.done = d, Told(d)', Unstopped(d - 1)',
           tab'.status = "ok" => d > 0 /\ (d = N' \/ tab'.out[d] = w'.stop)
    PROVE  AtStep' /\ AtItems' /\ AtOut' /\ AtDone' /\ AtOff'
<1>1. Told(tab.done)'
  BY DEF Told, Fed
<1>2. Unstopped(tab.done - 1)'
  BY DEF Unstopped
<1>5. AtOff'
  BY <1>1, <1>2 DEF AtOff
<1> QED BY <1>5 DEF AtStep, AtItems, AtOut, AtDone

\* The table but for what the core writes.
TabOf(i, o, d, s) ==
    [items |-> i, words |-> Diff(sched), b0 |-> sched.b0, nb |-> sched.nb, r5 |-> w.r5,
     buckets |-> [b \in Buckets |-> w.frames[2][b]], values |-> Table(sched, w.r5).values,
     pos |-> ntok, steps |-> N, token |-> h.token, stop |-> w.stop, out |-> o, done |-> d, status |-> s]

\* The table's fields, and the updates the core makes to them.
LEMMA TabIs ==
    ASSUME TableIs
    PROVE  /\ tab = TabOf(tab.items, tab.out, tab.done, tab.status)
           /\ tab.steps = N /\ tab.stop = w.stop /\ tab.b0 = sched.b0 /\ tab.nb = sched.nb
           /\ tab.buckets = [b \in Buckets |-> w.frames[2][b]]
           /\ \A x : /\ [tab EXCEPT !.items = x] = TabOf(x, tab.out, tab.done, tab.status)
                     /\ [tab EXCEPT !.out = x] = TabOf(tab.items, x, tab.done, tab.status)
                     /\ [tab EXCEPT !.status = x] = TabOf(tab.items, tab.out, tab.done, x)
                     /\ \A d : [tab EXCEPT !.done = d, !.status = x] = TabOf(tab.items, tab.out, d, x)
<1> DEFINE D == Diff(sched)
           B == [b \in Buckets |-> w.frames[2][b]]
           V == Table(sched, w.r5).values
<1>1. tab = [items |-> tab.items, words |-> D, b0 |-> sched.b0, nb |-> sched.nb, r5 |-> w.r5,
             buckets |-> B, values |-> V, pos |-> ntok, steps |-> N, token |-> h.token, stop |-> w.stop,
             out |-> tab.out, done |-> tab.done, status |-> tab.status]
  BY Zenon DEF TableIs
<1>2. \A i, o, d, s : TabOf(i, o, d, s) =
        [items |-> i, words |-> D, b0 |-> sched.b0, nb |-> sched.nb, r5 |-> w.r5,
         buckets |-> B, values |-> V, pos |-> ntok, steps |-> N, token |-> h.token, stop |-> w.stop,
         out |-> o, done |-> d, status |-> s]
  BY Zenon DEF TabOf
<1> HIDE DEF D, B, V
<1>3. tab = TabOf(tab.items, tab.out, tab.done, tab.status)
  BY <1>1, <1>2, Zenon
<1>4. PICK i, o, d, s : tab = [items |-> i, words |-> D, b0 |-> sched.b0, nb |-> sched.nb, r5 |-> w.r5,
             buckets |-> B, values |-> V, pos |-> ntok, steps |-> N, token |-> h.token, stop |-> w.stop,
             out |-> o, done |-> d, status |-> s]
  BY <1>1, Zenon
<1>5. tab.items = i /\ tab.out = o /\ tab.done = d /\ tab.status = s
  BY <1>4
<1>6. tab.steps = N /\ tab.stop = w.stop /\ tab.b0 = sched.b0 /\ tab.nb = sched.nb /\ tab.buckets = B
  BY <1>4
<1>7. ASSUME NEW x
      PROVE  /\ [tab EXCEPT !.items = x] = TabOf(x, o, d, s)
             /\ [tab EXCEPT !.out = x] = TabOf(i, x, d, s)
             /\ [tab EXCEPT !.status = x] = TabOf(i, o, d, x)
             /\ \A e : [tab EXCEPT !.done = e, !.status = x] = TabOf(i, o, e, x)
  <2>1. [tab EXCEPT !.items = x] = TabOf(x, o, d, s)
    <3>1. [tab EXCEPT !.items = x] =
             [items |-> x, words |-> D, b0 |-> sched.b0, nb |-> sched.nb, r5 |-> w.r5,
              buckets |-> B, values |-> V, pos |-> ntok, steps |-> N, token |-> h.token, stop |-> w.stop,
              out |-> o, done |-> d, status |-> s]
      BY <1>4
    <3> QED BY <1>2, <3>1, Zenon
  <2>2. [tab EXCEPT !.out = x] = TabOf(i, x, d, s)
    <3>1. [tab EXCEPT !.out = x] =
             [items |-> i, words |-> D, b0 |-> sched.b0, nb |-> sched.nb, r5 |-> w.r5,
              buckets |-> B, values |-> V, pos |-> ntok, steps |-> N, token |-> h.token, stop |-> w.stop,
              out |-> x, done |-> d, status |-> s]
      BY <1>4
    <3> QED BY <1>2, <3>1, Zenon
  <2>3. [tab EXCEPT !.status = x] = TabOf(i, o, d, x)
    <3>1. [tab EXCEPT !.status = x] =
             [items |-> i, words |-> D, b0 |-> sched.b0, nb |-> sched.nb, r5 |-> w.r5,
              buckets |-> B, values |-> V, pos |-> ntok, steps |-> N, token |-> h.token, stop |-> w.stop,
              out |-> o, done |-> d, status |-> x]
      BY <1>4
    <3> QED BY <1>2, <3>1, Zenon
  <2>4. ASSUME NEW e PROVE [tab EXCEPT !.done = e, !.status = x] = TabOf(i, o, e, x)
    <3> DEFINE u == [tab EXCEPT !.done = e]
    <3>1. u = [items |-> i, words |-> D, b0 |-> sched.b0, nb |-> sched.nb, r5 |-> w.r5,
              buckets |-> B, values |-> V, pos |-> ntok, steps |-> N, token |-> h.token, stop |-> w.stop,
              out |-> o, done |-> e, status |-> s]
      BY <1>4
    <3>2. [tab EXCEPT !.done = e, !.status = x] = [u EXCEPT !.status = x]
      OBVIOUS
    <3> HIDE DEF u
    <3>3. [u EXCEPT !.status = x] =
             [items |-> i, words |-> D, b0 |-> sched.b0, nb |-> sched.nb, r5 |-> w.r5,
              buckets |-> B, values |-> V, pos |-> ntok, steps |-> N, token |-> h.token, stop |-> w.stop,
              out |-> o, done |-> e, status |-> x]
      BY <3>1
    <3> QED BY <1>2, <3>2, <3>3, Zenon
  <2> QED BY <2>1, <2>2, <2>3, <2>4
<1> QED BY <1>3, <1>5, <1>6, <1>7 DEF B


\* The table stays one of the recordings as long as its items are those of the
\* core's bucket.
LEMMA TableKept ==
    ASSUME w' = w, sched' = sched, h'.token = h.token,
           NEW i, NEW o \in [1 .. N -> Id], NEW d \in Nat, NEW s, tab' = TabOf(i, o, d, s),
           \A b \in Buckets : b = Bucket_' => i = ItemsOf(b)
    PROVE  /\ TableIs' /\ tab'.items = i /\ tab'.out = o /\ tab'.done = d /\ tab'.status = s
           /\ tab'.buckets = [b \in Buckets |-> w.frames[2][b]]
<1> DEFINE D == Diff(sched)
           B == [b \in Buckets |-> w.frames[2][b]]
           V == Table(sched, w.r5).values
<1>1. tab' = [items |-> i, words |-> D, b0 |-> sched.b0, nb |-> sched.nb, r5 |-> w.r5,
              buckets |-> B, values |-> V, pos |-> ntok, steps |-> N, token |-> h.token, stop |-> w.stop,
              out |-> o, done |-> d, status |-> s]
  BY Zenon DEF TabOf
<1> HIDE DEF D, B, V
<1>2. tab'.items = i /\ tab'.out = o /\ tab'.done = d /\ tab'.status = s
  BY <1>1
<1>10. tab'.buckets = B
  BY <1>1
<1>3. tab' = [items |-> tab'.items, words |-> D, b0 |-> sched.b0, nb |-> sched.nb, r5 |-> w.r5,
              buckets |-> B, values |-> V, pos |-> ntok, steps |-> N, token |-> h.token, stop |-> w.stop,
              out |-> tab'.out, done |-> tab'.done, status |-> tab'.status]
  BY <1>1, <1>2, Zenon
<1>4. tab' = [items |-> tab'.items, words |-> Diff(sched), b0 |-> sched.b0, nb |-> sched.nb, r5 |-> w.r5,
              buckets |-> [b \in Buckets |-> w.frames[2][b]], values |-> Table(sched, w.r5).values,
              pos |-> ntok, steps |-> N, token |-> h.token, stop |-> w.stop,
              out |-> tab'.out, done |-> tab'.done, status |-> tab'.status]
  BY <1>3 DEF D, B, V
<1>5. N' = N /\ Buckets' = Buckets /\ ntok' = ntok /\ \A b : ItemsOf(b)' = ItemsOf(b)
  BY WorldSame
<1>6. (tab = [items |-> tab.items, words |-> Diff(sched), b0 |-> sched.b0, nb |-> sched.nb, r5 |-> w.r5,
              buckets |-> [b \in Buckets |-> w.frames[2][b]], values |-> Table(sched, w.r5).values,
              pos |-> ntok, steps |-> N, token |-> h.token, stop |-> w.stop,
              out |-> tab.out, done |-> tab.done, status |-> tab.status])'
  BY <1>4, <1>5, SchedSame
<1>7. (tab.out \in [1 .. N -> Id] /\ tab.done \in Nat)'
  BY <1>2, <1>5
<1>8. (\A b \in Buckets : b = Bucket_ => tab.items = ItemsOf(b))'
  BY <1>2, <1>5
<1>9. TableIs'
  BY <1>6, <1>7, <1>8 DEF TableIs
<1> QED BY <1>2, <1>9, <1>10 DEF B

\* The count the host has read stays behind the core's.
LEMMA ReadStill ==
    ASSUME LlmInv, Running, core.pc # "off", h' = h, NEW d \in Nat, tab'.done = d, tab.done <= d
    PROVE  HostReads'
<1>1. HostReads /\ tab.done \in Nat /\ h \in HostType
  BY DEF LlmInv, CoreInv, CoreRuns, TableIs, HostInv
<1>2. CASE h.pc = "read"
  <2>1. h.done <= tab.done /\ h.status # "ok" /\ h.done \in Nat
    BY <1>1, <1>2 DEF HostReads, HostType
  <2> DEFINE x == h.done
             y == tab.done
  <2>2. x \in Nat /\ y \in Nat /\ x <= y /\ y <= d
    BY <1>1, <2>1
  <2> HIDE DEF x, y
  <2>3. x <= d
    BY <2>2
  <2> QED BY <2>1, <2>3 DEF HostReads, x
<1>3. CASE h.pc # "read"
  BY <1>3 DEF HostReads
<1> QED BY <1>2, <1>3


\* The count of the steps is the core's.
LEMMA NextCounted ==
    ASSUME NEW s, w' = w,
           core'.pc # "off" => core'.s = s /\ core'.pos = ntok + s /\ tab'.done = s /\ tab'.status = "none" /\ Unstopped(s)'
    PROVE  Counted'
<1>1. ntok' = ntok
  BY WorldSame
<1>2. CASE core'.pc = "off"
  BY <1>2 DEF Counted
<1>3. CASE core'.pc # "off"
  <2>1. Unstopped(core.s)'
    BY <1>3 DEF Unstopped
  <2> QED BY <1>1, <1>3, <2>1 DEF Counted
<1> QED BY <1>2, <1>3

\* A step of the core that keeps its part keeps the invariant.
LEMMA NextCore ==
    ASSUME LlmInv, Running, core.pc # "off", UNCHANGED <<w, h, valid, sched, out, rows>>,
           TableIs', AtStep' /\ AtItems' /\ AtOut' /\ AtDone' /\ AtOff', Counted',
           core' \in CoreType, mem' \in [Frame -> FrameType], kv' = [i \in Position |-> kv'[i]],
           core'.cur \in Buckets \cup {-1}, NEW d \in Nat, tab'.done = d, tab.done <= d
    PROVE  LlmInv'
<1>1. Static'
  BY CoreNow, StaticStill
<1>2. HostReads'
  BY ReadStill
<1>3. Buckets' = Buckets
  BY WorldSame
<1>4. CoreTypes'
  <2>1. (core.cur \in Buckets \cup {-1})'
    BY <1>3
  <2> QED BY <2>1 DEF CoreTypes
<1>5. CoreRuns'
  BY <1>1, <1>2, <1>4 DEF CoreRuns
<1> QED BY <1>5, CoreKeeps

\* The core stops, having told the tokens it counted.
LEMMA FinishInv ==
    ASSUME LlmInv, Running, core.pc \in {"step", "items"}, UNCHANGED <<w, h, valid, sched, out, rows, mem, kv>>,
           NEW st, tab' = [tab EXCEPT !.status = st], core' = [core EXCEPT !.pc = "off"],
           st = "ok" => tab.done > 0 /\ tab.done = N
    PROVE  LlmInv'
<1>1. /\ TableIs /\ core \in CoreType /\ mem \in [Frame -> FrameType] /\ kv = [i \in Position |-> kv[i]]
      /\ core.cur \in Buckets \cup {-1} /\ Bucket_ \in Buckets /\ Telling
  BY CoreNow
<1>2. tab.done \in Nat /\ tab.out \in [1 .. N -> Id] /\ \A b \in Buckets : b = Bucket_ => tab.items = ItemsOf(b)
  BY <1>1 DEF TableIs
<1>3. Counted /\ HostInv /\ CoreInv
  BY DEF LlmInv, CoreInv, CoreRuns
<1>4. Told(tab.done) /\ Unstopped(tab.done - 1)
  BY <1>3, ToldNow
<1>5. core' \in CoreType /\ core'.pc = "off" /\ core'.cur = core.cur
  BY <1>1 DEF CoreType
<1>6. FirstBucket' = FirstBucket /\ Bucket_' = Bucket_ /\ N' = N
  BY <1>5, WorldSame DEF Bucket_
<1>7. tab' = TabOf(tab.items, tab.out, tab.done, st)
  BY <1>1, TabIs
<1>14. PICK d, i, o : d = tab.done /\ i = tab.items /\ o = tab.out
  OBVIOUS
<1>8. TableIs' /\ tab'.items = i /\ tab'.out = o /\ tab'.done = d /\ tab'.status = st
      /\ tab'.buckets = [b \in Buckets |-> w.frames[2][b]]
  <2>1. \A b \in Buckets : b = Bucket_' => i = ItemsOf(b)
    BY <1>2, <1>6, <1>14
  <2>2. o \in [1 .. N -> Id] /\ d \in Nat /\ tab' = TabOf(i, o, d, st) /\ h'.token = h.token
    BY <1>2, <1>7, <1>14
  <2> QED BY <2>1, <2>2, TableKept, SMTT(30)
<1>9. Told(d)' /\ Unstopped(d - 1)'
  <2>1. Told(d) /\ Unstopped(d - 1) /\ h'.token = h.token /\ tab'.out = tab.out
    BY <1>4, <1>8, <1>14
  <2> QED BY <2>1, ToldStill
<1>10. AtStep' /\ AtItems' /\ AtOut' /\ AtDone' /\ AtOff'
  <2>1. tab'.status = "ok" => d > 0 /\ (d = N' \/ tab'.out[d] = w'.stop)
    BY <1>6, <1>8, <1>14
  <2> QED BY <1>5, <1>8, <1>9, <2>1, NextOff
<1>11. Counted'
  BY <1>5 DEF Counted
<1>12. d \in Nat /\ tab.done <= d
  BY <1>2, <1>14
<1>13. mem' \in [Frame -> FrameType] /\ kv' = [x \in Position |-> kv'[x]] /\ core'.cur \in Buckets \cup {-1} /\ core.pc # "off"
  BY <1>1, <1>5
<1> QED BY <1>5, <1>8, <1>10, <1>11, <1>12, <1>13, NextCore


-----------------------------------------------------------------------------
(* The steps of the core. *)

\* The mask after a step's inputs are written: the positions up to the step's.
LEMMA NewMaskIs ==
    ASSUME NEW b \in Nat, NEW old \in [Position -> {0, 1}], core.pos \in Position,
           b = core.cur => Masks(old, (b + 1) * Pad, core.pos)
    PROVE  /\ NewMask(old, b) \in [Position -> {0, 1}]
           /\ Masks(NewMask(old, b), (b + 1) * Pad, core.pos + 1)
<1> DEFINE n == core.pos
           len == (b + 1) * Pad
<1>1. n \in Position /\ n \in Nat /\ \A i \in Position : i \in Nat
  BY Sizes DEF Position
<1> HIDE DEF n, len
<1>2. CASE b # core.cur
  <2>1. NewMask(old, b) = Masked(old, len, n)
    BY <1>2 DEF NewMask, n, len
  <2>2. Masked(old, len, n) \in [Position -> {0, 1}]
    BY DEF Masked, Upto
  <2>3. \A i \in Position : i < len => Masked(old, len, n)[i] = (IF i <= n THEN 1 ELSE 0)
    BY DEF Masked, Upto
  <2>4. \A i \in Position : i < len => (Masked(old, len, n)[i] = 1 <=> i < n + 1)
    BY <1>1, <2>3
  <2> QED BY <2>1, <2>2, <2>4 DEF Masks, n, len
<1>3. CASE b = core.cur
  <2>1. NewMask(old, b) = [old EXCEPT ![n] = 1]
    BY <1>3 DEF NewMask, n
  <2>2. \A i \in Position : i < len => (old[i] = 1 <=> i < n)
    BY <1>3 DEF Masks, n, len
  <2>3. \A i \in Position : i < len => ([old EXCEPT ![n] = 1][i] = 1 <=> i < n + 1)
    BY <1>1, <2>2
  <2> QED BY <2>1, <2>3, <1>1 DEF Masks, n, len
<1> QED BY <1>2, <1>3

\* Where the core is in the sequence while it has a step to run.
LEMMA CorePos ==
    ASSUME LlmInv, Running, core.pc # "off", core.s < N
    PROVE  /\ core.s \in Nat /\ core.pos \in Nat /\ core.pos = ntok + core.s /\ core.pos < Full /\ core.pos \in Position
           /\ core.pos \div Pad \in Buckets /\ core.pos \div Pad \in Nat
<1> DEFINE s == core.s
           p == core.pos
           x == ntok
<1>1. s \in Nat /\ p \in Nat
  BY CoreNow DEF CoreType
<1>2. p = x + s
  BY DEF LlmInv, CoreInv, CoreRuns, Counted
<1>3. x \in Nat /\ Full \in Nat /\ x < Full /\ Full <= MaxLen /\ MaxLen \in Nat /\ N \in Nat /\ N + x = Full /\ w \in World
  BY CoreNow
<1> HIDE DEF s, p, x
<1>4. s < N
  BY DEF s
<1>5. p < Full /\ p \in x .. Full - 1 /\ p \in 0 .. MaxLen - 1
  BY <1>1, <1>2, <1>3, <1>4
<1>6. p \div Pad \in Buckets
  BY <1>3, <1>5, BucketsAre DEF x
<1>7. p \div Pad \in Nat
  BY <1>1, DivIs
<1> QED BY <1>1, <1>2, <1>5, <1>6, <1>7 DEF s, p, x, Position

\* The frame of a bucket.
LEMMA FrameIs ==
    ASSUME LlmInv, Running, NEW b \in Buckets
    PROVE  tab.buckets[b] = w.frames[2][b] /\ tab.buckets[b] \in Frame
<1>1. tab.buckets[b] = w.frames[2][b]
  BY CoreNow, TabIs
<1>2. w \in World /\ ntok < Full
  BY CoreNow
<1>3. b \in 0 .. MaxLen \div Pad - 1
  BY <1>2, BucketsAre
<1> DEFINE B == 0 .. MaxLen \div Pad - 1
<1>4. w.frames \in [1 .. 3 -> [B -> Frame]] /\ b \in B
  BY <1>2, <1>3, WorldAssumption DEF IsWorld
<1> HIDE DEF B
<1>5. 2 \in 1 .. 3
  OBVIOUS
<1>6. w.frames[2] \in [B -> Frame]
  BY <1>4, <1>5
<1>7. w.frames[2][b] \in Frame
  BY <1>4, <1>6
<1> QED BY <1>1, <1>7


\* A step's inputs are written, and its items patched.
Entering(b, f) ==
    /\ tab' = IF b # core.cur THEN [tab EXCEPT !.items = Patched(b)] ELSE tab
    /\ mem' = [mem EXCEPT ![f].valid = NewMask(@, b), ![f].token = core.token, ![f].pos = core.pos]
    /\ core' = [core EXCEPT !.cur = b, !.item = 1, !.pc = "items"]

\* The core enters a step: its frame has the token, the position and the mask
\* of the step.
LEMMA StepBegins ==
    ASSUME LlmInv, Running, core.pc = "step", core.s < N, UNCHANGED <<w, h, valid, sched, out, rows, kv>>,
           NEW b, b = core.pos \div Pad, NEW f, f = tab.buckets[b], Entering(b, f)
    PROVE  LlmInv'
<1>1. /\ TableIs /\ core \in CoreType /\ mem \in [Frame -> FrameType] /\ kv = [i \in Position |-> kv[i]]
      /\ core.cur \in Buckets \cup {-1} /\ Bucket_ \in Buckets /\ Telling /\ Static
      /\ w \in World /\ ntok < Full /\ N \in Nat
  BY CoreNow
<1>2. b \in Buckets /\ b \in Nat /\ core.pos \in Nat /\ core.pos \in Position /\ core.s \in Nat /\ core.pos = ntok + core.s
  BY CorePos
<1>3. f \in Frame /\ mem[f] \in FrameType /\ core.token \in Id
  BY <1>1, <1>2, FrameIs DEF CoreType
<1>4. AtStep /\ Counted
  BY DEF LlmInv, CoreInv, CoreRuns
<1>5. /\ core.cur # -1 => MaskedTo(core.pos)
      /\ Told(core.s) /\ Cached(kv, Fed(core.s), core.pos) /\ core.token = Fed(core.s)[core.pos + 1]
  BY <1>4 DEF AtStep
<1>6. b = core.cur => Masks(mem[f].valid, (b + 1) * Pad, core.pos)
  <2> HAVE b = core.cur
  <2>1. core.cur # -1
    BY <1>2
  <2>2. FrameOf = f
    BY DEF FrameOf
  <2> QED BY <2>1, <2>2, <1>5 DEF MaskedTo
<1>7. mem[f].valid \in [Position -> {0, 1}]
  BY <1>3 DEF FrameType
<1>8. NewMask(mem[f].valid, b) \in [Position -> {0, 1}] /\ Masks(NewMask(mem[f].valid, b), (b + 1) * Pad, core.pos + 1)
  BY <1>2, <1>6, <1>7, NewMaskIs
<1> DEFINE v == NewMask(mem[f].valid, b)
<1>9. mem' = [mem EXCEPT ![f] = [mem[f] EXCEPT !.valid = v, !.token = core.token, !.pos = core.pos]]
  BY DEF Entering, v
<1> HIDE DEF v
<1>10. [mem[f] EXCEPT !.valid = v, !.token = core.token, !.pos = core.pos] \in FrameType
  BY <1>2, <1>3, <1>8 DEF FrameType, v
<1>11. /\ mem' \in [Frame -> FrameType] /\ mem'[f].valid = v /\ mem'[f].token = core.token /\ mem'[f].pos = core.pos
  <2> DEFINE r == [mem[f] EXCEPT !.valid = v, !.token = core.token, !.pos = core.pos]
  <2>1. r.valid = v /\ r.token = core.token /\ r.pos = core.pos
    BY <1>3 DEF FrameType
  <2>2. mem' = [mem EXCEPT ![f] = r] /\ r \in FrameType
    BY <1>9, <1>10
  <2> HIDE DEF r
  <2>3. mem' \in [Frame -> FrameType] /\ mem'[f] = r
    BY <2>2, <1>1, <1>3
  <2> QED BY <2>1, <2>3
<1>12. /\ core'.pc = "items" /\ core'.s = core.s /\ core'.pos = core.pos /\ core'.cur = b /\ core'.item = 1
       /\ core'.token = core.token /\ core' \in CoreType
  <2>1. core' = [core EXCEPT !.cur = b, !.item = 1, !.pc = "items"]
    BY Zenon DEF Entering
  <2>2. b \in Int
    BY <1>2
  <2> QED BY <2>1, <2>2, <1>1 DEF CoreType
<1>13. Bucket_' = b
  BY <1>2, <1>12 DEF Bucket_
<1>14. tab' = TabOf(ItemsOf(b), tab.out, tab.done, tab.status)
  <2>1. CASE b # core.cur
    BY <2>1, <1>1, <1>2, PatchedIs, TabIs DEF Entering
  <2>2. CASE b = core.cur
    <3>1. Bucket_ = b
      BY <2>2, <1>2 DEF Bucket_
    <3>2. tab.items = ItemsOf(b)
      BY <3>1, <1>1, <1>2 DEF TableIs
    <3> QED BY <2>2, <3>2, <1>1, TabIs DEF Entering
  <2> QED BY <2>1, <2>2
<1>15. tab.out \in [1 .. N -> Id] /\ tab.done \in Nat /\ tab.done = core.s /\ tab.status = "none" /\ Unstopped(core.s)
  BY <1>1, <1>4 DEF TableIs, Counted
<1>16. PICK i, o, d, s, p, F, l : /\ i = ItemsOf(b) /\ o = tab.out /\ d = tab.done /\ s = core.s /\ p = core.pos
                                 /\ F = Fed(core.s) /\ l = Logits(w.model, Prefix(F, p + 1))
  OBVIOUS
<1>17. TableIs' /\ tab'.items = i /\ tab'.out = o /\ tab'.done = d /\ tab'.status = "none"
       /\ tab'.buckets = [c \in Buckets |-> w.frames[2][c]]
  <2>1. tab' = TabOf(i, o, d, "none") /\ o \in [1 .. N -> Id] /\ d \in Nat /\ h'.token = h.token
    BY <1>14, <1>15, <1>16
  <2>2. \A c \in Buckets : c = Bucket_' => i = ItemsOf(c)
    BY <1>13, <1>16
  <2> QED BY <2>1, <2>2, TableKept
<1>18. N' = N /\ Told(s)' /\ Fed(s)' = F /\ Unstopped(s)'
  <2>1. tab'.out = tab.out /\ h'.token = h.token
    BY <1>16, <1>17
  <2>2. Told(s) /\ Fed(s) = F /\ Unstopped(s)
    BY <1>5, <1>15, <1>16
  <2> QED BY <2>1, <2>2, ToldStill, WorldSame
<1>19. Len(tab'.items) \in Nat /\ Len(tab'.items) >= 1
  BY <1>16, <1>17, ItemsAre, KindsAre
<1>20. tab'.buckets = tab.buckets
  BY <1>1, <1>17, TabIs
<1>21. AtStep' /\ AtItems' /\ AtOut' /\ AtDone' /\ AtOff'
  <2> DEFINE L == Len(tab'.items)
  <2>1. PICK m : m = L
    OBVIOUS
  <2>2. 1 \in 1 .. m + 1 /\ ~(1 > m)
    BY <1>19, <2>1
  <2>3. f = tab'.buckets[b]
    BY <1>20
  <2>4. core'.s = s /\ core'.pos = p /\ s < N' /\ core'.token = F[p + 1] /\ b = p \div Pad /\ Cached(kv', F, p)
    BY <1>5, <1>12, <1>16, <1>18
  <2>5. Masks(mem'[f].valid, (b + 1) * Pad, p + 1) /\ mem'[f].token = core'.token /\ mem'[f].pos = p
    BY <1>8, <1>11, <1>12, <1>16 DEF v
  <2>6. ~(1 > 1)
    OBVIOUS
  <2> HIDE DEF L
  <2> QED BY <1>12, <1>16, <1>18, <2>1, <2>2, <2>3, <2>4, <2>5, <2>6, NextItems DEF L
<1>22. Counted'
  BY <1>2, <1>12, <1>15, <1>16, <1>17, <1>18, NextCounted
<1>23. core'.cur \in Buckets \cup {-1} /\ kv' = [x \in Position |-> kv'[x]] /\ core.pc # "off" /\ d \in Nat /\ tab.done <= d
  BY <1>1, <1>2, <1>12, <1>15, <1>16
<1> QED BY <1>11, <1>12, <1>17, <1>21, <1>22, <1>23, NextCore


\* The top of the loop: stop at the end, or patch where the bucket changes and
\* enter the step.
LEMMA CoreStepInv ==
    ASSUME LlmInv, Running, UNCHANGED <<w, h, valid, sched, out, rows>>, CoreStep
    PROVE  LlmInv'
<1>1. core.pc = "step" /\ kv' = kv
  BY DEF CoreStep
<1>2. tab.steps = N /\ tab.b0 = sched.b0 /\ tab.nb = sched.nb /\ N > 0 /\ N \in Nat
  BY CoreNow, TabIs
<1>3. Told(core.s) /\ tab.done = core.s
  BY <1>1 DEF LlmInv, CoreInv, CoreRuns, AtStep, Counted
<1>4. CASE core.s = tab.steps
  <2>1. Finish("ok") /\ mem' = mem
    BY <1>4 DEF CoreStep
  <2>2. tab.done > 0 /\ tab.done = N
    BY <1>2, <1>3, <1>4
  <2> QED BY <1>1, <2>1, <2>2, FinishInv DEF Finish
<1>5. CASE core.s # tab.steps
  <2>1. core.s < N
    BY <1>2, <1>3, <1>5 DEF Told
  <2>2. core.pos \div Pad \in Buckets
    BY <1>1, <2>1, CorePos
  <2>3. tab.b0 .. tab.b0 + tab.nb - 1 = Buckets
    <3>1. IsSched
      BY CoreNow DEF Static
    <3>2. sched.b0 = FirstBucket /\ sched.nb = (Full - 1) \div Pad - FirstBucket + 1
      BY <3>1 DEF IsSched
    <3> DEFINE e == (Full - 1) \div Pad
    <3>3. sched.b0 + sched.nb - 1 = e
      <4>1. e \in Nat /\ FirstBucket \in Nat /\ sched.b0 = FirstBucket /\ sched.nb = e - FirstBucket + 1
        BY <3>2, CoreNow, BucketsAre
      <4> HIDE DEF e
      <4> QED BY <4>1
    <3> QED BY <1>2, <3>2, <3>3 DEF Buckets
  <2> DEFINE b == core.pos \div Pad
             f == tab.buckets[b]
  <2>4. Entering(b, f)
    BY <1>5, <2>2, <2>3 DEF CoreStep, Entering
  <2>5. PICK c, g : c = b /\ g = f
    OBVIOUS
  <2> HIDE DEF b, f
  <2>6. Entering(c, g)
    BY <2>4, <2>5 DEF Entering
  <2>7. c = core.pos \div Pad /\ g = tab.buckets[c]
    BY <2>5 DEF b, f
  <2> QED BY <1>1, <2>1, <2>6, <2>7, StepBegins
<1> QED BY <1>4, <1>5

-----------------------------------------------------------------------------
(* The items of a step. *)

\* The loop's variables while a step runs, and what is so of them.
Named(b, f, L, s, p, i, F, l) ==
    /\ b = core.cur /\ f = FrameOf /\ L = Len(tab.items) /\ s = core.s /\ p = core.pos /\ i = core.item
    /\ F = Fed(s) /\ l = Logits(w.model, Prefix(F, p + 1))
AtRun(b, f, L, s, p, i, F, l) ==
    /\ b \in Buckets /\ b \in Nat /\ f \in Frame /\ mem[f] \in FrameType /\ w.frames[2][b] = f
    /\ f = tab.buckets[b] /\ tab.items = ItemsOf(b) /\ L = Len(Kinds(b)) /\ L \in {2, 3}
    /\ s \in Nat /\ s < N /\ p \in Nat /\ p \in Position /\ p = ntok + s /\ b = p \div Pad
    /\ Told(s) /\ core.token = F[p + 1] /\ mem[f].token = core.token /\ mem[f].pos = p
    /\ Masks(mem[f].valid, (b + 1) * Pad, p + 1) /\ i \in 1 .. L + 1 /\ Cached(kv, F, p)
    /\ i > 1 => Cached(kv, F, p + 1) /\ mem[f].logits = l
    /\ i > L => mem[f].bmax = Maxima(l)
    /\ tab.out \in [1 .. N -> Id] /\ tab.done = s /\ tab.status = "none" /\ Unstopped(s)
    /\ F \in Seq(Id) /\ Len(F) = p + 1 /\ l \in Floats /\ core.token \in Id

\* The words of an item are those of the core's own bucket.
LEMMA StepRuns ==
    ASSUME LlmInv, Running, core.pc = "items", NEW b, NEW f, NEW L, NEW s, NEW p, NEW i, NEW F, NEW l,
           Named(b, f, L, s, p, i, F, l)
    PROVE  AtRun(b, f, L, s, p, i, F, l)
<1>18. /\ b = core.cur /\ f = FrameOf /\ L = Len(tab.items) /\ s = core.s /\ p = core.pos /\ i = core.item
       /\ F = Fed(s) /\ l = Logits(w.model, Prefix(F, p + 1))
  BY DEF Named
<1>1. AtItems /\ Counted /\ TableIs
  BY DEF LlmInv, CoreInv, CoreRuns
<1>2. /\ core.s < N /\ Told(core.s) /\ core.token = Fed(core.s)[core.pos + 1]
      /\ core.cur = core.pos \div Pad /\ MaskedTo(core.pos + 1)
      /\ mem[FrameOf].token = core.token /\ mem[FrameOf].pos = core.pos
      /\ core.item \in 1 .. Len(tab.items) + 1
      /\ Cached(kv, Fed(core.s), core.pos)
      /\ core.item > 1 => Cached(kv, Fed(core.s), core.pos + 1) /\ mem[FrameOf].logits = StepIs
      /\ core.item > Len(tab.items) => mem[FrameOf].bmax = Maxima(StepIs)
  BY <1>1 DEF AtItems
<1>3. StepIs = l
  BY <1>18 DEF StepIs
<1>4. /\ core.s \in Nat /\ core.pos \in Nat /\ core.pos = ntok + core.s /\ core.pos \in Position /\ core.pos < Full
      /\ core.pos \div Pad \in Buckets /\ core.pos \div Pad \in Nat
  BY <1>2, CorePos
<1>5. b \in Buckets /\ b \in Nat /\ f = tab.buckets[b]
  BY <1>18, <1>2, <1>4 DEF FrameOf
<1>6. f \in Frame /\ w.frames[2][b] = f
  BY <1>5, FrameIs
<1>7. mem[f] \in FrameType
  BY <1>6, CoreNow
<1>8. tab.items = ItemsOf(b)
  <2>1. Bucket_ = b
    BY <1>5, <1>18 DEF Bucket_
  <2> QED BY <1>1, <1>5, <2>1 DEF TableIs
<1>9. L = Len(Kinds(b)) /\ L \in {2, 3}
  BY <1>8, <1>18, ItemsAre, KindsAre
<1>10. Masks(mem[f].valid, (b + 1) * Pad, p + 1)
  BY <1>2, <1>18 DEF MaskedTo
<1>11. tab.out \in [1 .. N -> Id] /\ tab.done = s /\ tab.status = "none" /\ Unstopped(s)
  BY <1>1, <1>2, <1>18 DEF TableIs, Counted
<1>12. /\ Telling /\ N \in Nat /\ core \in CoreType /\ w \in World /\ ntok \in Nat /\ MaxLen \in Nat /\ Full <= MaxLen
       /\ Full \in Nat
  BY CoreNow
<1>13. s \in 0 .. N
  BY <1>2, <1>18 DEF Told
<1>14. F \in Seq(Id) /\ Len(F) = ntok + 1 + s
  BY <1>12, <1>13, <1>18, FedIs
<1>15. Len(F) = p + 1 /\ p + 1 \in 1 .. MaxLen
  BY <1>4, <1>12, <1>14, <1>18
<1>16. l \in Floats
  <2>1. PICK n : n = p + 1
    OBVIOUS
  <2>2. n \in 1 .. MaxLen /\ n \in 0 .. Len(F) /\ l = Logits(w.model, Prefix(F, n))
    BY <1>4, <1>15, <1>18, <2>1
  <2>3. Prefix(F, n) \in [0 .. n - 1 -> Id]
    BY <1>14, <2>2, PrefixType
  <2>4. Logits(w.model, Prefix(F, n)) \in Floats
    BY <1>12, <2>2, <2>3, LogitsFloat
  <2> QED BY <2>2, <2>4
<1>17. core.token \in Id
  BY <1>12 DEF CoreType
<1> QED BY <1>18, <1>2, <1>3, <1>4, <1>5, <1>6, <1>7, <1>8, <1>9, <1>10, <1>11, <1>14, <1>15, <1>16, <1>17 DEF AtRun


\* An item has run: its frame is m, and the core goes on to the next one.
ItemRan(m) ==
    /\ mem' = [mem EXCEPT ![FrameOf] = m]
    /\ core' = [core EXCEPT !.item = @ + 1]
    /\ UNCHANGED tab

\* An item that ran leaves the token cached and, once the model ran, the logits
\* of what was fed.
LEMMA ItemDone ==
    ASSUME LlmInv, Running, core.pc = "items", core.item <= Len(tab.items), UNCHANGED <<w, h, valid, sched, out, rows>>,
           NEW F, F = Fed(core.s), NEW l, l = Logits(w.model, Prefix(F, core.pos + 1)),
           NEW m \in FrameType, ItemRan(m),
           m.token = mem[FrameOf].token, m.pos = mem[FrameOf].pos, m.valid = mem[FrameOf].valid, m.logits = l,
           core.item = Len(tab.items) => m.bmax = Maxima(l),
           Cached(kv', F, core.pos + 1), kv' = [x \in Position |-> kv'[x]]
    PROVE  LlmInv'
<1>1. PICK b, f, L, s, p, i : b = core.cur /\ f = FrameOf /\ L = Len(tab.items) /\ s = core.s /\ p = core.pos /\ i = core.item
  OBVIOUS
<1>2. F = Fed(s) /\ l = Logits(w.model, Prefix(F, p + 1))
  BY <1>1
<1>13. AtRun(b, f, L, s, p, i, F, l)
  <2>1. Named(b, f, L, s, p, i, F, l)
    BY <1>1, <1>2 DEF Named
  <2> QED BY <2>1, StepRuns
<1>3. /\ b \in Buckets /\ b \in Nat /\ f \in Frame
      /\ f = tab.buckets[b] /\ L \in {2, 3} /\ s \in Nat /\ s < N /\ p \in Nat /\ p = ntok + s /\ b = p \div Pad
      /\ Told(s) /\ core.token = F[p + 1] /\ mem[f].token = core.token /\ mem[f].pos = p
      /\ Masks(mem[f].valid, (b + 1) * Pad, p + 1) /\ i \in 1 .. L + 1
      /\ tab.out \in [1 .. N -> Id] /\ tab.done = s /\ tab.status = "none" /\ Unstopped(s)
  BY <1>13 DEF AtRun
<1>4. /\ TableIs /\ core \in CoreType /\ mem \in [Frame -> FrameType] /\ core.cur \in Buckets \cup {-1} /\ N \in Nat
  BY CoreNow
<1>5. tab' = tab /\ tab'.items = tab.items /\ tab'.out = tab.out /\ tab'.done = tab.done /\ tab'.status = tab.status
      /\ tab'.buckets = tab.buckets
  BY Zenon DEF ItemRan
<1>6. mem' \in [Frame -> FrameType] /\ mem'[f] = m
  <2>1. mem' = [mem EXCEPT ![f] = m]
    BY <1>1 DEF ItemRan
  <2> QED BY <2>1, <1>3, <1>4
<1>7. /\ core'.pc = "items" /\ core'.s = s /\ core'.pos = p /\ core'.cur = b /\ core'.item = i + 1
      /\ core'.token = core.token /\ core' \in CoreType
  <2>1. core' = [core EXCEPT !.item = core.item + 1]
    BY DEF ItemRan
  <2>2. i + 1 \in Nat
    BY <1>3
  <2> QED BY <2>1, <2>2, <1>1, <1>3, <1>4 DEF CoreType
<1>8. TableIs'
  <2>1. Bucket_' = Bucket_
    BY <1>1, <1>7, WorldSame DEF Bucket_
  <2>2. tab' = TabOf(tab.items, tab.out, tab.done, tab.status) /\ tab.done \in Nat
    BY <1>3, <1>4, <1>5, TabIs
  <2>3. \A c \in Buckets : c = Bucket_' => tab.items = ItemsOf(c)
    BY <1>4, <2>1 DEF TableIs
  <2>4. PICK it, o, d, st : it = tab.items /\ o = tab.out /\ d = tab.done /\ st = tab.status
    OBVIOUS
  <2>5. tab' = TabOf(it, o, d, st) /\ o \in [1 .. N -> Id] /\ d \in Nat /\ h'.token = h.token
        /\ \A c \in Buckets : c = Bucket_' => it = ItemsOf(c)
    BY <1>3, <2>2, <2>3, <2>4
  <2> QED BY <2>5, TableKept
<1>9. N' = N /\ Told(s)' /\ Fed(s)' = F /\ Unstopped(s)'
  <2>1. Told(s) /\ Fed(s) = F /\ Unstopped(s) /\ h'.token = h.token
    BY <1>2, <1>3
  <2> QED BY <2>1, <1>5, ToldStill, WorldSame
<1>10. AtStep' /\ AtItems' /\ AtOut' /\ AtDone' /\ AtOff'
  <2>1. PICK j : j = i + 1
    OBVIOUS
  <2>2. j \in 1 .. L + 1 /\ (j > L => i = L) /\ core'.item = j
    BY <1>1, <1>3, <1>7, <2>1
  <2>3. f = tab'.buckets[b] /\ L = Len(tab'.items)
    BY <1>1, <1>3, <1>5
  <2>4. Masks(mem'[f].valid, (b + 1) * Pad, p + 1) /\ mem'[f].token = core'.token /\ mem'[f].pos = p /\ mem'[f].logits = l
    BY <1>1, <1>3, <1>6, <1>7
  <2>5. j > L => mem'[f].bmax = Maxima(l)
    BY <1>1, <1>6, <2>2
  <2>6. Cached(kv', F, p + 1)
    BY <1>1
  <2>7. Cached(kv', F, p)
    BY <1>3, <2>6 DEF Cached
  <2>8. s < N' /\ core'.token = F[p + 1]
    BY <1>3, <1>7, <1>9
  <2> QED BY <1>2, <1>3, <1>7, <1>9, <2>2, <2>3, <2>4, <2>5, <2>6, <2>7, <2>8, NextItems
<1>11. Counted'
  BY <1>3, <1>5, <1>7, <1>9, NextCounted
<1>12. core'.cur \in Buckets \cup {-1} /\ core.pc # "off" /\ tab'.done = s /\ s \in Nat /\ tab.done <= s
  BY <1>3, <1>5, <1>7
<1> QED BY <1>6, <1>7, <1>8, <1>10, <1>11, <1>12, NextCore


\* The item the core is at.
LEMMA ItemIs ==
    ASSUME NEW b, NEW L, L = Len(Kinds(b)), tab.items = ItemsOf(b), NEW i \in 1 .. L
    PROVE  /\ tab.items[i].kind = Kinds(b)[i] /\ tab.items[i].words = WordsOf(b, i)
           /\ Kinds(b)[i] = "max" <=> i = L
<1>1. tab.items[i] = [kind |-> Kinds(b)[i], code |-> CodeOf(b, i), words |-> WordsOf(b, i)]
  BY ItemsAre
<1>2. Kinds(b)[i] = "max" <=> i = L
  BY KindsAre
<1> QED BY <1>1, <1>2

\* The last item finds the block maxima of the logits.
LEMMA MaxInv ==
    ASSUME LlmInv, Running, core.pc = "items", core.item <= Len(tab.items), UNCHANGED <<w, h, valid, sched, out, rows>>,
           NEW item, item = tab.items[core.item], item.kind = "max", RunMax(item.words[1]),
           core' = [core EXCEPT !.item = @ + 1], UNCHANGED tab
    PROVE  LlmInv'
<1>1. PICK b, f, L, s, p, i, F, l : Named(b, f, L, s, p, i, F, l)
  BY DEF Named
<1>2. AtRun(b, f, L, s, p, i, F, l)
  BY <1>1, StepRuns
<1>3. /\ b = core.cur /\ f = FrameOf /\ L = Len(tab.items) /\ s = core.s /\ p = core.pos /\ i = core.item
      /\ F = Fed(s) /\ l = Logits(w.model, Prefix(F, p + 1))
  BY <1>1 DEF Named
<1>4. /\ f \in Frame /\ mem[f] \in FrameType /\ w.frames[2][b] = f /\ tab.items = ItemsOf(b) /\ L = Len(Kinds(b))
      /\ L \in {2, 3} /\ i \in 1 .. L + 1 /\ l \in Floats /\ p \in Nat
      /\ i > 1 => Cached(kv, F, p + 1) /\ mem[f].logits = l
  BY <1>2 DEF AtRun
<1>5. i \in 1 .. L
  BY <1>3, <1>4
<1>6. item.kind = Kinds(b)[i] /\ item.words = WordsOf(b, i) /\ (Kinds(b)[i] = "max" <=> i = L)
  BY <1>3, <1>4, <1>5, ItemIs
<1>7. i = L /\ item.words[1] = f
  <2>1. WordsOf(b, i)[1] = w.frames[2][b]
    BY WordsAre
  <2>2. i = L
    BY <1>6
  <2> QED BY <1>4, <1>6, <2>1, <2>2, Zenon
<1>8. Cached(kv, F, p + 1) /\ mem[f].logits = l
  BY <1>4, <1>7
<1> DEFINE m == [mem[f] EXCEPT !.bmax = Maxima(l)]
<1>9. Maxima(l) \in [0 .. Blocks - 1 -> Int]
  <2>1. \A j \in 0 .. Blocks - 1 : MaxOf(l, j) \in Int
    BY <1>4, MaxOfRight
  <2> QED BY <2>1 DEF Maxima
<1>10. /\ m \in FrameType /\ m.token = mem[f].token /\ m.pos = mem[f].pos /\ m.valid = mem[f].valid
       /\ m.logits = mem[f].logits /\ m.bmax = Maxima(l)
  <2>1. PICK x : x = Maxima(l)
    OBVIOUS
  <2> HIDE DEF m
  <2>2. m = [mem[f] EXCEPT !.bmax = x] /\ x \in [0 .. Blocks - 1 -> Int]
    BY <1>9, <2>1 DEF m
  <2> QED BY <2>1, <2>2, <1>4 DEF FrameType
<1>11. mem' = [mem EXCEPT ![f] = m] /\ kv' = kv
  <2>1. RunMax(f)
    BY <1>7 DEF RunMax
  <2>2. [j \in 0 .. Blocks - 1 |-> Max({mem[f].logits[v] : v \in j * Block .. (j + 1) * Block - 1})] = Maxima(l)
    BY <1>8 DEF Maxima, MaxOf
  <2> QED BY <2>1, <2>2 DEF RunMax
<1>12. ItemRan(m)
  BY <1>3, <1>11 DEF ItemRan
<1>13. PICK r : r = m
  OBVIOUS
<1>14. ItemRan(r)
  BY <1>12, <1>13 DEF ItemRan
<1>15. Cached(kv', F, p + 1) /\ kv' = [x \in Position |-> kv'[x]]
  BY <1>8, <1>11, CoreNow
<1>16. /\ r \in FrameType /\ r.token = mem[FrameOf].token /\ r.pos = mem[FrameOf].pos /\ r.valid = mem[FrameOf].valid
       /\ r.logits = l /\ r.bmax = Maxima(l)
  BY <1>3, <1>8, <1>10, <1>13
<1> HIDE DEF m
<1> QED BY <1>3, <1>14, <1>15, <1>16, ItemDone


\* A position among the words is that of the step.
LEMMA AtIs ==
    ASSUME w \in World, ntok \in Nat, ntok < Full, Full \in Nat, PosFixed, NEW p \in Nat, ntok <= p, p < Full,
           NEW b, b = p \div Pad, b \in Buckets, w.posdep
    PROVE  PosOf(b) = p
<1>1. PosOf(b) \in ntok .. Full - 1 /\ PosOf(b) \in Nat /\ PosOf(b) \div Pad = b
  BY PosIs
<1>2. CASE Full = ntok + 1
  <2> DEFINE q == PosOf(b)
             n == ntok
  <2>1. q \in n .. Full - 1 /\ q \in Nat /\ n \in Nat /\ Full = n + 1 /\ n <= p /\ p < Full
    BY <1>1, <1>2
  <2> HIDE DEF q, n
  <2>2. q = p
    BY <2>1
  <2> QED BY <2>2 DEF q
<1>3. CASE Pad = 1
  <2> DEFINE q == PosOf(b)
  <2>1. q \in Nat /\ (q \div Pad) * Pad <= q /\ q < (q \div Pad) * Pad + Pad /\ q \div Pad \in Nat
    BY <1>1, DivIs
  <2>2. (p \div Pad) * Pad <= p /\ p < (p \div Pad) * Pad + Pad /\ p \div Pad \in Nat
    BY DivIs
  <2>3. q \div Pad = b /\ p \div Pad = b
    BY <1>1
  <2> HIDE DEF q
  <2>4. b \in Nat /\ b * Pad <= q /\ q < b * Pad + Pad /\ b * Pad <= p /\ p < b * Pad + Pad
    BY <2>1, <2>2, <2>3
  <2>5. b <= q /\ q < b + 1 /\ b <= p /\ p < b + 1
    BY <2>4, <1>3
  <2>6. q = p
    BY <2>1, <2>4, <2>5
  <2> QED BY <2>6 DEF q
<1> QED BY <1>2, <1>3 DEF PosFixed

\* The cache with one token more...
LEMMA CachedMore ==
    ASSUME NEW n \in Nat, n < MaxLen, NEW k, k = [x \in Position |-> k[x]], NEW s, Cached(k, s, n), NEW t, t = s[n + 1]
    PROVE  Cached([k EXCEPT ![n] = t], s, n + 1)
<1>1. \A x \in 0 .. n : x \in Position
  BY Sizes DEF Position
<1> DEFINE c == [k EXCEPT ![n] = t]
<1>2. \A x \in 0 .. n : c[x] = IF x = n THEN t ELSE k[x]
  BY <1>1
<1> HIDE DEF c
<1>3. \A x \in 0 .. n - 1 : k[x] = s[x + 1]
  BY DEF Cached
<1>4. \A x \in 0 .. n : c[x] = s[x + 1]
  BY <1>2, <1>3
<1>5. n + 1 - 1 = n
  OBVIOUS
<1>6. Cached(c, s, n + 1)
  BY <1>4, <1>5 DEF Cached
<1> QED BY <1>6 DEF c

\* A step of the model's, with the words of its list.
ItemRuns(item) ==
    /\ core.item <= Len(tab.items) /\ item = tab.items[core.item] /\ item.kind # "max"
    /\ UNCHANGED <<w, h, valid, sched, out, rows>>
    /\ RunStep(w.model, item.words[1], item.words[2], item.words[3])
    /\ core' = [core EXCEPT !.item = @ + 1]
    /\ UNCHANGED tab

\* The model's item: it reads the frame, the cache and the mask of this step.
LEMMA StepInv ==
    ASSUME LlmInv, Running, core.pc = "items", NEW item, ItemRuns(item)
    PROVE  LlmInv'
<1>1. PICK b, f, L, s, p, i, F, l : Named(b, f, L, s, p, i, F, l)
  BY DEF Named
<1>2. AtRun(b, f, L, s, p, i, F, l)
  BY <1>1, StepRuns
<1>3. /\ b = core.cur /\ f = FrameOf /\ L = Len(tab.items) /\ s = core.s /\ p = core.pos /\ i = core.item
      /\ F = Fed(s) /\ l = Logits(w.model, Prefix(F, p + 1))
  BY <1>1 DEF Named
<1>4. /\ f \in Frame /\ mem[f] \in FrameType /\ w.frames[2][b] = f /\ tab.items = ItemsOf(b) /\ L = Len(Kinds(b))
      /\ L \in {2, 3} /\ i \in 1 .. L + 1 /\ l \in Floats /\ p \in Nat /\ p \in Position /\ b \in Nat /\ b \in Buckets
      /\ s \in Nat /\ s < N /\ p = ntok + s /\ b = p \div Pad
      /\ core.token = F[p + 1] /\ mem[f].token = core.token /\ mem[f].pos = p
      /\ Masks(mem[f].valid, (b + 1) * Pad, p + 1) /\ Cached(kv, F, p) /\ F \in Seq(Id) /\ Len(F) = p + 1
  BY <1>2 DEF AtRun
<1>5. i \in 1 .. L /\ item = tab.items[i] /\ item.kind # "max"
  BY <1>3, <1>4 DEF ItemRuns
<1>6. item.kind = Kinds(b)[i] /\ item.words = WordsOf(b, i) /\ (Kinds(b)[i] = "max" <=> i = L)
  <2>1. L = Len(Kinds(b)) /\ tab.items = ItemsOf(b) /\ i \in 1 .. L
    BY <1>4, <1>5
  <2>2. tab.items[i].kind = Kinds(b)[i] /\ tab.items[i].words = WordsOf(b, i) /\ (Kinds(b)[i] = "max" <=> i = L)
    BY <2>1, ItemIs
  <2>3. item = tab.items[i]
    BY <1>5
  <2> QED BY <2>2, <2>3, Zenon
<1>7. i # L /\ item.words[1] = f /\ item.words[2] = (b + 1) * Pad /\ item.words[3] = IF w.posdep THEN PosOf(b) + 1 ELSE 0
  <2>1. WordsOf(b, i)[1] = w.frames[2][b]
    BY WordsAre
  <2>2. i # L /\ Kinds(b)[i] # "max"
    BY <1>5, <1>6
  <2>3. WordsOf(b, i)[2] = (b + 1) * Pad /\ WordsOf(b, i)[3] = IF w.posdep THEN PosOf(b) + 1 ELSE 0
    BY <2>2, WordsAre
  <2> QED BY <1>4, <1>6, <2>1, <2>2, <2>3, Zenon
<1>8. /\ w \in World /\ ntok \in Nat /\ ntok < Full /\ Full \in Nat /\ PosFixed /\ MaxLen \in Nat /\ Full <= MaxLen
      /\ N \in Nat /\ N + ntok = Full /\ mem \in [Frame -> FrameType] /\ kv = [x \in Position |-> kv[x]]
  BY CoreNow DEF Static
<1>9. ntok <= p /\ p < Full
  <2> DEFINE n == ntok
  <2>1. n \in Nat /\ N + n = Full /\ N \in Nat /\ p = n + s
    BY <1>4, <1>8
  <2> HIDE DEF n
  <2>2. n <= p /\ p < Full
    BY <1>4, <2>1
  <2> QED BY <2>2 DEF n
<1>10. (IF item.words[3] = 0 THEN mem[f].pos ELSE item.words[3] - 1) = p
  <2>1. CASE w.posdep
    <3>1. PosOf(b) = p
      BY <2>1, <1>4, <1>8, <1>9, AtIs
    <3>2. item.words[3] = p + 1
      BY <3>1, <2>1, <1>7
    <3>3. p + 1 # 0 /\ p + 1 - 1 = p
      BY <1>4
    <3>4. PICK x : x = p + 1
      OBVIOUS
    <3>5. x # 0 /\ x - 1 = p
      BY <1>4, <3>4
    <3>6. item.words[3] = x
      BY <3>2, <3>4
    <3> QED BY <3>5, <3>6, Zenon
  <2>2. CASE ~w.posdep
    <3>1. item.words[3] = 0
      BY <2>2, <1>7
    <3> QED BY <3>1, <1>4
  <2> QED BY <2>1, <2>2
<1> DEFINE cache == [kv EXCEPT ![p] = core.token]
           len == (b + 1) * Pad
<1>11. kv' = cache /\ mem' = [mem EXCEPT ![f].logits = Logits(w.model, Attended(cache, mem[f].valid, len))]
  BY <1>4, <1>7, <1>10 DEF ItemRuns, RunStep
<1>12. Cached(cache, F, p + 1)
  <2>1. p < MaxLen
    BY <1>4, <1>8, <1>9
  <2>2. PICK k, c : k = kv /\ c = core.token
    OBVIOUS
  <2>3. k = [x \in Position |-> k[x]] /\ Cached(k, F, p) /\ c = F[p + 1]
    BY <1>4, <1>8, <2>2
  <2> HIDE DEF cache
  <2>4. Cached([k EXCEPT ![p] = c], F, p + 1)
    BY <1>4, <2>1, <2>3, CachedMore
  <2> QED BY <2>2, <2>4 DEF cache
<1>13. kv' = [x \in Position |-> kv'[x]]
  BY <1>8, <1>11
<1> HIDE DEF cache
<1>14. len \in Nat /\ p + 1 <= len
  <2>1. len = b * Pad + Pad /\ b * Pad \in Nat
    BY <1>4, Times
  <2>2. p < (p \div Pad) * Pad + Pad
    BY <1>4, DivIs
  <2>3. Pad \in Nat
    BY Sizes
  <2>4. p < b * Pad + Pad
    BY <2>2, <1>4
  <2> DEFINE z == b * Pad
  <2>5. z \in Nat /\ Pad \in Nat /\ p < z + Pad /\ p \in Nat
    BY <2>1, <2>3, <2>4, <1>4
  <2> HIDE DEF z
  <2>6. z + Pad \in Nat /\ p + 1 <= z + Pad
    BY <2>5
  <2> QED BY <2>1, <2>6 DEF z
<1>15. Logits(w.model, Attended(cache, mem[f].valid, len)) = l
  <2>1. PICK n, y : n = p + 1 /\ y = len
    OBVIOUS
  <2>2. n \in 1 .. Len(F) /\ n <= MaxLen /\ y \in Nat /\ n <= y /\ Cached(cache, F, n) /\ Masks(mem[f].valid, y, n)
    <3>1. n \in 1 .. Len(F)
      BY <1>4, <2>1
    <3>2. n <= MaxLen
      <4>1. p \in Nat /\ p < Full /\ Full \in Nat /\ Full <= MaxLen /\ MaxLen \in Nat /\ n = p + 1
        BY <1>4, <1>8, <1>9, <2>1
      <4> HIDE DEF len, cache
      <4> QED BY <4>1
    <3>3. y \in Nat /\ n <= y
      BY <1>14, <2>1
    <3>4. Cached(cache, F, n) /\ Masks(mem[f].valid, y, n)
      BY <1>4, <1>12, <2>1
    <3> QED BY <3>1, <3>2, <3>3, <3>4
  <2>3. Logits(w.model, Attended(cache, mem[f].valid, y)) = Logits(w.model, Prefix(F, n))
    <3>1. PICK c, v : c = cache /\ v = mem[f].valid
      OBVIOUS
    <3>2. Cached(c, F, n) /\ Masks(v, y, n)
      BY <2>2, <3>1
    <3>4. w \in World /\ F \in Seq(Id) /\ n \in 1 .. Len(F) /\ n <= MaxLen /\ y \in Nat /\ n <= y
      BY <1>4, <1>8, <2>2
    <3>3. Logits(w.model, Attended(c, v, y)) = Logits(w.model, Prefix(F, n))
      BY <3>2, <3>4, StepLogits
    <3> QED BY <3>1, <3>3
  <2> QED BY <1>3, <2>1, <2>3
<1> HIDE DEF len
<1> DEFINE m == [mem[f] EXCEPT !.logits = l]
<1>16. mem' = [mem EXCEPT ![f] = m]
  BY <1>11, <1>15
<1>17. /\ m \in FrameType /\ m.token = mem[f].token /\ m.pos = mem[f].pos /\ m.valid = mem[f].valid
       /\ m.logits = l
  BY <1>4 DEF FrameType
<1>18. PICK r : r = m
  OBVIOUS
<1>19. ItemRan(r)
  BY <1>3, <1>16, <1>18 DEF ItemRan, ItemRuns
<1>20. /\ r \in FrameType /\ r.token = mem[FrameOf].token /\ r.pos = mem[FrameOf].pos /\ r.valid = mem[FrameOf].valid
       /\ r.logits = l
  BY <1>3, <1>17, <1>18
<1>21. core.item # Len(tab.items) /\ core.item <= Len(tab.items)
  BY <1>3, <1>7 DEF ItemRuns
<1>22. Cached(kv', F, core.pos + 1)
  BY <1>3, <1>11, <1>12
<1> HIDE DEF m
<1>23. UNCHANGED <<w, h, valid, sched, out, rows>>
  BY DEF ItemRuns
<1> QED BY <1>3, <1>13, <1>19, <1>20, <1>21, <1>22, <1>23, ItemDone


\* An item runs or fails.
LEMMA CoreItemInv ==
    ASSUME LlmInv, Running, UNCHANGED <<w, h, valid, sched, out, rows>>, CoreItem(w.model, w.fails)
    PROVE  LlmInv'
<1>1. core.pc = "items" /\ core.item <= Len(tab.items)
  BY DEF CoreItem
<1>2. CASE Finish("ITEM") /\ UNCHANGED <<mem, kv>>
  <2>1. PICK st : st = "ITEM"
    OBVIOUS
  <2>2. tab' = [tab EXCEPT !.status = st] /\ core' = [core EXCEPT !.pc = "off"] /\ st # "ok"
    BY <1>2, <2>1 DEF Finish
  <2> QED BY <1>1, <1>2, <2>2, FinishInv
<1>3. PICK item : item = tab.items[core.item]
  OBVIOUS
<1>4. CASE item.kind = "max" /\ RunMax(item.words[1]) /\ core' = [core EXCEPT !.item = @ + 1] /\ UNCHANGED tab
  BY <1>1, <1>3, <1>4, MaxInv
<1>5. CASE /\ item.kind # "max" /\ RunStep(w.model, item.words[1], item.words[2], item.words[3])
           /\ core' = [core EXCEPT !.item = @ + 1] /\ UNCHANGED tab
  <2>1. ItemRuns(item)
    BY <1>1, <1>3, <1>5 DEF ItemRuns
  <2> QED BY <1>1, <2>1, StepInv
<1> QED BY <1>2, <1>3, <1>4, <1>5 DEF CoreItem

-----------------------------------------------------------------------------
(* The token found, told and counted. *)

\* The largest logit is found, and the core goes on to report it.
Finding(f) ==
    /\ core' = [core EXCEPT !.pc = "out",
                            !.token = BestBlock(mem[f].bmax) * Block +
                                      InBlock(mem[f].logits, BestBlock(mem[f].bmax), mem[f].bmax[BestBlock(mem[f].bmax)])]
    /\ UNCHANGED <<tab, mem, kv>>

\* The argmax over block maxima is a greedy choice.
LEMMA FindInv ==
    ASSUME LlmInv, Running, core.pc = "items", core.item > Len(tab.items), UNCHANGED <<w, h, valid, sched, out, rows>>,
           Finding(FrameOf)
    PROVE  LlmInv'
<1>1. PICK b, f, L, s, p, i, F, l : Named(b, f, L, s, p, i, F, l)
  BY DEF Named
<1>2. AtRun(b, f, L, s, p, i, F, l)
  BY <1>1, StepRuns
<1>3. /\ b = core.cur /\ f = FrameOf /\ L = Len(tab.items) /\ s = core.s /\ p = core.pos /\ i = core.item
      /\ F = Fed(s) /\ l = Logits(w.model, Prefix(F, p + 1))
  BY <1>1 DEF Named
<1>4. /\ b \in Buckets /\ b \in Nat /\ f \in Frame
      /\ f = tab.buckets[b] /\ L \in {2, 3} /\ s \in Nat /\ s < N /\ p \in Nat /\ p = ntok + s
      /\ Told(s) /\ Masks(mem[f].valid, (b + 1) * Pad, p + 1) /\ i \in 1 .. L + 1
      /\ tab.out \in [1 .. N -> Id] /\ tab.done = s /\ tab.status = "none" /\ Unstopped(s)
      /\ F \in Seq(Id) /\ Len(F) = p + 1 /\ l \in Floats
      /\ i > 1 => Cached(kv, F, p + 1) /\ mem[f].logits = l
      /\ i > L => mem[f].bmax = Maxima(l)
  BY <1>2 DEF AtRun
<1>5. i > L /\ i > 1
  <2>1. i > L
    BY <1>3
  <2>2. L \in {2, 3} /\ i \in 1 .. L + 1
    BY <1>4
  <2> QED BY <2>1, <2>2
<1>6. Cached(kv, F, p + 1) /\ mem[f].logits = l /\ mem[f].bmax = Maxima(l)
  BY <1>4, <1>5
<1>7. PICK bm, v : /\ bm = Maxima(l)
                   /\ v = BestBlock(bm) * Block + InBlock(l, BestBlock(bm), bm[BestBlock(bm)])
  OBVIOUS
<1>8. v \in Id /\ v \in Largest(l) /\ (Value(l[v]) # 0 => v = Argmax(l))
  BY <1>4, <1>7, CoreChoice
<1>9. core' = [core EXCEPT !.pc = "out", !.token = v] /\ tab' = tab /\ mem' = mem /\ kv' = kv
  <2>1. Finding(f)
    BY <1>3 DEF Finding
  <2> QED BY <2>1, <1>6, <1>7 DEF Finding
<1>10. /\ TableIs /\ core \in CoreType /\ mem \in [Frame -> FrameType] /\ kv = [x \in Position |-> kv[x]]
       /\ N \in Nat /\ ntok \in Nat /\ Full \in Nat /\ w \in World /\ ntok = Len(w.toks)
  BY CoreNow DEF ntok
<1>11. /\ core'.pc = "out" /\ core'.s = s /\ core'.pos = p /\ core'.cur = b /\ core'.token = v /\ core' \in CoreType
  BY <1>3, <1>8, <1>9, <1>10 DEF CoreType
<1>12. Choice(w, F, v)
  <2>1. Goes(l, v)
    BY <1>8 DEF Goes
  <2>2. l = Logits(w.model, Prefix(F, Len(F)))
    BY <1>3, <1>4
  <2>3. ~(Len(F) < Len(w.toks))
    <3> DEFINE n == ntok
    <3>1. n \in Nat /\ p = n + s /\ s \in Nat /\ Len(F) = p + 1 /\ Len(w.toks) = n
      BY <1>4, <1>10
    <3> HIDE DEF n
    <3> QED BY <3>1
  <2> QED BY <2>1, <2>2, <2>3 DEF Choice
<1>13. TableIs'
  <2>1. Bucket_' = Bucket_
    BY <1>3, <1>11, WorldSame DEF Bucket_
  <2>2. PICK it, o, d, st : it = tab.items /\ o = tab.out /\ d = tab.done /\ st = tab.status
    OBVIOUS
  <2>3. tab' = TabOf(it, o, d, st) /\ d \in Nat /\ o \in [1 .. N -> Id]
    BY <1>4, <1>9, <1>10, <2>2, TabIs
  <2>4. \A c \in Buckets : c = Bucket_' => it = ItemsOf(c)
    BY <1>10, <2>1, <2>2 DEF TableIs
  <2>5. h'.token = h.token
    OBVIOUS
  <2> QED BY <2>3, <2>4, <2>5, TableKept
<1>14. N' = N /\ Told(s)' /\ Fed(s)' = F /\ Unstopped(s)'
  <2>1. Told(s) /\ Fed(s) = F /\ Unstopped(s) /\ h'.token = h.token /\ tab'.out = tab.out
    BY <1>3, <1>4, <1>9
  <2> QED BY <2>1, ToldStill, WorldSame
<1>15. AtStep' /\ AtItems' /\ AtOut' /\ AtDone' /\ AtOff'
  <2>1. b # -1 /\ s < N' /\ Choice(w, F, core'.token)
    BY <1>4, <1>11, <1>12, <1>14
  <2>2. Masks(mem'[tab'.buckets[b]].valid, (b + 1) * Pad, p + 1) /\ Cached(kv', F, p + 1)
    BY <1>4, <1>6, <1>9
  <2> QED BY <1>11, <1>14, <2>1, <2>2, NextOut
<1>16. Counted'
  <2>1. tab'.done = s /\ tab'.status = "none"
    BY <1>4, <1>9
  <2> QED BY <1>4, <1>11, <1>14, <2>1, NextCounted
<1>17. /\ core'.cur \in Buckets \cup {-1} /\ core.pc # "off" /\ tab'.done = s /\ s \in Nat /\ tab.done <= s
       /\ mem' \in [Frame -> FrameType] /\ kv' = [x \in Position |-> kv'[x]]
  <2>1. core'.cur \in Buckets \cup {-1} /\ tab'.done = s /\ s \in Nat /\ tab.done = s
    BY <1>4, <1>9, <1>11
  <2>2. mem' \in [Frame -> FrameType] /\ kv' = [x \in Position |-> kv'[x]]
    BY <1>9, <1>10
  <2> QED BY <2>1, <2>2
<1> QED BY <1>11, <1>13, <1>15, <1>16, <1>17, NextCore

\* It is found, or the kernel fails.
LEMMA CoreArgmaxInv ==
    ASSUME LlmInv, Running, UNCHANGED <<w, h, valid, sched, out, rows>>, CoreArgmax(w.fails)
    PROVE  LlmInv'
<1>1. core.pc = "items" /\ core.item > Len(tab.items) /\ mem' = mem /\ kv' = kv
  BY DEF CoreArgmax
<1>2. CASE Finish("ARGMAX")
  <2>1. PICK st : st = "ARGMAX"
    OBVIOUS
  <2>2. tab' = [tab EXCEPT !.status = st] /\ core' = [core EXCEPT !.pc = "off"] /\ st # "ok"
    BY <1>2, <2>1 DEF Finish
  <2> QED BY <1>1, <2>2, FinishInv
<1>3. CASE Finding(FrameOf)
  BY <1>1, <1>3, FindInv
<1>4. Finish("ARGMAX") \/ Finding(FrameOf)
  BY <1>1 DEF CoreArgmax, Finding, FrameOf
<1> QED BY <1>2, <1>3, <1>4


\* ...is the cache of any sequence with these tokens.
LEMMA CachedSame ==
    ASSUME NEW n \in Nat, NEW k, NEW s, NEW u, Cached(k, s, n + 1), \A x \in 0 .. n : u[x + 1] = s[x + 1]
    PROVE  Cached(k, u, n + 1)
<1>1. 0 .. n + 1 - 1 = 0 .. n
  OBVIOUS
<1>2. \A x \in 0 .. n : k[x] = s[x + 1]
  BY <1>1 DEF Cached
<1>3. \A x \in 0 .. n : k[x] = u[x + 1]
  BY <1>2
<1> QED BY <1>1, <1>3 DEF Cached

\* The token is told before it is counted: the host that reads the count
\* meanwhile sees the tokens counted.
LEMMA CoreOutInv ==
    ASSUME LlmInv, Running, UNCHANGED <<w, h, valid, sched, out, rows>>, CoreOut
    PROVE  LlmInv'
<1>1. core.pc = "out" /\ mem' = mem /\ kv' = kv
  BY DEF CoreOut
<1>2. PICK s, p, b, t, F : s = core.s /\ p = core.pos /\ b = core.cur /\ t = core.token /\ F = Fed(s)
  OBVIOUS
<1>3. /\ core.s < N /\ Told(core.s) /\ Choice(w, Fed(core.s), core.token)
      /\ core.cur # -1 /\ MaskedTo(core.pos + 1) /\ Cached(kv, Fed(core.s), core.pos + 1)
  BY <1>1 DEF LlmInv, CoreInv, CoreRuns, AtOut
<1>4. core.pos = ntok + core.s /\ tab.done = core.s /\ tab.status = "none" /\ Unstopped(core.s)
  BY <1>1 DEF LlmInv, CoreInv, CoreRuns, Counted
<1>5. /\ TableIs /\ core \in CoreType /\ mem \in [Frame -> FrameType] /\ kv = [x \in Position |-> kv[x]]
      /\ core.cur \in Buckets \cup {-1} /\ Telling
      /\ N \in Nat /\ ntok \in Nat /\ w \in World /\ h.token \in Id /\ out \in Seq(Id) /\ Len(out) = ntok
  BY CoreNow
<1>6. w.toks \in Seq(Id) /\ \A c \in Buckets : c = Bucket_ => tab.items = ItemsOf(c)
  BY <1>5, WorldIs DEF TableIs
<1>7. t \in Id /\ s \in Nat /\ s < N /\ p \in Nat /\ s + 1 \in 1 .. N /\ s + 1 \in 0 .. N
  BY <1>2, <1>3, <1>5 DEF CoreType
<1>8. Good(w, F) /\ F \in Seq(Id) /\ Len(F) = ntok + 1 + s
  <2>1. Good(w, F) /\ s \in 0 .. N
    BY <1>2, <1>3 DEF Told
  <2> QED BY <2>1, <1>2, <1>5, FedIs
<1> DEFINE o == [tab.out EXCEPT ![s + 1] = t]
<1>9. tab.out \in [1 .. N -> Id] /\ o \in [1 .. N -> Id]
  <2>1. tab.out \in [1 .. N -> Id]
    BY <1>5 DEF TableIs
  <2> QED BY <2>1, <1>7
<1>10. o[s + 1] = t /\ \A k \in 1 .. s : o[k] = tab.out[k]
  <2>1. \A k \in 1 .. s : k \in 1 .. N /\ k # s + 1
    <3>1. s \in Nat /\ N \in Nat /\ s < N
      BY <1>5, <1>7
    <3> HIDE DEF N
    <3> QED BY <3>1
  <2> QED BY <2>1, <1>7, <1>9
<1>11. tab' = [tab EXCEPT !.out = o]
  BY <1>2 DEF CoreOut
<1>12. PICK v, it, d, st : v = o /\ it = tab.items /\ d = tab.done /\ st = tab.status
  OBVIOUS
<1> HIDE DEF o
<1>13. tab' = TabOf(it, v, d, st) /\ v \in [1 .. N -> Id] /\ v[s + 1] = t /\ d = s /\ st = "none"
       /\ \A k \in 1 .. s : v[k] = tab.out[k]
  BY <1>2, <1>4, <1>5, <1>9, <1>10, <1>11, <1>12, TabIs
<1>14. core' = [core EXCEPT !.pc = "done"]
  BY DEF CoreOut
<1>15. /\ core'.pc = "done" /\ core'.s = s /\ core'.pos = p /\ core'.cur = b /\ core'.token = t /\ core' \in CoreType
  BY <1>2, <1>5, <1>14 DEF CoreType
<1>16. TableIs' /\ tab'.items = it /\ tab'.out = v /\ tab'.done = d /\ tab'.status = st
       /\ tab'.buckets = [c \in Buckets |-> w.frames[2][c]]
  <2>1. Bucket_' = Bucket_
    BY <1>2, <1>15, WorldSame DEF Bucket_
  <2>2. \A c \in Buckets : c = Bucket_' => it = ItemsOf(c)
    BY <2>1, <1>6, <1>12
  <2>3. h'.token = h.token /\ d \in Nat
    BY <1>7, <1>13
  <2> QED BY <1>13, <2>2, <2>3, TableKept
<1>17. PICK n, u : n = ntok /\ u = tab.out
  OBVIOUS
<1>18. F = FedOf(n, out, h.token, u, s) /\ Fed(s + 1)' = FedOf(n, out, h.token, v, s + 1)
  <2>1. h'.token = h.token
    OBVIOUS
  <2>2. Fed(s) = FedOf(ntok, out, h.token, tab.out, s) /\ Fed(s + 1)' = FedOf(ntok, out, h.token, tab'.out, s + 1)
    BY <2>1, FedStill
  <2> QED BY <2>2, <1>2, <1>16, <1>17
<1>19. Fed(s + 1)' = Append(F, t)
  <2>1. PICK e, x : e = out /\ x = h.token
    OBVIOUS
  <2>2. F = FedOf(n, e, x, u, s) /\ Fed(s + 1)' = FedOf(n, e, x, v, s + 1)
    BY <1>18, <2>1
  <2>3. n \in Nat /\ s \in Nat /\ t \in Id /\ v[s + 1] = t /\ \A k \in 1 .. s : v[k] = u[k]
    BY <1>5, <1>7, <1>13, <1>17
  <2>4. FedOf(n, e, x, u, s) \in Seq(Id)
    BY <1>8, <2>2
  <2>5. FedOf(n, e, x, v, s + 1) = Append(FedOf(n, e, x, u, s), t)
    BY <2>3, <2>4, FedMore
  <2> QED BY <2>2, <2>5
<1>20. Good(w, Append(F, t)) /\ Begins(F, Append(F, t)) /\ Choice(w, F, t)
  <2>1. Choice(w, F, t)
    BY <1>2, <1>3
  <2> QED BY <2>1, <1>6, <1>7, <1>8, GoodAppend
<1>21. PICK E : E = Append(F, t)
  OBVIOUS
<1>22. N' = N
  BY WorldSame
<1>23. Told(s + 1)' /\ Fed(s + 1)' = E
  <2>1. Good(w, Fed(s + 1))'
    <3>1. w' = w
      OBVIOUS
    <3> QED BY <1>19, <1>20, <3>1
  <2> QED BY <2>1, <1>7, <1>19, <1>21, <1>22 DEF Told
<1>24. Cached(kv', E, p + 1)
  <2>1. Cached(kv, F, p + 1)
    BY <1>2, <1>3
  <2>2. Len(F) = p + 1
    <3> HIDE DEF ntok
    <3>1. p = n + s /\ Len(F) = n + 1 + s /\ n \in Nat /\ s \in Nat
      BY <1>2, <1>4, <1>5, <1>7, <1>8, <1>17
    <3> QED BY <3>1
  <2>3. \A x \in 0 .. p : x + 1 \in 1 .. Len(F)
    BY <1>7, <2>2
  <2>4. \A x \in 0 .. p : E[x + 1] = F[x + 1]
    BY <1>20, <1>21, <2>3 DEF Begins
  <2>5. Cached(kv, E, p + 1)
    <3>1. PICK k : k = kv
      OBVIOUS
    <3>2. Cached(k, F, p + 1)
      BY <2>1, <3>1
    <3>3. Cached(k, E, p + 1)
      BY <1>7, <2>4, <3>2, CachedSame
    <3> QED BY <3>1, <3>3
  <2> QED BY <1>1, <2>5
<1>25. AtStep' /\ AtItems' /\ AtOut' /\ AtDone' /\ AtOff'
  <2>1. b # -1 /\ s < N' /\ core'.token = tab'.out[s + 1]
    BY <1>2, <1>3, <1>7, <1>13, <1>15, <1>16, <1>22
  <2>2. Masks(mem'[tab'.buckets[b]].valid, (b + 1) * Pad, p + 1)
    <3>1. Masks(mem[tab.buckets[b]].valid, (b + 1) * Pad, p + 1)
      BY <1>2, <1>3 DEF MaskedTo, FrameOf
    <3>2. tab'.buckets = tab.buckets
      BY <1>5, <1>16, TabIs
    <3> QED BY <1>1, <3>1, <3>2
  <2> QED BY <1>15, <1>23, <1>24, <2>1, <2>2, NextDone
<1>26. Unstopped(s)'
  <2>1. \A k \in 1 .. s : v[k] # w.stop
    BY <1>2, <1>4, <1>13 DEF Unstopped
  <2> QED BY <2>1, <1>16 DEF Unstopped
<1>27. Counted'
  BY <1>2, <1>4, <1>13, <1>15, <1>16, <1>26, NextCounted
<1>28. /\ core'.cur \in Buckets \cup {-1} /\ core.pc # "off" /\ tab'.done = s /\ s \in Nat /\ tab.done <= s
       /\ mem' \in [Frame -> FrameType] /\ kv' = [x \in Position |-> kv'[x]]
  <2>1. core'.cur \in Buckets \cup {-1} /\ core.pc # "off" /\ tab'.done = s /\ s \in Nat /\ tab.done = s
    BY <1>1, <1>2, <1>4, <1>5, <1>7, <1>13, <1>15, <1>16
  <2>2. mem' \in [Frame -> FrameType] /\ kv' = [x \in Position |-> kv'[x]]
    BY <1>1, <1>5
  <2> QED BY <2>1, <2>2
<1> QED BY <1>15, <1>16, <1>25, <1>27, <1>28, NextCore


\* A token counted was told, and the core stops at the stop token.
LEMMA CoreDoneInv ==
    ASSUME LlmInv, Running, UNCHANGED <<w, h, valid, sched, out, rows>>, CoreDone
    PROVE  LlmInv'
<1>1. core.pc = "done" /\ mem' = mem /\ kv' = kv
  BY DEF CoreDone
<1>2. PICK s, p, b, t, n, F : /\ s = core.s /\ p = core.pos /\ b = core.cur /\ t = core.token /\ n = core.s + 1
                              /\ F = Fed(core.s + 1)
  OBVIOUS
<1>3. /\ core.s < N /\ Told(core.s + 1) /\ core.token = tab.out[core.s + 1]
      /\ core.cur # -1 /\ MaskedTo(core.pos + 1) /\ Cached(kv, Fed(core.s + 1), core.pos + 1)
  BY <1>1 DEF LlmInv, CoreInv, CoreRuns, AtDone
<1>4. core.pos = ntok + core.s /\ tab.done = core.s /\ tab.status = "none" /\ Unstopped(core.s)
  BY <1>1 DEF LlmInv, CoreInv, CoreRuns, Counted
<1>5. /\ TableIs /\ core \in CoreType /\ mem \in [Frame -> FrameType] /\ kv = [x \in Position |-> kv[x]]
      /\ core.cur \in Buckets \cup {-1} /\ Telling
      /\ N \in Nat /\ ntok \in Nat /\ w \in World /\ h.token \in Id /\ out \in Seq(Id) /\ Len(out) = ntok
  BY CoreNow
<1>6. tab.out \in [1 .. N -> Id] /\ \A c \in Buckets : c = Bucket_ => tab.items = ItemsOf(c)
  BY <1>5 DEF TableIs
<1>7. t \in Id /\ s \in Nat /\ s < N /\ p \in Nat /\ n \in 1 .. N /\ n \in 0 .. N /\ n \in Nat /\ n = s + 1 /\ n > 0
  BY <1>2, <1>3, <1>5 DEF CoreType
<1>8. F = Fed(n) /\ Told(n) /\ t = tab.out[n] /\ Cached(kv, F, p + 1)
  BY <1>2, <1>3
<1>9. p + 1 = ntok + n
  <2> DEFINE m == ntok
  <2>1. p = m + s /\ m \in Nat /\ s \in Nat /\ n = s + 1
    BY <1>2, <1>4, <1>5, <1>7
  <2> HIDE DEF m
  <2>2. p + 1 = m + n
    BY <2>1
  <2> QED BY <2>2 DEF m
<1>10. tab.stop = w.stop
  BY <1>5, TabIs
<1>11. PICK it, o, st : it = tab.items /\ o = tab.out /\ st = IF t = w.stop THEN "ok" ELSE "none"
  OBVIOUS
<1>12. tab' = TabOf(it, o, n, st)
  <2>1. tab' = [tab EXCEPT !.done = n, !.status = st]
    BY <1>2, <1>4, <1>10, <1>11 DEF CoreDone, Stops
  <2> QED BY <2>1, <1>5, <1>11, TabIs
<1>13. /\ core'.cur = b /\ core' \in CoreType /\ core'.s \in Nat
       /\ t = w.stop => core'.pc = "off"
       /\ t # w.stop => core'.pc = "step" /\ core'.s = n /\ core'.pos = p + 1 /\ core'.token = t
  <2>1. CASE t = w.stop
    <3>1. core' = [core EXCEPT !.pc = "off"]
      BY <2>1, <1>2, <1>10 DEF CoreDone, Stops
    <3> QED BY <2>1, <3>1, <1>2, <1>5 DEF CoreType
  <2>2. CASE t # w.stop
    <3>1. core' = [core EXCEPT !.pc = "step", !.s = core.s + 1, !.pos = core.pos + 1]
      BY <2>2, <1>2, <1>10 DEF CoreDone, Stops
    <3>2. core.s + 1 \in Nat /\ core.pos + 1 \in Nat
      BY <1>2, <1>7
    <3> QED BY <2>2, <3>1, <3>2, <1>2, <1>5 DEF CoreType
  <2> QED BY <2>1, <2>2
<1>14. TableIs' /\ tab'.items = it /\ tab'.out = o /\ tab'.done = n /\ tab'.status = st
       /\ tab'.buckets = [c \in Buckets |-> w.frames[2][c]]
  <2>1. Bucket_' = Bucket_
    BY <1>2, <1>13, WorldSame DEF Bucket_
  <2>2. \A c \in Buckets : c = Bucket_' => it = ItemsOf(c)
    BY <2>1, <1>6, <1>11
  <2>3. h'.token = h.token /\ o \in [1 .. N -> Id]
    BY <1>6, <1>11
  <2> QED BY <1>7, <1>12, <2>2, <2>3, TableKept
<1>15. N' = N /\ Told(n)' /\ Fed(n)' = F /\ \A m : Unstopped(m)' <=> Unstopped(m)
  <2>1. h'.token = h.token /\ tab'.out = tab.out
    BY <1>11, <1>14
  <2> QED BY <2>1, <1>8, ToldStill, WorldSame
<1>16. Unstopped(s) /\ n - 1 = s
  BY <1>2, <1>4, <1>7
<1>17. AtStep' /\ AtItems' /\ AtOut' /\ AtDone' /\ AtOff'
  <2>1. CASE t = w.stop
    <3>1. Unstopped(n - 1)'
      BY <1>15, <1>16
    <3>2. tab'.out[n] = w'.stop
      BY <2>1, <1>8, <1>11, <1>14
    <3>3. core'.pc = "off"
      BY <2>1, <1>13
    <3> QED BY <1>7, <1>14, <1>15, <3>1, <3>2, <3>3, NextOff
  <2>2. CASE t # w.stop
    <3>1. PICK q : q = p + 1
      OBVIOUS
    <3>2. core'.pc = "step" /\ core'.s = n /\ core'.pos = q /\ core'.cur = b /\ core'.token = t
      BY <2>2, <1>13, <3>1
    <3>3. F[q + 1] = t
      <4>1. F[ntok + 1 + n] = tab.out[n]
        <5>1. \A i \in 1 .. n : Fed(n)[ntok + 1 + i] = tab.out[i]
          BY <1>5, <1>7, FedIs
        <5>2. n \in 1 .. n
          BY <1>7
        <5>3. Fed(n)[ntok + 1 + n] = tab.out[n]
          BY <5>1, <5>2
        <5> QED BY <5>3, <1>8, Zenon
      <4>2. q + 1 = ntok + 1 + n
        <5> DEFINE m == ntok
        <5>1. q = m + n /\ m \in Nat /\ n \in Nat
          BY <1>5, <1>7, <1>9, <3>1
        <5> HIDE DEF m
        <5>2. q + 1 = m + 1 + n
          BY <5>1
        <5> QED BY <5>2 DEF m
      <4> QED BY <4>1, <4>2, <1>8
    <3>4. Cached(kv', F, q)
      BY <1>1, <1>8, <3>1
    <3>5. Masks(mem'[tab'.buckets[b]].valid, (b + 1) * Pad, q)
      <4>1. Masks(mem[tab.buckets[b]].valid, (b + 1) * Pad, q)
        BY <1>2, <1>3, <3>1 DEF MaskedTo, FrameOf
      <4>2. tab'.buckets = tab.buckets
        BY <1>5, <1>14, TabIs
      <4> QED BY <1>1, <4>1, <4>2
    <3> QED BY <1>15, <3>2, <3>3, <3>4, <3>5, NextStep
  <2> QED BY <2>1, <2>2
<1>18. Counted'
  <2>1. CASE t = w.stop
    BY <2>1, <1>13 DEF Counted
  <2>2. CASE t # w.stop
    <3>1. Unstopped(n)
      <4>1. \A k \in 1 .. s : tab.out[k] # w.stop
        BY <1>16 DEF Unstopped
      <4>2. \A k \in 1 .. n : k \in 1 .. s \/ k = n
        BY <1>7
      <4>3. \A k \in 1 .. n : tab.out[k] # w.stop
        BY <2>2, <4>1, <4>2, <1>8
      <4> QED BY <4>3 DEF Unstopped
    <3>2. Unstopped(n)' /\ core'.s = n /\ core'.pos = ntok + n /\ tab'.done = n /\ tab'.status = "none"
      BY <2>2, <3>1, <1>9, <1>11, <1>13, <1>14, <1>15
    <3> QED BY <3>2, NextCounted
  <2> QED BY <2>1, <2>2
<1>19. /\ core'.cur \in Buckets \cup {-1} /\ core.pc # "off" /\ tab.done <= n
       /\ mem' \in [Frame -> FrameType] /\ kv' = [x \in Position |-> kv'[x]]
  <2>1. core'.cur \in Buckets \cup {-1} /\ core.pc # "off" /\ tab.done = s
    BY <1>1, <1>2, <1>4, <1>5, <1>13
  <2>2. mem' \in [Frame -> FrameType] /\ kv' = [x \in Position |-> kv'[x]]
    BY <1>1, <1>5
  <2>3. s <= n
    BY <1>7
  <2> QED BY <2>1, <2>2, <2>3
<1> QED BY <1>7, <1>13, <1>14, <1>17, <1>18, <1>19, NextCore


\* A step of the core, while the host waits or after it gave up.
LEMMA CoreStepsInv ==
    ASSUME LlmInv, Core
    PROVE  LlmInv'
<1>1. h.pc # "end" /\ CoreNext(w.model, w.fails) /\ UNCHANGED <<w, h, valid, sched, out, rows>>
  BY DEF Core
<1>2. CASE Running
  BY <1>1, <1>2, CoreStepInv, CoreItemInv, CoreArgmaxInv, CoreOutInv, CoreDoneInv DEF CoreNext
<1>3. CASE ~Running
  <2>1. CASE h.pc = "exit"
    <3>1. HostInv'
      BY <1>1, <2>1, HostSame DEF LlmInv
    <3> QED BY <1>1, <2>1, <3>1, NothingMore DEF LlmInv
  <2>2. CASE h.pc # "exit"
    <3>1. core.pc = "off"
      BY <1>1, <1>3, <2>2 DEF LlmInv, CoreInv, CoreOff
    <3> QED BY <1>1, <3>1 DEF CoreNext, CoreStep, CoreItem, CoreArgmax, CoreOut, CoreDone
  <2> QED BY <2>1, <2>2
<1> QED BY <1>2, <1>3

\* The host stops waiting, and has read how many steps are done.
LEMMA WaitInv ==
    ASSUME LlmInv, Wait
    PROVE  LlmInv'
<1>1. h.pc = "wait" /\ UNCHANGED <<w, valid, sched, out, rows, tab, mem, kv, core>>
  BY DEF Wait, coreVars
<1>2. Running /\ h \in HostType /\ HostInv /\ CoreRuns
  BY <1>1 DEF LlmInv, HostInv, CoreInv, Running
<1>3. tab.done \in Nat
  BY <1>2 DEF CoreRuns, TableIs
<1>4. PICK st \in {"ok", "INTERNAL", "DEADLINE"} :
            /\ h' = [h EXCEPT !.pc = "read", !.done = tab.done, !.status = st]
            /\ st = "ok" => core.pc = "off" /\ tab.status = "ok"
  <2>1. CASE /\ core.pc = "off"
             /\ h' = [h EXCEPT !.pc = "read", !.done = tab.done,
                               !.status = IF tab.status = "ok" THEN "ok" ELSE "INTERNAL"]
    BY <2>1
  <2>2. CASE /\ w.slow /\ core.pc # "off"
             /\ h' = [h EXCEPT !.pc = "read", !.done = tab.done, !.status = "DEADLINE"]
    BY <2>2
  <2> QED BY <2>1, <2>2 DEF Wait
<1>5. /\ h'.pc = "read" /\ h'.done = tab.done /\ h'.status = st /\ h'.token = h.token /\ h'.steps = h.steps
      /\ h'.pos0 = h.pos0 /\ h'.host_end = h.host_end /\ h' \in HostType
  BY <1>2, <1>3, <1>4 DEF HostType, HostPc, HostStatus
<1>6. HostInv'
  <2>1. Running' /\ valid' \in [Position -> {0, 1}]
    BY <1>1, <1>2, <1>5 DEF Running, HostInv
  <2> QED BY <1>1, <1>2, <1>5, <2>1, HostAsks
<1>7. TableInv'
  BY <1>5 DEF TableInv, Recording_
<1>8. Static' /\ N' = N /\ Buckets' = Buckets /\ FirstBucket' = FirstBucket /\ ntok' = ntok
      /\ \A b : ItemsOf(b)' = ItemsOf(b)
  BY <1>1, <1>2, StaticStill, WorldSame DEF CoreRuns
<1>9. \A n : Fed(n)' = Fed(n) /\ (Told(n)' <=> Told(n)) /\ (Unstopped(n)' <=> Unstopped(n))
  BY <1>1, <1>5, ToldStill
<1>10. CoreTypes'
  BY <1>1, <1>2, <1>8 DEF CoreRuns, CoreTypes
<1>11. TableIs'
  <2>1. TableIs
    BY <1>2 DEF CoreRuns
  <2>2. PICK it, o, d, st1 : it = tab.items /\ o = tab.out /\ d = tab.done /\ st1 = tab.status
    OBVIOUS
  <2>3. tab' = TabOf(it, o, d, st1) /\ d \in Nat /\ o \in [1 .. N -> Id]
    <3>1. tab = TabOf(tab.items, tab.out, tab.done, tab.status)
      BY <2>1, TabIs
    <3>2. tab.done \in Nat /\ tab.out \in [1 .. N -> Id]
      BY <2>1 DEF TableIs
    <3> QED BY <1>1, <2>2, <3>1, <3>2
  <2>4. Bucket_' = Bucket_
    BY <1>1, <1>8 DEF Bucket_
  <2>5. \A c \in Buckets : c = Bucket_' => it = ItemsOf(c)
    BY <2>1, <2>2, <2>4 DEF TableIs
  <2>6. w' = w /\ sched' = sched /\ h'.token = h.token
    BY <1>1, <1>5
  <2> QED BY <2>3, <2>5, <2>6, TableKept
<1>12. Counted'
  <2>1. Unstopped(core.s)'  <=> Unstopped(core.s)
    BY <1>1 DEF Unstopped
  <2> QED BY <1>1, <1>2, <1>8, <2>1 DEF CoreRuns, Counted
<1>13. HostReads'
  BY <1>1, <1>3, <1>4, <1>5 DEF HostReads
<1>14. AtStep' /\ AtItems' /\ AtOut' /\ AtDone' /\ AtOff'
  <2>1. /\ Fed(core.s)' = Fed(core.s) /\ (Told(core.s)' <=> Told(core.s))
        /\ Fed(core.s + 1)' = Fed(core.s + 1) /\ (Told(core.s + 1)' <=> Told(core.s + 1))
        /\ (Told(tab.done)' <=> Told(tab.done)) /\ (Unstopped(tab.done - 1)' <=> Unstopped(tab.done - 1))
    <3>1. PICK s, d, n, m : s = core.s /\ d = tab.done /\ n = core.s + 1 /\ m = tab.done - 1
      OBVIOUS
    <3>2. Fed(s)' = Fed(s) /\ (Told(s)' <=> Told(s)) /\ Fed(n)' = Fed(n) /\ (Told(n)' <=> Told(n))
          /\ (Told(d)' <=> Told(d)) /\ (Unstopped(m)' <=> Unstopped(m))
      BY <1>9
    <3>3. core'.s = s /\ tab'.done = d /\ core'.s + 1 = n /\ tab'.done - 1 = m
      BY <1>1, <3>1
    <3>4. Fed(core.s)' = Fed(core.s) /\ (Told(core.s)' <=> Told(core.s))
      BY <3>1, <3>2, <3>3 DEF Fed, Told
    <3>5. Fed(core.s + 1)' = Fed(core.s + 1) /\ (Told(core.s + 1)' <=> Told(core.s + 1))
      BY <3>1, <3>2, <3>3 DEF Fed, Told
    <3>6. (Told(tab.done)' <=> Told(tab.done)) /\ (Unstopped(tab.done - 1)' <=> Unstopped(tab.done - 1))
      BY <3>1, <3>2, <3>3 DEF Told, Unstopped, Fed
    <3> QED BY <3>4, <3>5, <3>6
  <2>2. FrameOf' = FrameOf /\ StepIs' = StepIs
    BY <1>1, <2>1 DEF FrameOf, StepIs, Prefix
  <2>3. (MaskedTo(core.pos)' <=> MaskedTo(core.pos)) /\ (MaskedTo(core.pos + 1)' <=> MaskedTo(core.pos + 1))
    BY <1>1, <2>2 DEF MaskedTo, Masks
  <2>4. AtStep'
    BY <1>1, <1>2, <2>1, <2>3 DEF CoreRuns, AtStep, Cached
  <2>5. AtItems'
    BY <1>1, <1>2, <1>8, <2>1, <2>2, <2>3 DEF CoreRuns, AtItems, Cached, Maxima, MaxOf
  <2>6. AtOut'
    BY <1>1, <1>2, <1>8, <2>1, <2>3 DEF CoreRuns, AtOut, Cached, Choice, Goes, Largest, Argmax, Prefix, Value
  <2>7. AtDone'
    BY <1>1, <1>2, <1>8, <2>1, <2>3 DEF CoreRuns, AtDone, Cached
  <2>8. AtOff'
    BY <1>1, <1>2, <1>8, <2>1 DEF CoreRuns, AtOff
  <2> QED BY <2>4, <2>5, <2>6, <2>7, <2>8
<1>15. CoreInv'
  BY <1>5, <1>8, <1>10, <1>11, <1>12, <1>13, <1>14 DEF CoreInv, CoreRuns, Running
<1> QED BY <1>6, <1>7, <1>15 DEF LlmInv


-----------------------------------------------------------------------------
(***************************************************************************)
(* The theorems.                                                           *)
(***************************************************************************)

\* A stuttering step keeps the invariant.
LEMMA SameInv ==
    ASSUME LlmInv, UNCHANGED vars
    PROVE  LlmInv'
<1>1. w' = w /\ h' = h /\ valid' = valid /\ sched' = sched /\ out' = out /\ rows' = rows
      /\ tab' = tab /\ mem' = mem /\ kv' = kv /\ core' = core
  BY DEF vars, coreVars
<1>2. /\ ntok' = ntok /\ Full' = Full /\ N' = N /\ FirstBucket' = FirstBucket /\ Buckets' = Buckets
      /\ \A b : ItemsOf(b)' = ItemsOf(b) /\ PosOf(b)' = PosOf(b)
      /\ \A p, b, x : RecAt(p, b, x)' = RecAt(p, b, x)
      /\ (FirstSame' <=> FirstSame) /\ (PosFixed' <=> PosFixed)
  BY <1>1, WorldSame
<1>3. HostInv'
  <2>1. RowsInv'
    BY <1>1, <1>2 DEF LlmInv, HostInv, RowsInv
  <2>2. (NoStop' <=> NoStop) /\ (PrefillStops' <=> PrefillStops)
    BY <1>1, <1>2 DEF NoStop, PrefillStops
  <2>3. Prefilling'
    BY <1>1, <1>2 DEF LlmInv, HostInv, Prefilling
  <2>4. Decoding'
    BY <1>1, <1>2, <2>2 DEF LlmInv, HostInv, Decoding
  <2>5. Asking'
    BY <1>1, <1>2 DEF LlmInv, HostInv, Asking, Recording_, Running
  <2>6. Ending'
    BY <1>1, <1>2, <2>2 DEF LlmInv, HostInv, Ending
  <2>7. Complete'
    BY <1>1, <1>2 DEF LlmInv, HostInv, Complete
  <2>8. (/\ w \in World /\ h \in HostType /\ valid \in [Position -> {0, 1}] /\ Good(w, out)
         /\ ntok <= h.steps /\ h.steps <= Full /\ h.pos0 \in {0, ntok}
         /\ (w.rvsched => h.host_end = ntok))'
    BY <1>1, <1>2 DEF LlmInv, HostInv
  <2> QED BY <2>1, <2>3, <2>4, <2>5, <2>6, <2>7, <2>8 DEF HostInv
<1>4. TableInv'
  <2>1. IsSched' <=> IsSched
    BY <1>1, SchedSame
  <2> QED BY <1>1, <1>2, <2>1 DEF LlmInv, TableInv, Recording_
<1>5. CASE Running
  <2>1. CoreRuns
    BY <1>5 DEF LlmInv, CoreInv
  <2>2. Static' /\ CoreTypes'
    BY <1>1, <1>2, <2>1, StaticStill DEF CoreRuns, CoreTypes
  <2>3. TableIs'
    <3>1. TableIs
      BY <2>1 DEF CoreRuns
    <3>2. Diff(sched)' = Diff(sched) /\ Table(sched, w.r5)' = Table(sched, w.r5)
      BY <1>1
    <3>3. Bucket_' = Bucket_
      BY <1>1, <1>2 DEF Bucket_
    <3> QED BY <1>1, <1>2, <3>1, <3>2, <3>3 DEF TableIs
  <2>4. \A n : Fed(n)' = Fed(n) /\ (Told(n)' <=> Told(n)) /\ (Unstopped(n)' <=> Unstopped(n))
    BY <1>1, ToldStill
  <2>5. Counted' /\ HostReads'
    BY <1>1, <1>2, <2>1 DEF CoreRuns, Counted, HostReads, Unstopped
  <2>6. FrameOf' = FrameOf /\ Fed(core.s)' = Fed(core.s) /\ Fed(core.s + 1)' = Fed(core.s + 1)
    BY <1>1, <1>2 DEF FrameOf, Fed
  <2>7. /\ Told(core.s)' <=> Told(core.s)
        /\ Told(core.s + 1)' <=> Told(core.s + 1)
        /\ Told(tab.done)' <=> Told(tab.done)
        /\ Unstopped(tab.done - 1)' <=> Unstopped(tab.done - 1)
    BY <1>1, <1>2, <2>6 DEF Told, Unstopped, Fed
  <2>8. StepIs' = StepIs /\ (MaskedTo(core.pos)' <=> MaskedTo(core.pos)) /\ (MaskedTo(core.pos + 1)' <=> MaskedTo(core.pos + 1))
    BY <1>1, <2>6 DEF StepIs, MaskedTo
  <2>9. AtStep' /\ AtItems' /\ AtOut' /\ AtDone' /\ AtOff'
    BY <1>1, <1>2, <2>1, <2>6, <2>7, <2>8 DEF CoreRuns, AtStep, AtItems, AtOut, AtDone, AtOff
  <2> QED BY <1>1, <1>3, <1>4, <1>5, <2>2, <2>3, <2>5, <2>9 DEF LlmInv, CoreInv, CoreRuns, Running
<1>6. CASE ~Running
  <2>1. CoreInv'
    BY <1>1, <1>6 DEF LlmInv, CoreInv, Running
  <2> QED BY <1>3, <1>4, <2>1 DEF LlmInv
<1> QED BY <1>5, <1>6

\* The invariant is inductive.
LEMMA LlmNextInv ==
    ASSUME LlmInv, [LlmNext]_vars
    PROVE  LlmInv'
<1>1. CASE LlmNext
  BY <1>1, PrefillInv, DecodeInv, DecodedInv, RecordInv, EndPassInv, CheckFirstInv, CheckLastInv,
     RunInv, CoreStepsInv, WaitInv, ReadInv, EndInv DEF LlmNext
<1>2. CASE UNCHANGED vars
  BY <1>2, SameInv
<1> QED BY <1>1, <1>2

\* The host, the table and the core agree on what was recorded, patched, fed,
\* cached, masked, found, told and counted, between any two of their steps.
THEOREM LlmInductive == Spec => []LlmInv
<1>1. LlmInit => LlmInv
  BY StartInv
<1>2. LlmInv /\ [LlmNext]_vars => LlmInv'
  BY LlmNextInv
<1> QED BY <1>1, <1>2, PTL DEF Spec

\* A run that ends without an error printed all that was asked for and fits: with
\* --rvsched everything up to the first stop token that is generated; without, the
\* host's loop, whose end is fixed before it starts, goes on past a stop token
\* unless the prefill chose it.
THEOREM PrintsAll == Spec => []Complete
<1>1. LlmInv => Complete
  BY DEF LlmInv, HostInv
<1> QED BY <1>1, LlmInductive, PTL

\* The rows of --prefill_all_out are the logits of the prompt's positions, once
\* and in order.
THEOREM RowsWritten == Spec => []RowsOnce
<1>1. LlmInv => RowsOnce
  <2> SUFFICES ASSUME LlmInv PROVE RowsOnce
    OBVIOUS
  <2>1. RowsInv /\ w \in World
    BY DEF LlmInv, HostInv
  <2>2. w.toks \in Seq(Id) /\ ntok \in Nat /\ Len(w.toks) = ntok
    BY <2>1, WorldIs DEF ntok
  <2>3. rows \in Seq(Floats) /\ Len(rows) <= ntok /\ Len(rows) \in Nat
    BY <2>1 DEF RowsInv
  <2>4. ASSUME NEW i \in 1 .. Len(rows)
        PROVE  rows[i] = G!After(w.model, SubSeq(w.toks, 1, i))
    <3>1. rows[i] = Logits(w.model, Prefix(w.toks, i))
      BY <2>1, <2>4 DEF RowsInv
    <3>2. i \in 0 .. Len(w.toks)
      <4> DEFINE n == Len(rows)
                 m == Len(w.toks)
      <4>1. n \in Nat /\ m \in Nat /\ n <= m /\ i \in 1 .. n
        BY <2>2, <2>3
      <4> HIDE DEF n, m
      <4>2. i \in 0 .. m
        BY <4>1
      <4> QED BY <4>2 DEF m
    <3>3. After(w.model, SubSeq(w.toks, 1, i)) = Logits(w.model, Prefix(w.toks, i))
      BY <2>2, <3>2, AfterIs
    <3>4. G!After(w.model, SubSeq(w.toks, 1, i)) = After(w.model, SubSeq(w.toks, 1, i))
      BY DEF G!After, After
    <3> QED BY <3>1, <3>3, <3>4
  <2> QED BY <2>1, <2>3, <2>4 DEF RowsOnce, RowsInv
<1> QED BY <1>1, LlmInductive, PTL

\* A step prints nothing or more of the continuation.
LEMMA Prints ==
    ASSUME LlmInv, [LlmNext]_vars
    PROVE  w' = w /\ (out' = out \/ (Begins(out, out') /\ Len(out) < Len(out')))
<1>1. HostInv /\ HostInv' /\ w \in World /\ out \in Seq(Id) /\ out' \in Seq(Id)
  BY LlmNextInv DEF LlmInv, HostInv, Good
<1>2. CASE UNCHANGED vars
  BY <1>2 DEF vars
<1>3. CASE Prefill
  <2>1. w' = w /\ h.pc = "prefill" /\ (out' = out \/ out' = w.toks)
    BY <1>3 DEF Prefill
  <2>2. out = <<>>
    BY <1>1, <2>1 DEF HostInv, Prefilling
  <2>3. Len(w.toks) \in Nat /\ Len(w.toks) > 0
    BY <1>1, WorldIs DEF ntok
  <2>4. out' = w.toks => Begins(out, out') /\ Len(out) < Len(out')
    BY <2>2, <2>3 DEF Begins
  <2> QED BY <2>1, <2>4
<1>4. CASE Decode
  <2>1. w' = w
    BY <1>4 DEF Decode
  <2>2. out' = out \/ \E t : out' = Append(out, t)
    BY <1>4 DEF Decode
  <2>3. ASSUME NEW t, out' = Append(out, t) PROVE Begins(out, out') /\ Len(out) < Len(out')
    BY <1>1, <2>3 DEF Begins
  <2> QED BY <2>1, <2>2, <2>3
<1>5. CASE Read
  <2>1. w' = w /\ h.pc = "read" /\ out' = out \o [i \in 1 .. h.done |-> IF i = 1 THEN h.token ELSE tab.out[i - 1]]
    BY <1>5 DEF Read
  <2>2. Running /\ HostReads /\ Telling /\ tab.done \in 0 .. N /\ N \in Nat
    BY <2>1, CoreNow, ToldNow DEF Running, LlmInv, CoreInv, CoreRuns
  <2>3. h.done \in 0 .. N
    <3>1. h.done \in Nat /\ h.done <= tab.done
      BY <1>1, <2>1, <2>2 DEF HostReads, HostInv, HostType
    <3> DEFINE x == h.done
               y == tab.done
    <3>2. x \in Nat /\ x <= y /\ y \in 0 .. N /\ N \in Nat
      BY <2>2, <3>1
    <3> HIDE DEF x, y
    <3>3. x \in 0 .. N
      BY <3>2
    <3> QED BY <3>3 DEF x
  <2>4. PICK d, u : d = h.done /\ u = out'
    OBVIOUS
  <2>5. u = out \o [i \in 1 .. d |-> IF i = 1 THEN h.token ELSE tab.out[i - 1]] /\ d \in 0 .. N
    BY <2>1, <2>3, <2>4
  <2>6. Len(u) = ntok + d /\ Begins(out, u) /\ u \in Seq(Id)
    BY <2>2, <2>5, ReadIs
  <2>7. ntok \in Nat /\ Len(out) = ntok
    BY <2>2, TellingIs
  <2>8. CASE d = 0
    <3>1. Len(u) = Len(out) /\ \A i \in 1 .. Len(out) : u[i] = out[i]
      BY <2>6, <2>7, <2>8 DEF Begins
    <3>2. u = out
      BY <1>1, <2>6, <3>1
    <3> QED BY <2>1, <2>4, <3>2
  <2>9. CASE d # 0
    <3> HIDE DEF ntok
    <3>1. Len(out) < Len(u)
      BY <2>5, <2>6, <2>7, <2>9, <2>2
    <3> QED BY <2>1, <2>4, <2>6, <3>1
  <2> QED BY <2>8, <2>9
<1>6. CASE End
  <2>1. w' = w /\ (out' = out \/ out' = Append(out, h.token))
    BY <1>6 DEF End
  <2>2. out' = Append(out, h.token) => Begins(out, out') /\ Len(out) < Len(out')
    BY <1>1 DEF Begins
  <2> QED BY <2>1, <2>2
<1>7. CASE Decoded \/ Record \/ EndPass \/ CheckFirst \/ CheckLast \/ Run \/ Core \/ Wait
  BY <1>7 DEF Decoded, Record, EndPass, CheckFirst, CheckLast, Check, Run, Core, Wait
<1> QED BY <1>2, <1>3, <1>4, <1>5, <1>6, <1>7 DEF LlmNext

\* What sa-llm-run prints is a greedy continuation of the prompt, whatever the
\* chunks, buckets, patches, failures and whoever generates.
THEOREM LlmRefinement == Spec => Greedy
<1>1. LlmInit => G!Init
  BY DEF LlmInit, G!Init
<1>2. LlmInv /\ LlmInv' /\ [LlmNext]_vars => [G!Next]_<<[model |-> w.model, toks |-> w.toks], out>>
  <2> SUFFICES ASSUME LlmInv, LlmInv', [LlmNext]_vars
               PROVE  [G!Next]_<<[model |-> w.model, toks |-> w.toks], out>>
    OBVIOUS
  <2>1. w' = w /\ (out' = out \/ (Begins(out, out') /\ Len(out) < Len(out')))
    BY Prints
  <2>2. CASE out' = out
    BY <2>1, <2>2
  <2>3. CASE Begins(out, out') /\ Len(out) < Len(out')
    <3>1. w \in World /\ out \in Seq(Id)
      BY DEF LlmInv, HostInv, Good
    <3>2. Good(w, out')
      BY <2>1 DEF LlmInv, HostInv
    <3> QED BY <2>1, <2>3, <3>1, <3>2, PrintStep
  <2> QED BY <2>1, <2>2, <2>3
<1> QED BY <1>1, <1>2, LlmInductive, PTL DEF Spec, Greedy, G!Spec
=============================================================================
