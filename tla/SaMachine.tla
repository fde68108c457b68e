------------------------------ MODULE SaMachine ------------------------------
(* What the accelerator's commands do to its local memories and to DDR, one   *)
(* command after the other (SaSchedOrder: the scheduler overlaps them without *)
(* changing what they do).  The data are symbols: an input element is named   *)
(* by its operand and address, an accumulator holds the set of the products   *)
(* it has summed, a vector operation a term over what it read.  A word never  *)
(* written, and a sum that counts a product twice, is Junk.                   *)
EXTENDS Integers, SequencesExt, TLC

CONSTANTS
    D,        \* lanes of a word, rows and columns of the array
    SBANK,    \* words of a bank of SPAD_A and of SPAD_B
    CBANK,    \* words of a bank of ACC
    MaxRow,   \* bytes of a DMA row at most (65535)
    MaxT      \* the longest a dynamic dimension can be

CeilDiv(a, b) == (a + b - 1) \div b

SCR == CBANK \div 4        \* chunk scratch at the start of each ACC bank

Junk == <<"junk">>
Num(n) == <<"num", n>>      \* a constant; a product with 0 adds nothing
Zero == Num(0)
NegInf == <<"neginf">>     \* the lanes a mask leaves out of a maximum
Lanes == 0..D-1

Depth(mem) == IF mem = "C" THEN 2 * CBANK ELSE 2 * SBANK

\* Bytes of an element and of a word of a memory.
esize(mem) == IF mem = "C" THEN 4 ELSE 1
wbytes(mem) == esize(mem) * D

Blank(mem) == [w \in 0..Depth(mem)-1 |-> [l \in Lanes |-> Junk]]

\* par: the two PARAMs a loop moves on and the row cursor; outside: a range error.
Cold == [A |-> Blank("A"), B |-> Blank("B"), C |-> Blank("C"), out |-> <<>>, par |-> <<0, 0, 0>>, outside |-> FALSE]

\* The part of an address a loop's PARAM adds (adv = 0: none).
Moved(m, c) == IF c.adv = 0 THEN 0 ELSE m.par[c.adv]

\* An element of DDR operand c.base of `size` bytes.
Element(c, addr) == IF addr < 0 \/ addr >= c.size THEN Junk ELSE <<"ddr", c.base, addr>>

\* m with the words of mem that `new` defines, an error if one is not there.
Written(m, mem, new) ==
    [m EXCEPT ![mem] = [w \in DOMAIN @ |-> IF w \in DOMAIN new THEN new[w] ELSE @[w]],
              !.outside = @ \/ \E w \in DOMAIN new : w >= Depth(mem)]

\* A word of memory (Junk past its end: the command reports the range).
At(m, mem, w) == IF w \in DOMAIN m[mem] THEN m[mem][w] ELSE [l \in Lanes |-> Junk]

\* Past the end of what a DMA may touch.
Past(c, off) == off < 0 \/ off + (c.rows - 1) * c.pitch + c.rb > c.size

\* LD: rows of rb bytes, a pitch apart, into consecutive words, each row from a
\* word of its own; INTERLEAVE puts the j-th word of every row together.
Ld(m, c) ==
    LET off == c.off + Moved(m, c)
        e   == esize(c.mem)
        wpr == CeilDiv(c.rb, wbytes(c.mem))
        n   == c.rows * wpr
        Row(i) == IF c.ilv THEN i % c.rows ELSE i \div wpr
        Col(i) == IF c.ilv THEN i \div c.rows ELSE i % wpr
        Lane(i, l) == LET b == Col(i) * wbytes(c.mem) + l * e
                      IN  IF b < c.rb THEN Element(c, off + Row(i) * c.pitch + b) ELSE At(m, c.mem, c.word + i)[l]
        done == Written(m, c.mem, [w \in c.word..c.word+n-1 |-> [l \in Lanes |-> Lane(w - c.word, l)]])
    IN  [done EXCEPT !.outside = @ \/ Past(c, off) \/ (c.ilv /\ (c.mem = "C" \/ c.rb % D # 0))]

\* ST: the way back.  out: what has been stored, by address.
St(m, c) ==
    LET off == c.off + Moved(m, c)
        e   == esize(c.mem)
        wpr == CeilDiv(c.rb, wbytes(c.mem))
        Val(r, b) == At(m, c.mem, c.word + r * wpr + b \div wbytes(c.mem))[(b % wbytes(c.mem)) \div e]
        Bytes == {b \in 0..c.rb-1 : b % e = 0}
        At0(x) == <<c.base, off + x[1] * c.pitch + x[2]>>
        Cells == (0..c.rows-1) \X Bytes
        new == [a \in {At0(x) : x \in Cells} |-> LET x == CHOOSE x \in Cells : At0(x) = a IN Val(x[1], x[2])]
    IN  [m EXCEPT !.out = new @@ @, !.outside = @ \/ Past(c, off) \/ c.word + c.rows * wpr > Depth(c.mem)]

Dot(S) == <<"dot", S>>
ZeroDot == Dot({})

\* A dot product added to what an accumulator holds: products, or a loaded bias.
Added(old, new) ==
    IF old = Zero THEN new
    ELSE IF old[1] = "ddr" THEN Dot({<<old, Num(1)>>} \cup new[2])
    ELSE IF old[1] = "dot" /\ old[2] \cap new[2] = {} THEN Dot(old[2] \cup new[2]) ELSE Junk

\* Row i of A times column l of a tile of B, K long: A in D x D blocks, word
\* kc * D + i of the strip at a; word k of the tile is row k of B.
RowDot(m, a, b, K, i, l) ==
    LET P == {<<k, At(m, "A", a + (k \div D) * D + i)[k % D], At(m, "B", b + k)[l]>> : k \in 0..K-1}
    IN  IF \E p \in P : Junk \in {p[2], p[3]} THEN Junk ELSE Dot({<<p[2], p[3]>> : p \in {p \in P : p[2] # Zero}})

Sum(acc, old, new) == IF new = Junk THEN Junk ELSE IF acc THEN Added(old, new) ELSE new

\* EX: rep tiles of B, bstep words apart, against one strip of A; row i of tile
\* r goes to word c + r * cstep + i * crow of ACC.  Rows of the array no strip
\* was loaded for hold junk and nothing more.
Ex(m, c) ==
    LET dst == c.c + Moved(m, c)
        To(r, i) == dst + r * c.cstep + i * c.crow
        Cells == (0..c.rep-1) \X Lanes
        new == [w \in {To(x[1], x[2]) : x \in Cells} |->
                  LET x == CHOOSE x \in Cells : To(x[1], x[2]) = w
                  IN  [l \in Lanes |-> Sum(c.acc, At(m, "C", w)[l], RowDot(m, c.a, c.b + x[1] * c.bstep, c.kt * D, x[2], l))]]
        done == Written(m, "C", new)
    IN  [done EXCEPT !.outside = @ \/ c.a + c.kt * D > Depth("A") \/ c.b + (c.rep - 1) * c.bstep + c.kt * D > Depth("B")]

GemvStrips == 8     \* strips of a GEMV command at most

\* LD in mode GEMV: strip s of the weights (rows of D bytes) against the K bytes
\* of x at word xword of SPAD_A, into word `word` + s of ACC.
Gemv(m, c) ==
    LET off == c.off + Moved(m, c)
        K == c.rb \div D
        X(k) == At(m, "A", c.xword + k \div D)[k % D]
        StripDot(s, l) == LET P == {<<X(k), Element(c, off + s * c.pitch + k * D + l)>> : k \in 0..K-1}
                          IN  IF \E p \in P : Junk \in {p[1], p[2]} THEN Junk ELSE Dot({p \in P : p[1] # Zero})
        done == Written(m, "C", [w \in c.word..c.word+c.rows-1 |->
                  [l \in Lanes |-> Sum(c.acc, At(m, "C", w)[l], StripDot(w - c.word, l))]])
    IN  [done EXCEPT !.outside = @ \/ Past(c, off) \/ c.rows > GemvStrips \/ K % D # 0 \/ c.xword + K \div D > Depth("A")]

\* The word a vector operand gives for word g of the result: one after the
\* other, each p times, or p of them over and over.
IndexOf(s, g) ==
    s.word + (CASE s.mode = "lin" -> g
                [] s.mode = "div" -> g \div s.p
                [] s.mode = "mod" -> g % s.p)

Commutes == {"add", "mul", "min"}

\* A sum counts an element once; a maximum of maxima is the maximum of all.
Parts(f, x) ==
    CASE f = "max" /\ x[1] = "max" -> x[2]
      [] (f = "max" /\ x = NegInf) \/ (f = "sum" /\ x = Zero) -> {}
      [] OTHER -> {x}
Reduction(f, S) ==
    LET P == UNION {Parts(f, x) : x \in S}
    IN  IF Junk \in S THEN Junk ELSE IF Cardinality(P) = 1 THEN CHOOSE x \in P : TRUE ELSE <<f, P>>

\* The mask of a chunk's rows as arithmetic: min(s, (pos - key + 1/2) 1e30) is s
\* for a key up to the row's position, about -1e30 past it, whose exp is 0.
Least0(s, cap) == IF cap[2] >= 0 THEN s ELSE NegInf

\* What an operation makes of the values it reads and its constant k: a copy, a
\* constant (whatever it reads), a number, or a term.
Term(f, xs, k) ==
    CASE f = "set" -> k
      [] Junk \in Range(xs) -> Junk
      [] f \in {"copy", "mask", "ninf"} -> xs[1]
      [] f = "max" -> Reduction(f, Range(xs))
      [] f = "plus" \/ (f = "add" /\ xs[1][1] = "num") -> Num(xs[1][2] + IF f = "plus" THEN k ELSE xs[2][2])
      [] f = "from" -> Num(k - xs[1][2])
      [] f = "ahead" -> Num(xs[1][2][2] - xs[2][2])
      [] f = "big" -> xs[1]
      [] f = "cap" -> Least0(xs[1], xs[2])
      [] f = "prob" /\ xs[1] = NegInf -> Zero
      [] f \in Commutes -> <<f, Range(xs)>>
      [] OTHER -> <<f, xs>>

\* VE: `words` words of results, lane by lane.
\* (a mask keeps the k first elements)
VeLane(m, c, g, l) ==
    IF c.f \in {"mask", "ninf"} /\ g * D + l >= c.k THEN IF c.f = "mask" THEN Zero ELSE NegInf
    ELSE Term(c.f, [i \in DOMAIN c.srcs |-> At(m, c.srcs[i].mem, IndexOf(c.srcs[i], g))[l]], c.k)
\* The range check counts a word of a source for every word of the result, or
\* a period's words if it repeats them: no divider for the ones read p times.
Counted(s, words) == IF s.mode = "mod" /\ s.p < words THEN s.p ELSE words
VeOutside(m, c) == \E i \in DOMAIN c.srcs : c.srcs[i].word + Counted(c.srcs[i], c.words) > Depth(c.srcs[i].mem)

Ve(m, c) ==
    LET dst  == c.word + Moved(m, c)
        done == Written(m, c.mem, [w \in dst..dst+c.words-1 |-> [l \in Lanes |-> VeLane(m, c, w - dst, l)]])
    IN  [done EXCEPT !.outside = @ \/ VeOutside(m, c)]

\* VE with REDUCE: the `valid` first elements of every row of `rowlen` words
\* into all lanes of one word.  The range check takes a word of result for every
\* word read.
Red(m, c) ==
    LET rows == c.words \div c.rowlen
        Row(r) == {VeLane(m, [c EXCEPT !.f = "copy"], r * c.rowlen + i \div D, i % D) : i \in 0..c.valid-1}
        done == Written(m, "C", [w \in c.word..c.word+rows-1 |-> LET v == Reduction(c.f, Row(w - c.word)) IN [l \in Lanes |-> v]])
    IN  [done EXCEPT !.outside = @ \/ VeOutside(m, c) \/ c.word + c.words > Depth("C")]

\* TRANSPOSE: D x D blocks of rows of S words; block k = (kb, ks) becomes D
\* consecutive words.
Tr(m, c) ==
    LET From(k, j) == c.src + (k \div c.S) * D * c.S + (k % c.S) + j * c.S
        Val(i, l) == At(m, c.mem, From(i \div D, l))[i % D]
        done == Written(m, c.to, [w \in c.word..c.word+c.words-1 |-> [l \in Lanes |-> Val(w - c.word, l)]])
    IN  [done EXCEPT !.outside = @ \/ From(c.words \div D - 1, D - 1) >= Depth(c.mem)]

\* SETREG: registers set, or added to.
SetReg(m, c) == [m EXCEPT !.par = [j \in DOMAIN @ |-> IF j \notin c.regs THEN @[j] ELSE c.v + (IF c.add THEN @[j] ELSE 0)]]

Effect(m, c) ==
    CASE c.op = "LD" -> Ld(m, c)      [] c.op = "ST" -> St(m, c)  [] c.op = "EX" -> Ex(m, c)
      [] c.op = "GEMV" -> Gemv(m, c)  [] c.op = "VE" -> Ve(m, c)  [] c.op = "RED" -> Red(m, c)
      [] c.op = "TR" -> Tr(m, c)      [] c.op = "SETREG" -> SetReg(m, c)
==============================================================================
