------------------------------ MODULE FwKernels ------------------------------
(* The commands of the GEMM and vector firmware: C = A . B (+ bias) by strips  *)
(* of D rows, and one operation over DDR arrays in chunks, both alternating    *)
(* between the banks.                                                         *)
EXTENDS SaMachine

CONSTANTS
    ChunkGroups,   \* words of a chunk of the vector firmware at most (512)
    RowBytes       \* bytes of a row of its transfers (256)

FwLd(base, size, off, rows, rb, pitch, mem, word, ilv) ==
    [op |-> "LD", base |-> base, size |-> size, off |-> off, rows |-> rows, rb |-> rb, pitch |-> pitch,
     mem |-> mem, word |-> word, ilv |-> ilv, adv |-> 0]
FwSt(base, size, off, rows, rb, pitch, mem, word) == [FwLd(base, size, off, rows, rb, pitch, mem, word, FALSE) EXCEPT !.op = "ST"]
FwVe(f, srcs, mem, word, words) == [op |-> "VE", f |-> f, srcs |-> srcs, mem |-> mem, word |-> word, words |-> words, k |-> 0, adv |-> 0]
FwSrc(mem, word, mode, p) == [mem |-> mem, word |-> word, mode |-> mode, p |-> p]

RECURSIVE Joined(_, _, _)
Joined(F(_), a, b) == IF a > b THEN <<>> ELSE F(a) \o Joined(F, a + 1, b)

-----------------------------------------------------------------------------
(* GEMM. *)

\* g: M, N, K; bias, quant (int8 C); split: B in both banks of SPAD_B wanted;
\* prefetch: a strip's A before the store of the one before.
CBytes(g) == IF g.quant THEN g.N ELSE 4 * g.N
BiasSize(g) == 4 * g.N * (IF g.quant THEN 1 ELSE g.M)

Gemm(g) ==
    LET nt == g.N \div D
        nt0 == (nt + 1) \div 2
        nt1 == nt - nt0
        vbias == CBANK - nt
        qout == SBANK \div 2
        bsplit == g.split /\ nt1 # 0 /\ nt0 * g.K <= SBANK
        strips == g.bias /\ ~g.quant                  \* bias rows loaded with every strip
        load_strip(i, bank) ==
            <<FwLd("a", g.M * g.K, i * g.K, D, g.K, g.K, "A", bank * SBANK, TRUE)>>
              \o (IF strips THEN <<FwLd("bias", BiasSize(g), i * 4 * g.N, D, 4 * g.N, 4 * g.N, "C", bank * CBANK, FALSE)>> ELSE <<>>)
        half(j, n, word) == FwLd("b", g.K * g.N, j * D, g.K, n * D, g.N, "B", word, TRUE)
        epilogue(bank) == FwVe("requant", <<FwSrc("C", bank * CBANK, "lin", 1)>> \o (IF g.bias THEN <<FwSrc("C", bank * CBANK + vbias, "mod", nt)>> ELSE <<>>),
                               "A", bank * SBANK + qout, g.N)
        exec(bank, b, n, c) == [op |-> "EX", a |-> bank * SBANK, b |-> b, c |-> bank * CBANK + c, kt |-> g.K \div D, acc |-> strips,
                                rep |-> n, bstep |-> g.K, cstep |-> 1, crow |-> nt, adv |-> 0]
        strip(s) ==
            LET bank == s % 2
                i == s * D
            IN  (IF i # 0 /\ ~g.prefetch THEN load_strip(i, bank) ELSE <<>>)
                  \o (IF bsplit THEN <<exec(bank, 0, nt0, 0), exec(bank, SBANK, nt1, nt0)>> ELSE <<exec(bank, 0, nt, 0)>>)
                  \o (IF g.quant THEN <<epilogue(bank)>> ELSE <<>>)
                  \o (IF g.prefetch /\ i + D < g.M THEN load_strip(i + D, 1 - bank) ELSE <<>>)
                  \o <<IF g.quant THEN FwSt("c", g.M * g.N, i * g.N, D, g.N, g.N, "A", bank * SBANK + qout)
                       ELSE FwSt("c", 4 * g.M * g.N, i * 4 * g.N, D, CBytes(g), CBytes(g), "C", bank * CBANK)>>
        resident == IF bsplit THEN <<half(0, nt0, 0)>> \o load_strip(0, 0) \o <<half(nt0, nt1, SBANK)>> ELSE <<half(0, nt, 0)>> \o load_strip(0, 0)
        biases == IF g.quant /\ g.bias
                  THEN [bank \in 1..2 |-> FwLd("bias", BiasSize(g), 0, 1, 4 * g.N, 4 * g.N, "C", (bank - 1) * CBANK + vbias, FALSE)] ELSE <<>>
    IN  resident \o biases \o Joined(strip, 0, g.M \div D - 1)

\* What the host may ask for: everything in its banks.
GemmFits(g) ==
    LET nt == g.N \div D
    IN  /\ g.K <= (IF g.quant THEN SBANK \div 2 ELSE SBANK) /\ nt * g.K <= 2 * SBANK
        /\ g.quant => g.N <= SBANK \div 2
        /\ D * nt + (IF g.quant THEN nt ELSE 0) <= CBANK

GemmMeans(g) ==
    LET e == IF g.quant THEN 1 ELSE 4
        Products(i, n) == {<<<<"ddr", "a", i * g.K + k>>, <<"ddr", "b", k * g.N + n>>>> : k \in 0..g.K-1}
        Bias(i, n) == <<"ddr", "bias", 4 * (IF g.quant THEN n ELSE i * g.N + n)>>
        Val0(i, n) == IF g.quant THEN Term("requant", <<Dot(Products(i, n))>> \o (IF g.bias THEN <<Bias(i, n)>> ELSE <<>>), 0)
                      ELSE Dot(Products(i, n) \cup (IF g.bias THEN {<<Bias(i, n), Num(1)>>} ELSE {}))
    IN  [x \in {<<"c", e * j>> : j \in 0..g.M*g.N-1} |-> Val0((x[2] \div e) \div g.N, (x[2] \div e) % g.N)]

-----------------------------------------------------------------------------
(* A vector operation. *)

\* v: groups (words) of the arrays, `in` and `outT` bytes of an element (1 or 4),
\* unary, period: groups of src2 (0: as many as of src1).
VecBank(mem, b) == b * (IF mem = "C" THEN CBANK ELSE SBANK)

\* Contiguous: rows of RowBytes, then the rest.
Transfer(base, size, off, mem, word, bytes, Cmd(_, _, _, _, _, _, _, _)) ==
    LET rows == bytes \div RowBytes
        tail == bytes % RowBytes
    IN  (IF rows = 0 THEN <<>> ELSE <<Cmd(base, size, off, rows, RowBytes, RowBytes, mem, word)>>)
          \o (IF tail = 0 THEN <<>> ELSE <<Cmd(base, size, off + rows * RowBytes, 1, tail, tail, mem, word + (rows * RowBytes) \div wbytes(mem))>>)
VLoad(base, size, off, rows, rb, pitch, mem, word) == FwLd(base, size, off, rows, rb, pitch, mem, word, FALSE)

Vector(v) ==
    LET m1 == IF v.in = 4 THEN "C" ELSE "A"
        m2 == IF v.in = 4 THEN "C" ELSE "B"
        w2 == IF v.in = 4 THEN CBANK \div 4 ELSE 0
        md == IF v.outT = 4 THEN "C" ELSE "B"
        wd == IF v.outT = 4 THEN CBANK \div 2 ELSE SBANK \div 2
        gin == D * v.in
        gout == D * v.outT
        \* a chunk restarts src2's period: whole periods
        cg == IF v.period > 1 THEN (ChunkGroups \div v.period) * v.period ELSE ChunkGroups
        size2 == gin * (IF v.period > 0 THEN v.period ELSE v.groups)
        resident(b) == Transfer("src2", size2, 0, m2, VecBank(m2, b) + w2, v.period * gin, VLoad)
        chunk(j) ==
            LET g == j * cg
                n == IF v.groups - g < cg THEN v.groups - g ELSE cg
                b == j % 2
                src2 == FwSrc(m2, VecBank(m2, b) + w2, IF v.period > 0 THEN "mod" ELSE "lin", v.period)
            IN  Transfer("src1", gin * v.groups, g * gin, m1, VecBank(m1, b), n * gin, VLoad)
                  \o (IF ~v.unary /\ v.period = 0 THEN Transfer("src2", size2, g * gin, m2, VecBank(m2, b) + w2, n * gin, VLoad) ELSE <<>>)
                  \o <<FwVe("op", <<FwSrc(m1, VecBank(m1, b), "lin", 1)>> \o (IF v.unary THEN <<>> ELSE <<src2>>), md, VecBank(md, b) + wd, n)>>
                  \o Transfer("dst", gout * v.groups, g * gout, md, VecBank(md, b) + wd, n * gout, FwSt)
    IN  (IF ~v.unary /\ v.period > 0 THEN resident(0) \o resident(1) ELSE <<>>) \o Joined(chunk, 0, CeilDiv(v.groups, cg) - 1)

VectorMeans(v) ==
    LET Of1(base, i) == <<"ddr", base, v.in * i>>
        second(i) == IF v.period > 0 THEN i % (D * v.period) ELSE i
    IN  [x \in {<<"dst", v.outT * i>> : i \in 0..v.groups*D-1} |->
            LET i == x[2] \div v.outT IN Term("op", <<Of1("src1", i)>> \o (IF v.unary THEN <<>> ELSE <<Of1("src2", second(i))>>), 0)]
==============================================================================
