----------------------------- MODULE SahlLinear ------------------------------
(* The micro-kernels of a linear layer y = epilogue(x . W): prefill's over     *)
(* blocks of D rows of x, decode's of one row (on the array, or streaming the  *)
(* weights through the GEMV unit), and decode's feed-forward pair.             *)
EXTENDS Sahl

\* A layer: M rows of x (0: decode's one row), K, nt tiles of D columns; the
\* epilogue's inputs after the accumulator, each "chunked" (M x N, or N in
\* decode), "col" (N), "row" (M) or "whole", its operations, whether its result
\* is int8; ports: whether the GEMV unit is there.
esz(l) == IF l.i8 THEN 1 ELSE 4
N(l) == l.nt * D
RowsOf(l) == IF l.M = 0 THEN 1 ELSE l.M

\* Operands: x int8, W int8 [nt, K, D], inputs and y fp32.
Wsize(l) == l.nt * l.K * D
InName(i) == <<"in", i>>
InSize(l, i) ==
    4 * (CASE l.epi[i] = "chunked" -> RowsOf(l) * N(l) [] l.epi[i] = "col" -> N(l)
           [] l.epi[i] = "row" -> l.M [] l.epi[i] = "whole" -> D)
Ysize(l) == esz(l) * RowsOf(l) * N(l)

Of(l, kind) == SelectSeq([i \in DOMAIN l.epi |-> i], LAMBDA i : l.epi[i] = kind)
Epilogue(l) == l.ops # <<>>

-----------------------------------------------------------------------------
(* sahl-schedule: the tiles of a chunk. *)

\* The largest block of K rows of tiles that a bank and a DMA row hold.
rowsKBlock(K) ==
    LET row == MaxRow \div D
        kmax == IF SBANK < (row \div D) * D THEN SBANK ELSE (row \div D) * D
        blocks == {kc \in 1..kmax : kc % D = 0 /\ K % kc = 0}
    IN  IF K <= kmax THEN K
        ELSE IF K % D # 0 \/ blocks = {} THEN 0
        ELSE CHOOSE kc \in blocks : \A j \in blocks : j <= kc

\* The largest chunk up to `cap` that divides the tiles and is ok.
Largest(cap, nt, ok(_)) ==
    LET S == {c \in 1..cap : nt % c = 0 /\ ok(c)} IN IF S = {} THEN 1 ELSE CHOOSE c \in S : \A j \in S : j <= c

\* Buffers of a row block of a chunk: accumulator, result, an input a chunked
\* one, a temporary an operation.
\* (a mutant: the temporaries are forgotten)
Buffers_NoTemps(l) == 2 + Len(Of(l, "chunked"))
Buffers(l) == 2 + Len(Of(l, "chunked")) + Len(l.ops)

linearSchedule(l) ==
    LET nin(kind) == Len(Of(l, kind))
        \* prefill: a row block's buffers within the two banks of ACC
        usable == CBANK - SCR
        small  == (nin("row") + nin("whole")) * (l.M + l.M \div D + 2)
        Fits(nc) == (usable - small - 2 * nin("col") * nc) \div (D * nc) + usable \div (D * nc) >= Buffers(l)
        perBank == SBANK \div rowsKBlock(l.K)
        cap    == IF perBank < 1 THEN 1 ELSE IF perBank > 32 THEN 32 ELSE perBank
        \* decode: accumulator, inputs and result of a chunk in its bank's scratch
        extra  == IF nin("chunked") > 1 THEN nin("chunked") - 1 ELSE 0
        want   == IF Len(l.ops) > 2 THEN 2 ELSE 1
        rows   == IF want < 1 + extra THEN 1 + extra ELSE want
        scr    == SCR \div (D + 1 + rows)
        dcap   == IF l.ports \/ scr < SBANK \div l.K THEN scr ELSE SBANK \div l.K
        nc     == IF dcap > 0 THEN Largest(dcap, l.nt, LAMBDA c : TRUE) ELSE 0
    IN  IF l.M > 0 THEN [chunk |-> Largest(cap, l.nt, Fits), loop |-> FALSE]
        ELSE [chunk |-> nc, loop |-> nc > 0 /\ l.nt \div nc > 4]

-----------------------------------------------------------------------------
(* Prefill: a chunk of tiles serves every block of D rows. *)

expandLinearRows(l, s) ==
    LET nc  == s.chunk
        kc  == rowsKBlock(l.K)
        nb  == l.M \div D
        nch == l.nt \div nc
        nk  == l.K \div kc
        e   == esz(l)
        strip(rb, kb) == Buf(<<"strip", rb, kb>>, "A", D * kc)
        strips == Cat(LAMBDA rb : Cat(LAMBDA kb :
                    <<Interleaved(Load(Ddr("x", l.M * l.K, rb * D * l.K + kb * kc, D, kc, l.K), strip(rb, kb)))>>, 0, nk - 1), 0, nb - 1)
        local(i)  == Buf(<<"local", i>>, "C", IF l.epi[i] = "row" THEN l.M ELSE 1)
        bc(i)     == Bcasted(<<"bc", i>>, IF l.epi[i] = "row" THEN l.M ELSE 1)
        whole(i)  == <<Load(Line(InName(i), InSize(l, i), 0, 4 * local(i).n), local(i)),
                       Bcast(local(i), bc(i), IF l.epi[i] = "row" THEN 1 ELSE 0)>>
        once      == Of(l, "row") \o Of(l, "whole")
        cols(i, set) == Buf(<<"col", i, set>>, "C", nc * D)
        colIns    == Of(l, "col")
        reserves  == Cat(LAMBDA set : [m \in DOMAIN colIns |-> Reserve(cols(colIns[m], set), 0)], 0, 1)
        tiles(bank) == Tiles(<<"tiles", bank>>, bank, nc * kc * D)
        \* block kb of chunk ci's tiles, with its per-column inputs the first time
        loadTiles(ci, kb, bank, withCols) ==
            <<Load(Ddr("w", Wsize(l), (ci * nc * l.K + kb * kc) * D, nc, kc * D, l.K * D), tiles(bank))>>
              \o (IF kb = 0 /\ withCols
                  THEN [m \in DOMAIN colIns |-> Load(Line(InName(colIns[m]), InSize(l, colIns[m]), 4 * ci * nc * D, 4 * nc * D), cols(colIns[m], ci % 2))]
                  ELSE <<>>)
        acc == Buf(<<"acc">>, "C", D * nc * D)
        out == Buf(<<"out">>, IF l.i8 THEN "A" ELSE "C", D * nc * D)
        \* the loads so far are one a (chunk, row block, block)
        bank(ci, rb, kb) == IF nk = 1 THEN ci % 2 ELSE ((ci * nb + rb) * nk + kb) % 2
        after(ci, rb, kb) ==
            IF nk = 1 THEN IF rb = 0 /\ ci + 1 < nch THEN loadTiles(ci + 1, 0, bank(ci + 1, 0, 0), TRUE) ELSE <<>>
            ELSE CASE kb + 1 < nk  -> loadTiles(ci, kb + 1, bank(ci, rb, kb + 1), TRUE)
                   [] kb + 1 = nk /\ rb + 1 < nb -> loadTiles(ci, 0, bank(ci, rb + 1, 0), FALSE)
                   [] kb + 1 = nk /\ rb + 1 = nb /\ ci + 1 < nch -> loadTiles(ci + 1, 0, bank(ci + 1, 0, 0), TRUE)
                   [] OTHER -> <<>>
        mmas(ci, rb) == Cat(LAMBDA kb : <<Mma(strip(rb, kb), tiles(bank(ci, rb, kb)), acc, kc, nc, kb > 0)>> \o after(ci, rb, kb), 0, nk - 1)
        y(size, ci, rb, base, el) == Ddr(base, size, el * (rb * D * N(l) + ci * nc * D), D, el * nc * D, el * N(l))
        chunked(i) == Buf(<<"chunk", i>>, "C", D * nc * D)
        inputs1(ci, rb) == Cat(LAMBDA i : IF l.epi[i] = "chunked" THEN <<Load(y(InSize(l, i), ci, rb, InName(i), 4), chunked(i))>> ELSE <<>>, 1, Len(l.epi))
        in(i, ci, rb) == CASE l.epi[i] = "chunked" -> In(chunked(i), "id") [] l.epi[i] = "col" -> In(cols(i, ci % 2), "col")
                           [] l.epi[i] = "row" -> In(View(bc(i), rb * D, D), "row") [] l.epi[i] = "whole" -> In(bc(i), "scalar")
        epilogue(ci, rb) ==
            IF ~Epilogue(l) THEN <<Store(acc, y(Ysize(l), ci, rb, "y", e))>>
            ELSE <<Reserve(out, 0)>> \o inputs1(ci, rb)
                   \o <<Generic(<<D, nc * D>>, <<In(acc, "id")>> \o [i \in DOMAIN l.epi |-> in(i, ci, rb)], l.ops, "", out),
                        Store(out, y(Ysize(l), ci, rb, "y", e))>>
    IN  strips \o Cat(LAMBDA j : whole(once[j]), 1, Len(once)) \o reserves \o loadTiles(0, 0, 0, TRUE)
          \o Cat(LAMBDA ci : Cat(LAMBDA rb : Scope(mmas(ci, rb) \o epilogue(ci, rb)), 0, nb - 1), 0, nch - 1)

\* The forms it does not write out stay with the lowering (refused here).
LinearRows(l, s) == s.chunk > 0 /\ l.nt % s.chunk = 0 /\ rowsKBlock(l.K) # 0

-----------------------------------------------------------------------------
(* Decode: the chunks alternate between the two banks of ACC and of SPAD_B. *)

\* The strips of a GEMV command (8 at most) and the rows of K of one.
Strips(nc) == Largest(IF nc < 8 THEN nc ELSE 8, nc, LAMBDA c : TRUE)
kBlock(K) == LET row == ((MaxRow \div D) \div D) * D IN IF K < row THEN K ELSE row

\* The weights of chunk tiles c0 .. c0 + nc - 1 against x, into acc.
Gemvs(x, K, base, size, c0, nc, acc, adv) ==
    LET ncg == Strips(nc)
        kb  == kBlock(K)
        One(g, k0) == LET k == IF K - k0 < kb THEN K - k0 ELSE kb
                      IN  Adv(GemvOp(View(x, k0, k), Ddr(base, size, ((c0 + g) * K + k0) * D, ncg, k * D, K * D), View(acc, g * D, ncg * D), k0 > 0), adv)
    IN  Cat(LAMBDA g : Cat(LAMBDA b : <<One(g * ncg, b * kb)>>, 0, CeilDiv(K, kb) - 1), 0, (nc \div ncg) - 1)

expandLinear(l, s) ==
    LET nc   == s.chunk
        nch  == l.nt \div nc
        e    == esz(l)
        oSw  == D * nc
        oY   == D * nc + nc
        useLoop == s.loop /\ ~l.i8
        x    == Buf(<<"x">>, "A", l.K)
        strip == Buf(<<"strip">>, "A", D * l.K)
        head == IF ~l.ports THEN <<Reserve(strip, 0), Load(Line("x", l.K, 0, l.K), x), Strip(x, strip)>>
                ELSE <<Load(Line("x", l.K, 0, l.K), x)>>
        wholes == Of(l, "whole")
        local(i) == Buf(<<"local", i>>, "C", 1)
        bc(i) == Bcasted(<<"bc", i>>, 1)
        scalars == Cat(LAMBDA j : <<Load(Line(InName(wholes[j]), InSize(l, wholes[j]), 0, 4), local(wholes[j])), Bcast(local(wholes[j]), bc(wholes[j]), 0)>>, 1, Len(wholes))
        chunks == Of(l, "chunked")
        slot(m) == IF m = 1 THEN oSw ELSE oY + nc * (m - 1)
        acc(bank)  == Placed(<<"acc", bank>>, "C", nc * D, bank * CBANK)
        out(bank)  == IF l.i8 THEN Buf(<<"out", bank>>, "A", nc * D) ELSE Placed(<<"out", bank>>, "C", nc * D, bank * CBANK + oY)
        col(bank, m) == Placed(<<"col", bank, m>>, "C", nc * D, bank * CBANK + slot(m))
        tiles(bank) == Tiles(<<"tiles", bank>>, bank, nc * l.K * D)
        adv(o, dyn, j) == IF dyn THEN Adv(o, j) ELSE o
        \* chunk 0's weights may be loaded in the prefix
        weights(i, dyn) == adv([Load(Ddr("w", Wsize(l), i * nc * l.K * D, nc, l.K * D, l.K * D), tiles(i % 2)) EXCEPT !.pre = i = 0 /\ l.first], dyn, 1)
        loadChunk(i, dyn) ==
            (IF ~l.ports THEN <<weights(i, dyn)>> ELSE <<>>)
              \o [m \in DOMAIN chunks |-> adv(Load(Line(InName(chunks[m]), InSize(l, chunks[m]), 4 * i * nc * D, 4 * nc * D), col(i % 2, m)), dyn, 2)]
        nth(i) == CHOOSE m \in DOMAIN chunks : chunks[m] = i
        in(i, bank) == IF l.epi[i] = "whole" THEN In(bc(i), "scalar") ELSE In(col(bank, nth(i)), "id")
        yAt(i) == Line("y", Ysize(l), e * i * nc * D, e * nc * D)
        chunkAt(i, dyn, prefetch) ==
            LET bank == i % 2
            IN  (IF ~l.ports THEN <<Mma(strip, tiles(bank), acc(bank), l.K, nc, FALSE)>>
                 ELSE Gemvs(x, l.K, "w", Wsize(l), i * nc, nc, acc(bank), IF dyn THEN 1 ELSE 0))
                  \o (IF prefetch THEN loadChunk(i + 1, dyn) ELSE <<>>)
                  \o (IF ~Epilogue(l) THEN <<adv(Store(acc(bank), yAt(i)), dyn, 2)>>
                      ELSE <<InBank(Generic(<<nc * D>>, <<In(acc(bank), "id")>> \o [k \in DOMAIN l.epi |-> in(k, bank)], l.ops, "", out(bank)), bank + 1),
                             adv(Store(out(bank), yAt(i)), dyn, 2)>>)
        pairs == IF useLoop THEN (nch - 1) \div 2 ELSE 0
    IN  head \o scalars \o loadChunk(0, FALSE)
          \o (IF pairs = 0 THEN <<>>
              ELSE Loop(pairs, <<2 * nc * l.K * D, 2 * 4 * nc * D>>, chunkAt(0, TRUE, TRUE) \o chunkAt(1, TRUE, TRUE)))
          \o Cat(LAMBDA i : chunkAt(i, FALSE, i + 1 < nch), 2 * pairs, nch - 1)

Linear1(l, s) == s.chunk > 0 /\ l.nt % s.chunk = 0 /\ l.K % D = 0 /\ \A i \in DOMAIN l.epi : l.epi[i] \in {"whole", "chunked"}

\* Written out, or left as it is.
Linear(l) ==
    LET s == linearSchedule(l)
    IN  CASE l.M > 0 /\ LinearRows(l, s) -> expandLinearRows(l, s)
          [] l.M = 0 /\ Linear1(l, s) -> expandLinear(l, s)
          [] OTHER -> <<>>

-----------------------------------------------------------------------------
(* Decode's gated feed-forward pair on the GEMV unit: h = gating(x . W1,       *)
(* x . W2), then its amax and the int8 output, in chunks.  While the vector    *)
(* engine works on a chunk the next one's weights stream; every buffer of a    *)
(* chunk is in the bank of its parity.                                        *)

kFfnChunks == 6

\* f: K, nt; the gating's inputs after the two accumulators (epi: "chunked" or
\* "whole") and its operations; amax: h's maximum is taken; q: h is quantised
\* with it; kept: h itself is stored too.
Split(f) == f.amax /\ f.q /\ ~f.kept
Chunked(f) == Of(f, "chunked")
Wholes(f) == Of(f, "whole")
Words(f, c) == (2 + Len(Chunked(f))) * c + (IF Split(f) THEN CeilDiv(f.nt \div c, 2) * c ELSE 0) + Len(Wholes(f))
FfnFits(f, c) == Words(f, c) <= SCR

ffnChunk(f) ==
    LET room == (CBANK - SCR) \div (2 * (IF f.ops = <<>> THEN 1 ELSE Len(f.ops)))
        part == IF f.nt < kFfnChunks THEN 1 ELSE f.nt \div kFfnChunks
    IN  Largest(IF room < part THEN room ELSE part, f.nt, LAMBDA c : FfnFits(f, c))

HSize(f) == 4 * N(f)
Amax(f) == Bcasted(<<"amax">>, 1)
H0(f) == Buf(<<"h">>, "C", N(f))
Y8(f) == Buf(<<"y8">>, "A", N(f))

expandFfn(f) ==
    LET nc  == ffnChunk(f)
        nch == f.nt \div nc
        oH  == (2 + Len(Chunked(f))) * nc
        oW  == oH + (IF Split(f) THEN CeilDiv(nch, 2) * nc ELSE 0)
        x   == Buf(<<"x">>, "A", f.K)
        place(name, bank, word, n) == Placed(<<name, bank, word>>, "C", n, bank * CBANK + word)
        sc(bank, q)  == place("scalar", bank, oW + q - 1, 1)
        acc(bank, j) == place("acc", bank, (j - 1) * nc, nc * D)
        col(bank, m) == place("col", bank, (1 + m) * nc, nc * D)
        hb(bank)     == place("half", bank, oH, CeilDiv(nch, 2) * nc * D)
        slice(i) == IF Split(f) THEN View(hb(i % 2), (i \div 2) * nc * D, nc * D) ELSE View(H0(f), i * nc * D, nc * D)
        W(j) == IF j = 1 THEN "w1" ELSE "w2"
        gemvs(i, j) == Gemvs(x, f.K, W(j), Wsize(f), i * nc, nc, acc(i % 2, j), 0)
        scales(i) == [m \in DOMAIN Chunked(f) |->
                        Load(Line(InName(Chunked(f)[m]), HSize(f), 4 * i * nc * D, 4 * nc * D), col(i % 2, m))]
        nth(s, i) == CHOOSE m \in DOMAIN s : s[m] = i
        in(i, bank) == IF f.epi[i] = "whole" THEN In(sc(bank, nth(Wholes(f), i)), "scalar") ELSE In(col(bank, nth(Chunked(f), i)), "id")
        gating(i) == InBank(Generic(<<nc * D>>, <<In(acc(i % 2, 1), "id"), In(acc(i % 2, 2), "id")>> \o [k \in DOMAIN f.epi |-> in(k, i % 2)],
                                    f.ops, "", slice(i)), (i % 2) + 1)
        amaxOf(h, n, i) == Accumulate(Generic(<<n>>, <<In(h, "id")>>, <<Op("abs", <<1>>)>>, "max", Amax(f)), i > 0)
        int8Of(h, n, y) == Generic(<<n>>, <<In(h, "id"), In(Amax(f), "scalar")>>, <<Op("q", <<1, 2>>)>>, "", y)
        chunk(i) ==
            (IF i + 1 < nch THEN gemvs(i + 1, 1) ELSE <<>>)
              \o Scope(<<gating(i)>> \o (IF Split(f) THEN <<InBank(amaxOf(slice(i), nc * D, i), (i % 2) + 1)>> ELSE <<>>))
              \o (IF i + 1 < nch THEN gemvs(i + 1, 2) \o scales(i + 1) ELSE <<>>)
        scalars == Cat(LAMBDA q : Cat(LAMBDA bank : <<Load(Line(InName(Wholes(f)[q]), InSize(f, Wholes(f)[q]), 0, 4), sc(bank, q))>>, 0, 1), 1, Len(Wholes(f)))
        amaxAfter == CASE Split(f) \/ ~f.amax -> <<>>
                       [] nch > 1 -> <<Reserve(Amax(f), 0)>> \o Cat(LAMBDA i : Scope(<<amaxOf(slice(i), nc * D, i)>>), 0, nch - 1)
                       [] OTHER -> <<amaxOf(H0(f), N(f), 0)>>
        int8After == CASE ~f.q -> <<>>
                       [] Split(f) \/ nch > 1 -> <<Reserve(Y8(f), 0)>> \o
                            Cat(LAMBDA i : Scope(<<int8Of(slice(i), nc * D, View(Y8(f), i * nc * D, nc * D))>>), 0, nch - 1)
                       [] OTHER -> <<int8Of(H0(f), N(f), Y8(f))>>
        stored(yes, b, dst) == IF yes THEN <<Store(b, dst)>> ELSE <<>>
    IN  (IF Split(f) THEN <<>> ELSE <<Reserve(H0(f), 0)>>) \o <<Load(Line("x", f.K, 0, f.K), x)>> \o scalars
          \o (IF Split(f) THEN <<Reserve(Amax(f), 0)>> ELSE <<>>) \o gemvs(0, 1) \o gemvs(0, 2) \o scales(0)
          \o Cat(chunk, 0, nch - 1) \o amaxAfter \o int8After
          \o stored(f.kept, H0(f), Line("h", HSize(f), 0, HSize(f))) \o stored(f.amax, Amax(f), Line("s", 4, 0, 4))
          \o stored(f.q, Y8(f), Line("y8", N(f), 0, N(f)))

\* Written out, or left as it is.
Ffn(f) == IF f.ports /\ f.K % D = 0 /\ ffnChunk(f) > 0 /\ FfnFits(f, ffnChunk(f)) THEN expandFfn(f) ELSE <<>>
==============================================================================
