------------------------------ MODULE SahlAttn -------------------------------
(* The fused attention kernels: a decode step's scores or values alone, its   *)
(* whole attention (scores, masked maximum, probabilities, their sum, p . V), *)
(* and a prefill chunk's, D rows at a time in two passes over the cache.      *)
EXTENDS SahlContract

\* a: H KV heads, G query heads each, K a head's length, T rows of the caches in
\* use; pos: the row's position (the rows' positions in a chunk); blk: rows of a
\* block; qi8: q is int8 in SPAD_A; scores: the first half of "attn".
Units(a) == a.H * a.G
KSize(a) == MaxT * a.H * a.K                  \* K: [MaxT, H, K]
VSize(a) == a.H * a.K * MaxT                  \* V: [H, K / D, MaxT, D]
KAt(a, n, b, k) == (n * a.H + b) * a.K + k
VAt(a, b, n, c) == ((b * (a.K \div D) + c \div D) * MaxT + n) * D + (c % D)
KRows(a, from, rows, b) == Ddr("kc", KSize(a), KAt(a, from, b, 0), rows, a.K, a.H * a.K)
SqOf(b) == In(b, "scalar")

-----------------------------------------------------------------------------
(* Scores, or values, of one row a head. *)

Attention(a) ==
    LET H == a.H
        K == a.K
        hw == K \div D
        strip(n) == Placed(<<"strip">>, "A", D * n, 0)
        sq == Buf(<<"sq">>, "C", H)
        sqb == Bcasted(<<"sqb">>, H)
        srcw == Buf(<<"srcw">>, "C", K)
        rows(id) == Rows(id, H)
        cS == Buf(<<"c">>, "C", D * MaxT)
        raw == Placed(<<"raw">>, "A", MaxT * K, SBANK)
        kt == Tiles(<<"kt">>, 0, MaxT * K)
        dyn(o) == DynLen(o, a.T)
        score(h) ==
            <<Load(KRows(a, 0, a.T, h), raw), Transpose(raw, kt, a.T, K),
              Load(Line("x", 4 * H * K, 4 * h * K, 4 * K), srcw), Strip(srcw, strip(K)),
              MmaOf(strip(K), kt, cS, K, MaxT \div D, a.T \div D, FALSE),
              dyn(Generic(<<MaxT>>, <<In(cS, "id"), SqOf(View(sqb, h, 1))>>, <<Op("mul", <<1, 2>>)>>, "", RowView(rows(<<"res">>), h)))>>
        pl == rows(<<"p">>)
        cV == Buf(<<"c">>, "C", D * hw * D)
        res == Buf(<<"res">>, "C", K)
        vb == Tiles(<<"vb">>, 1, hw * MaxT * D)
        value(h) ==
            <<Strip(View(RowView(pl, h), 0, a.T), strip(MaxT)),
              Interleaved(Load(KRows(a, 0, a.T, h), vb)), MmaOf(strip(a.T), vb, cV, a.T, hw, hw, FALSE),
              Generic(<<K>>, <<In(cV, "id")>>, <<Op("scale", <<1>>)>>, "", res),
              Store(res, Line("y", 4 * H * K, 4 * h * K, 4 * K))>>
    IN  <<Claim(2 * SBANK)>> \o
        IF a.scores
        THEN <<Load(Line("sq", 4 * H, 0, 4 * H), sq), Bcast(sq, sqb, 1), Reserve(srcw, 0), Reserve(cS, 0), Reserve(rows(<<"res">>), 0)>>
               \o Cat(score, 0, H - 1) \o <<RowsStore(rows(<<"res">>), Line("y", 4 * H * a.T, 0, 4 * a.T), H)>>
        ELSE <<RowsLoad(Line("x", 4 * H * a.T, 0, 4 * a.T), pl, H), Reserve(cV, 0), Reserve(res, 0)>> \o Cat(value, 0, H - 1)

AttentionFits(a) == MaxT % D = 0 /\ a.K % D = 0 /\ MaxT * (a.K \div D) <= SBANK

-----------------------------------------------------------------------------
(* A decode step's attention; interleave: a head's probabilities while the     *)
(* next head's scores are computed.                                           *)

\* The A tiles: D rows of q each in order when a head's rows stay in one tile,
\* else one a head.
sharedTiles(a) == D % a.G = 0 \/ Units(a) <= D
nA(a) == IF sharedTiles(a) THEN CeilDiv(Units(a), D) ELSE a.H
aRows(a) == IF sharedTiles(a) THEN Least(D, Units(a)) ELSE a.G
qWords(a) == CeilDiv(Units(a) * a.K, D)
rawWords(a) == (MaxT * a.K) \div D
rowWords == CeilDiv(MaxT, D)
pInBank1(a) == rawWords(a) + rowWords <= SBANK
\* A head's cache in a bank of SPAD_B, or in blocks.
Whole(a) ==
    /\ qWords(a) + nA(a) * a.K + (IF pInBank1(a) THEN 0 ELSE rowWords) <= SBANK
    /\ rawWords(a) <= SBANK
    /\ ((aRows(a) + D) * a.K) \div D <= SBANK
tbOf(a) == BlockTiles(a.K, a.blk) * D
rowElems(a) == IF Whole(a) THEN MaxT ELSE (MaxT \div tbOf(a) + 1) * tbOf(a)
\* The word of p's row.
pAt(a) == IF Whole(a) /\ pInBank1(a) THEN SBANK + rawWords(a) ELSE nA(a) * a.K

LayerFits(a) ==
    /\ a.K % D = 0 /\ a.G <= D /\ 2 * a.K <= SBANK /\ BlockTiles(a.K, a.blk) >= 1
    /\ Whole(a) \/ qWords(a) + pAt(a) + CeilDiv(rowElems(a), D) <= SBANK

AttnLayer(a, interleave) ==
    LET H == a.H
        G == a.G
        K == a.K
        nt == K \div D
        npar == IF interleave THEN 2 ELSE 1
        nb == BlockTiles(K, a.blk)
        tb == nb * D
        hb == tb \div Halved(nb, K)
        re == rowElems(a)
        q == Buf(<<"q">>, IF a.qi8 THEN "A" ELSE "C", Units(a) * K)
        sqv == Buf(<<"sqv">>, "C", Units(a))
        sqb == Bcasted(<<"sqb">>, Units(a))
        e == IF a.qi8 THEN 1 ELSE 4
        out == Buf(<<"out">>, "C", Units(a) * K)
        claim == IF Whole(a) THEN SBANK + rawWords(a) + (IF pInBank1(a) THEN rowWords ELSE 0)
                 ELSE SBANK + (IF 2 * K > (hb * K) \div D THEN 2 * K ELSE (hb * K) \div D)
        \* the A tiles, through staged rows in bank 1
        atile(t) == Placed(<<"atile", t * K>>, "A", D * K, t * K)
        tile(t) == LET r0 == IF sharedTiles(a) THEN t * D ELSE t * G
                       nr == IF sharedTiles(a) THEN Least(D, Units(a) - r0) ELSE G
                   IN  <<PackedStrip(View(q, r0 * K, nr * K), Placed(<<"staging", t>>, "A", nr * K, SBANK))>> \o ATile(SBANK, t * K, K)
        tileOf(b) == IF sharedTiles(a) THEN (b * G) \div D ELSE b
        rowIn(b) == IF sharedTiles(a) THEN (b * G) % D ELSE 0
        bank(b) == IF interleave THEN (b % 2) + 1 ELSE 0
        \* what follows a row's scores, in bank b's half of ACC
        post(b, g, acc) ==
            LET u == b * G + g
                srow == Buf(<<"srow", u>>, "C", re)
                mx == Buf(<<"mx", u>>, "C", 1)
                sum == Buf(<<"sum", u>>, "C", 1)
                prow == Placed(<<"prow", u>>, "A", re, pAt(a))
                acc2 == Buf(<<"acc2", u>>, "C", K)
                piece(ranges, ins, ops, red, to) == InBank(DynLen(Generic(ranges, ins, ops, red, to), a.T), bank(b))
                gemv(j) == LET n == Least(8, nt - 8 * j)
                           IN  <<GemvOp(prow, Ddr("vc", VSize(a), VAt(a, b, 0, 8 * j * D), n, a.T * D, MaxT * D), View(acc2, 8 * j * D, n * D), FALSE)>>
            IN  Scope(<<Reserve(srow, bank(b)),
                        piece(<<re>>, <<In(acc, "id"), SqOf(View(sqb, u, 1))>>, <<Op("mul", <<1, 2>>)>>, "", srow),
                        piece(<<re>>, <<In(srow, "id")>>, <<OpK("ninf", <<1>>, a.pos + 1)>>, "max", mx),
                        piece(<<re>>, <<In(srow, "id"), SqOf(mx)>>, <<Op("prob", <<1, 2>>), OpK("mask", <<3>>, a.pos + 1)>>, "", prow),
                        piece(<<re>>, <<In(prow, "id")>>, <<>>, "sum", sum),
                        Reserve(acc2, bank(b))>>
                      \o Cat(gemv, 0, CeilDiv(nt, 8) - 1)
                      \o <<InBank(Generic(<<K>>, <<In(acc2, "id"), SqOf(sum)>>, <<Op("div", <<1, 2>>)>>, "", View(out, u * K, K)), bank(b))>>)
        \* head b's rows, after the next head's scores or right after its own
        posts(b, acc(_, _)) ==
            LET pb == IF interleave THEN b - 1 ELSE b
            IN  IF pb \in 0..H-1 THEN Cat(LAMBDA g : post(pb, g, acc(pb, g)), 0, G - 1) ELSE <<>>
        \* the whole cache of a head in a bank
        rowAcc(par) == Buf(<<"rowAcc", par>>, "C", D * re)
        raw == Placed(<<"raw">>, "A", MaxT * K, SBANK)
        tiles(b) == Tiles(<<"kt", b % 2>>, b % 2, MaxT * K)
        wholeHead(b) ==
            (IF b = H THEN <<>>
             ELSE <<Load(KRows(a, 0, a.T, b), raw), Transpose(raw, tiles(b), a.T, K),
                    MmaOf(atile(tileOf(b)), tiles(b), rowAcc(b % npar), K, MaxT \div D, a.T \div D, FALSE)>>)
              \o posts(b, LAMBDA p, g : View(rowAcc(p % npar), (rowIn(p) + g) * re, re))
        \* or its blocks, each row's scores in a buffer with a guard block in front
        scratch(par) == Buf(<<"scratch", par>>, "C", D * tb)
        rowsAll(par, g) == Buf(<<"rows", par, g>>, "C", tb + re)
        tiledHead(b) ==
            LET par == b % npar
                ex(tl, n) == <<Mma(atile(tileOf(b)), tl, View(scratch(par), 0, D * n), K, n \div D, FALSE)>>
                copies(at, n, adv) == [g \in 1..G |-> Adv(Copy(View(scratch(par), (rowIn(b) + g - 1) * n, n), View(rowsAll(par, g - 1), at, n)), adv)]
            IN  (IF b = H THEN <<>>
                 ELSE TLoop([K |-> K, nb |-> nb, nh |-> Halved(nb, K), base |-> "kc", size |-> KSize(a), off |-> KAt(a, 0, b, 0), pitch |-> H * K], a.T, ex, copies))
                  \o posts(b, LAMBDA p, g : View(rowsAll(p % npar, g), tb, re))
        buffers == IF Whole(a) THEN Cat(LAMBDA par : <<Reserve(rowAcc(par), par + 1)>>, 0, npar - 1)
                   ELSE Cat(LAMBDA par : LET in == IF interleave THEN par + 1 ELSE 0
                                         IN  <<Reserve(scratch(par), in)>> \o [g \in 1..G |-> Reserve(rowsAll(par, g - 1), in)], 0, npar - 1)
    IN  <<Load(Line("q", e * Units(a) * K, 0, e * Units(a) * K), q), Load(Line("sq", 4 * Units(a), 0, 4 * Units(a)), sqv), Reserve(out, 0)>>
          \o Scope(<<ClaimAfter(claim), Bcast(sqv, sqb, 1)>> \o Cat(tile, 0, nA(a) - 1) \o buffers
                     \o Cat(LAMBDA b : IF Whole(a) THEN wholeHead(b) ELSE tiledHead(b), 0, H))
          \o <<Store(out, Line("y", 4 * Units(a) * K, 0, 4 * Units(a) * K))>>

-----------------------------------------------------------------------------
(* A chunk of D rows of a prompt. *)

ctb(a) == LET most == (Least(a.blk, CeilDiv(MaxT, D) * D) \div D) * D IN IF most < D THEN D ELSE most

ChunkFits(a) ==
    LET U == Units(a)
        tb == ctb(a)
    IN  /\ a.K % D = 0 /\ (U * a.K) % D = 0
        /\ 2 * U * a.K <= SBANK /\ U * a.K + 3 * tb <= SBANK /\ U * a.K <= SBANK
        /\ (tb * a.K) \div D <= SBANK /\ (a.K \div D + 1) * tb <= SBANK
        /\ tb = floor2(tb)

AttnChunk(a) ==
    LET G == a.G
        K == a.K
        U == Units(a)
        Up == CeilDiv(U, D) * D
        hgk == U * K
        qw == hgk \div D
        nc == K \div D
        tb == ctb(a)
        pitch == a.H * K
        rawW == (tb * K) \div D
        bufC(id, n) == Buf(id, "C", n)
        at(id, n, word) == Placed(id, "A", n, word)
        sqAll == bufC(<<"sqAll">>, D * Up)
        sqT == bufC(<<"sqT">>, Up * D)
        sqU(u) == Bcasted(<<"sqU", u>>, D)
        \* row m's q and its scales, loaded and staged
        rowQ(m) ==
            LET q == bufC(<<"q", m>>, hgk)
                s == bufC(<<"s", m>>, U)
            IN  Scope(<<Load(Line("q", 4 * D * hgk, 4 * m * hgk, 4 * hgk), q), Load(Line("sq", 4 * D * U, 4 * m * U, 4 * U), s),
                        PackedStrip(q, at(<<"staged", m>>, hgk, SBANK + m * qw)),
                        Generic(<<U>>, <<In(s, "id")>>, <<>>, "", View(sqAll, m * Up, U))>>)
        posB == Bcasted(<<"posB">>, D)
        kidx == bufC(<<"kidx">>, tb)
        cols == at(<<"cols">>, hgk * D, U * K)
        atile(u) == at(<<"atile", u>>, D * K, u * K)
        colsOf(u) == at(<<"colsOf", u>>, K * D, U * K + u * K)
        vtiles == Tiles(<<"vtiles">>, 1, (nc + 1) * tb * D)
        vOnes == View(vtiles, nc * tb * D, tb * D)
        scr == bufC(<<"scr">>, D * tb)
        pblk == at(<<"pblk">>, D * tb, U * K)
        pcols == at(<<"pcols">>, tb * D, U * K + tb)
        pa == at(<<"pa">>, D * tb, U * K + 2 * tb)
        mrun(u) == Bcasted(<<"mrun", u>>, D)
        accPV(u) == bufC(<<"accPV", u>>, D * K)
        accS(u) == bufC(<<"accS", u>>, D * D)
        kt == Tiles(<<"kt">>, 0, tb * K)
        raw == at(<<"raw">>, tb * K, SBANK)
        kBlock(b) == <<Adv(Load(KRows(a, 0, tb, b), raw), 1), Transpose(raw, kt, tb, K)>>
        two(ins, ops, red, to) == Generic(<<D, tb>>, ins, ops, red, to)
        S == bufC(<<"S">>, D * tb)
        Sm == bufC(<<"Sm">>, D * tb)
        \* s' = min(s, (pos - key + 1/2) 1e30)
        capped == <<Op("ahead", <<2, 3>>), Op("big", <<4>>), Op("big", <<5>>), Op("cap", <<1, 6>>)>>
        scores(u) ==
            <<Mma(atile(u), kt, scr, K, tb \div D, FALSE), two(<<In(scr, "id"), In(sqU(u), "row")>>, <<Op("mul", <<1, 2>>)>>, "", S),
              two(<<In(S, "id"), In(posB, "row"), In(kidx, "col")>>, capped, "", Sm)>>
        keysOn == <<Generic(<<tb>>, <<In(kidx, "id")>>, <<OpK("plus", <<1>>, tb)>>, "", kidx)>>
        units(b, F(_)) == Cat(LAMBDA g : F(b * G + g), 0, G - 1)
        maxima(u) == Scope(scores(u) \o <<Accumulate(two(<<In(Sm, "id")>>, <<>>, "max", mrun(u)), TRUE)>>)
        vBlock(b) == Adv(Load(Ddr("vc", VSize(a), VAt(a, b, 0, 0), nc, tb * D, MaxT * D), View(vtiles, 0, nc * tb * D)), 2)
        sums(u) ==
            Scope(scores(u) \o <<two(<<In(Sm, "id"), In(mrun(u), "row")>>, <<Op("prob", <<1, 2>>)>>, "", pblk)>>)
              \o <<Transpose(pblk, pcols, D, tb), Transpose(pcols, pa, tb, D),
                   Mma(pa, View(vtiles, 0, nc * tb * D), accPV(u), tb, nc, TRUE), Mma(pa, vOnes, accS(u), tb, 1, TRUE)>>
        result(u) ==
            LET sumF == Buf(<<"sumF", u>>, "C", D)
                outT == bufC(<<"outT", u>>, D * K)
            IN  Scope(<<Generic(<<D, D>>, <<In(accS(u), "id")>>, <<>>, "max", sumF),
                        Generic(<<D, K>>, <<In(accPV(u), "id"), In(sumF, "row")>>, <<Op("div", <<1, 2>>)>>, "", outT)>>
                      \o [m \in 1..D |-> Store(View(outT, (m - 1) * K, K), Line(<<"y", m - 1>>, 4 * hgk, 4 * u * K, 4 * K))])
        passes == BlockCount(a.T, tb)
        head(b) ==
            Scope(units(b, LAMBDA u : <<Reserve(mrun(u), 0), Reserve(accPV(u), 0), Reserve(accS(u), 0)>>)
                    \o <<Iota(kidx)>> \o units(b, LAMBDA u : <<Splat(mrun(u), NInf)>>)
                    \o Loop(passes, <<tb * pitch, 0>>, kBlock(b) \o units(b, maxima) \o keysOn)
                    \o <<Iota(kidx)>> \o units(b, LAMBDA u : <<Splat(accPV(u), Literal(0)), Splat(accS(u), Literal(0))>>)
                    \o Loop(passes, <<tb * pitch, tb * D>>, kBlock(b) \o <<vBlock(b)>> \o units(b, sums) \o keysOn)
                    \o units(b, result))
    IN  Scope(<<ClaimAfter(SBANK + (IF D * qw > rawW THEN D * qw ELSE rawW)), Reserve(sqAll, 0)>>
                \o Cat(rowQ, 0, D - 1)
                \o <<Reserve(sqT, 0), Transpose(sqAll, sqT, D, Up)>>
                \o [u \in 1..U |-> Bcast(View(sqT, (u - 1) * D, D), sqU(u - 1), 1)]
                \o <<Reserve(posB, 0)>> \o [m \in 1..D |-> Scalar(Line(<<"pos", a.pos[m]>>, 8, 0, 8), View(posB, m - 1, 1))]
                \o <<Reserve(kidx, 0), Transpose(at(<<"rowsq">>, D * hgk, SBANK), cols, D, hgk)>>
                \o [u \in 1..U |-> Transpose(colsOf(u - 1), atile(u - 1), K, D)]
                \o <<Splat(vOnes, Literal(1)), Reserve(scr, 0)>> \o Cat(head, 0, a.H - 1))

\* shrink: the times the compiler has run out of ACC on it.
Attn(a, shrink) ==
    CASE a.kind = "attn" /\ AttentionFits(a) -> Attention(a)
      [] a.kind = "attnLayer" /\ LayerFits(a) -> AttnLayer(a, shrink = 0)
      [] a.kind = "attnChunk" /\ ChunkFits(a) -> AttnChunk(a)
      [] OTHER -> <<>>
==============================================================================
