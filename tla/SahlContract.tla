----------------------------- MODULE SahlContract ----------------------------
(* Any other contraction y[b, g, n] = epilogue(sum over k of x[b, g, k] *      *)
(* M[b, n, k]): the matrix packed in tiles, in rows to transpose, or K-major; *)
(* K or N may be the cache's length T, known when the kernel runs.            *)
(* The scores of rows of q against a K cache too long for a bank of SPAD_B are *)
(* computed in blocks of its rows.                                            *)
EXTENDS Sahl

CONSTANTS
    HalfMin,      \* bytes of raw rows from which half a block is worth its own transpose (8192)
    MaxShift      \* the largest shift a count can be computed with (15)

-----------------------------------------------------------------------------
(* Sizes. *)

RECURSIVE floor2(_)
floor2(n) == IF n <= 1 THEN n ELSE 2 * floor2(n \div 2)
RECURSIVE ceil2(_)
ceil2(n) == IF n <= 1 THEN 1 ELSE 2 * ceil2(CeilDiv(n, 2))
RECURSIVE Log2(_)
Log2(n) == IF n <= 1 THEN 0 ELSE 1 + Log2(n \div 2)

\* Tiles of a block of rows of K bytes: a power of two, at most a bank's and
\* blk rows' worth.
BlockTiles(K, blk) ==
    LET bank == floor2(SBANK \div K)
        want == IF blk \div D < 1 THEN 1 ELSE floor2(blk \div D)
    IN  IF want < bank THEN want ELSE bank

\* (a mutant: whole blocks only, the rows after them are never read)
BlockCount_Short(T, tb) ==
    LET M  == ceil2(IF MaxT \div D < 2 THEN 2 ELSE MaxT \div D)
        sh == Log2(tb) + Log2(M)
    IN  IF sh <= MaxShift THEN (T * (M - 1)) \div 2^sh ELSE T \div tb

\* ceil(T / tb) as a product and a shift when the shift is not too long, else
\* T >> log2 tb + 1: one block too many for a T of whole blocks.
BlockCount(T, tb) ==
    LET M  == ceil2(IF MaxT \div D < 2 THEN 2 ELSE MaxT \div D)
        sh == Log2(tb) + Log2(M)
    IN  IF sh <= MaxShift THEN (T * (M - 1)) \div 2^sh + 1 ELSE T \div tb + 1

Halved(nb, K) == IF nb > 1 /\ ((nb * D) \div 2) * K >= HalfMin THEN 2 ELSE 1

-----------------------------------------------------------------------------
(* The loop over the blocks, software-pipelined: a pass loads block i's rows,  *)
(* multiplies block i - 1 and moves its scores to their rows, and transposes   *)
(* block i; the last block's multiplication follows the loop.  The first       *)
(* pass's scores (of no block) go to a guard block in front of each row.  A    *)
(* block may be two halves, in alternating banks.                             *)

\* s: K, nb, the cache (base, size, the first row's offset, its pitch), the
\* commands of an EX (bank, elements of a row) and of the rows' copies.
HalfTiles(s, bank) == Tiles(<<"half", bank>>, bank, (s.nb \div s.nh) * D * s.K)
halfOf(s, hb, ex(_, _), move(_), rows, h) ==
    <<Adv(Load(Ddr(s.base, s.size, s.off + h * hb * s.pitch, hb, s.K, s.pitch), rows), 1)>>
      \o ex(HalfTiles(s, (h + s.nh - 1) % s.nh), hb)
      \o (IF s.nh = 1 THEN move(0) ELSE <<>>)
      \o <<Transpose(rows, HalfTiles(s, h), hb, s.K)>>
      \o (IF s.nh > 1 THEN move(IF h = 0 THEN s.nb * D - hb ELSE s.nb * D) ELSE <<>>)
halvesLoop(s, T, hb, ex(_, _), move(_)) ==
    Loop(BlockCount(T, s.nb * D), <<s.nb * D * s.pitch, s.nb>>,
         Cat(LAMBDA h : halfOf(s, hb, ex, move, Placed(<<"raw">>, "A", hb * s.K, SBANK), h), 0, s.nh - 1))
      \o ex(HalfTiles(s, s.nh - 1), hb) \o move(s.nb * D - hb)
TLoop(s, T, ex(_, _), copies(_, _, _)) ==
    halvesLoop(s, T, (s.nb \div s.nh) * D, ex, LAMBDA at : copies(at, (s.nb \div s.nh) * D, 2))

\* Rows of q (word `rows` of SPAD_A on) as the rows of one A tile, at word `at`:
\* transposed as a whole, then block by block.
ATile(rows, at, K) ==
    LET all  == Placed(<<"staged">>, "A", D * K, rows)
        cols == Placed(<<"cols">>, "A", K * D, rows + K)
    IN  <<Transpose(all, cols, D, K), Transpose(cols, Placed(<<"atile", at>>, "A", D * K, at), K, D)>>

-----------------------------------------------------------------------------
(* A contraction. *)


\* c: H batches, G rows of x each, K, N (MaxT when it is T: dyn "K" or "N"); T;
\* layout "packed", "rowsK" or "rowsN"; i32: x int32; epi: inputs "elem", "col",
\* "row" (one a row of x) or "one", ops its operations, i8 its result int8; blk:
\* rows of T a block; ports: a GEMV unit; first: nothing is emitted before it.
Tn(c) == c.N \div D
Results(c) == IF c.dyn = "N" THEN c.T ELSE c.N       \* of a row
Length(c) == IF c.dyn = "K" THEN c.T ELSE c.K
Xe(c) == IF c.i32 THEN 4 ELSE 1
Ye(c) == IF c.i8 THEN 1 ELSE 4
InRaw(c) == ~c.i32 /\ c.layout # "rowsK"
GemvDyn(c) == c.ports /\ c.dyn = "K" /\ c.layout = "packed" /\ c.K * D <= MaxRow

\* Where things are in DDR: x by rows (of T bytes when T is K), the packed
\* matrix [H, N / D, K, D], the others rows of all batches together.
XSize(c) == Xe(c) * c.H * c.G * Length(c)
MSize(c) == c.H * c.N * c.K
MAt(c, b, n, k) ==
    CASE c.layout = "packed" -> ((b * Tn(c) + n \div D) * c.K + k) * D + (n % D)
      [] c.layout = "rowsK" -> (n * c.H + b) * c.K + k
      [] c.layout = "rowsN" -> (k * c.H + b) * c.N + n
YSize(c) == Ye(c) * c.H * c.G * Results(c)
YAt(c, e, b, g, n) == e * ((b * c.G + g) * Results(c) + n)
EpiSize(c, i) == 4 * (CASE c.epi[i] = "elem" -> c.H * c.G * c.N [] c.epi[i] = "col" -> c.N
                        [] c.epi[i] = "row" -> c.H * c.G [] c.epi[i] = "one" -> 1)
EpiName(i) == <<"in", i>>

-----------------------------------------------------------------------------
(* Sizes chosen. *)

\* The word an int32 x will get: the allocators' work before it done again.
RECURSIVE Bump(_, _, _)
Bump(sizes, acc, at) ==
    IF sizes = <<>> THEN at
    ELSE LET b == IF acc[1] + Head(sizes) <= CBANK THEN 1 ELSE 2
         IN  IF acc[b] + Head(sizes) > b * CBANK THEN -1 ELSE Bump(Tail(sizes), [acc EXCEPT ![b] = @ + Head(sizes)], acc[b])
xAt(c) ==
    LET rowv == CeilDiv(c.H * c.G, D)
        of(i) == CASE c.epi[i] = "row" -> <<rowv, rowv * D, rowv * D>> [] c.epi[i] = "one" -> <<1, 1>> [] OTHER -> <<>>
    IN  IF InRaw(c) THEN SBANK ELSE Bump(Cat(of, 1, Len(c.epi)) \o <<CeilDiv(c.K, D)>>, <<SCR, CBANK + SCR>>, -1)

Least(a, b) == IF a < b THEN a ELSE b
kMax(c) ==
    LET depth == IF InRaw(c) THEN 2 * SBANK ELSE 2 * CBANK
    IN  Least(Least(SBANK, ((MaxRow \div D) \div D) * D), ((depth - xAt(c) - c.K \div D) \div D) * D)
kBlk(c) == Least(c.K, kMax(c))

\* Tiles of a chunk: the largest part of the row's that fits a bank.
chunkOf(c) ==
    IF c.dyn = "N" \/ GemvDyn(c) THEN Tn(c)
    ELSE CHOOSE n \in 1..Tn(c) :
            /\ Tn(c) % n = 0 /\ (n = 1 \/ c.kc * n <= SBANK)
            /\ \A j \in n+1..Tn(c) : Tn(c) % j = 0 => c.kc * j > SBANK

\* A contraction with its sizes: elements of a block of K, their number, tiles of
\* a chunk, of a block of T and how many halves it is.
sized(c) ==
    LET k == c @@ [kc |-> kBlk(c)]
    IN  k @@ [nk |-> CeilDiv(c.K, k.kc), nc |-> chunkOf(k), nb |-> BlockTiles(c.K, c.blk)]
Blocked(s) == s.kc * s.nc > SBANK /\ ~GemvDyn(s)

\* The forms written out here.
Expandable(c) ==
    /\ c.dyn = "" \/ GemvDyn(c) \/ c.layout # "packed"
    /\ c.dyn = "K" => c.layout # "rowsK"
    /\ c.dyn = "N" => c.layout = "rowsK" /\ c.ops # <<>> /\ ~c.i8 /\ \A i \in DOMAIN c.epi : c.epi[i] \in {"row", "one"}
    /\ c.K % D = 0 /\ c.N % D = 0
    /\ c.i32 = (c.layout = "rowsK")
    /\ InRaw(c) => c.K \div D <= SBANK
    /\ ~InRaw(c) => c.first /\ xAt(c) >= 0
    /\ kMax(c) >= D
Chunkable(s) ==
    /\ s.nk > 1 => s.G = 1 /\ s.dyn = ""
    /\ Blocked(s) => /\ s.dyn = "N" /\ s.nk = 1
                     /\ IF s.G > 1 THEN s.G <= D /\ 2 * s.K <= SBANK ELSE s.K <= SBANK

-----------------------------------------------------------------------------
(* x, the matrix and a row's result. *)

\* Inputs loaded once and broadcast: one a row of x, or one.
timesOf(c, i) == IF c.epi[i] = "row" THEN c.H * c.G ELSE 1
spread(c, i) == Bcasted(<<"bc", i>>, timesOf(c, i))
loadOnce(c, i, n, v) ==
    <<Load(Line(EpiName(i), EpiSize(c, i), 0, 4 * n), v), Bcast(v, spread(c, i), IF c.epi[i] = "row" THEN 1 ELSE 0)>>
broadcasts(c) == Cat(LAMBDA i : IF c.epi[i] \in {"row", "one"} THEN loadOnce(c, i, timesOf(c, i), Buf(<<"local", i>>, "C", timesOf(c, i))) ELSE <<>>,
                     1, Len(c.epi))

\* Row (b, g) of x; K elements, or T at the cursor, which moves on.
xBuf(c) == IF InRaw(c) THEN Placed(<<"x">>, "A", c.K, SBANK) ELSE Buf(<<"x">>, IF c.i32 THEN "C" ELSE "A", c.K)
xRow(c, b, g) == Xe(c) * (b * c.G + g) * c.K
loadX(c, b, g) ==
    IF c.dyn = "K" THEN <<AtCursor(Load(Line("x", XSize(c), 0, c.T), View(xBuf(c), 0, c.T)), TRUE)>>
    ELSE <<Load(Line("x", XSize(c), xRow(c, b, g), Xe(c) * c.K), xBuf(c))>>

\* kl elements of it as an A tile of D equal rows (T of them when K is T).
usedOf(c, kl) == IF c.dyn = "K" THEN c.T ELSE kl
stripA(kl) == Placed(<<"strip", kl>>, "A", D * kl, 0)
replicate(c, k0, kl) == <<Strip(View(xBuf(c), k0, usedOf(c, kl)), stripA(kl))>>

\* The tiles of a chunk (and block of K), the banks in turn.
bTiles(s, bank) == Tiles(<<"tiles", bank>>, bank, s.nc * s.kc * D)
matrix(s, off, rows, rb, pitch) == Ddr("w", MSize(s), off, rows, rb, pitch)
rowsThrough(s, off, rows, kl, bank, by) == <<Load(matrix(s, off, rows, kl, s.H * s.K), by), Transpose(by, bTiles(s, bank), rows, kl)>>
loadB(s, b, c0, k0, kl, bank) ==
    CASE s.layout = "packed" -> <<Load(matrix(s, MAt(s, b, c0 * D, k0), s.nc, kl * D, s.K * D), bTiles(s, bank))>>
      [] s.layout = "rowsK" -> rowsThrough(s, MAt(s, b, c0 * D, k0), IF s.dyn = "N" THEN s.T ELSE s.nc * D, kl, bank,
                                           Placed(<<"raws">>, "A", s.nc * D * s.kc, SBANK))
      [] s.layout = "rowsN" ->
           <<Interleaved(Load(matrix(s, MAt(s, b, c0 * D, k0), usedOf(s, kl), s.nc * D, s.H * s.N), bTiles(s, bank)))>>
mmaChunk(s, kl, bank, more) ==
    <<MmaOf(stripA(kl), bTiles(s, bank), Buf(<<"acc">>, "C", s.nc * D), usedOf(s, kl), s.nc, IF s.dyn = "N" THEN s.T \div D ELSE s.nc, more)>>

\* A row's result: the epilogue over its accumulator, stored; rows of T at the
\* cursor, which stays after the last one.
outView(s, b, g, c0) == Line("y", YSize(s), YAt(s, Ye(s), b, g, c0 * D), Ye(s) * s.nc * D)
stored(s, buf, b, g, c0) ==
    IF s.dyn = "N" THEN <<AtCursor(Store(buf, Line("y", YSize(s), 0, 4 * s.T)), ~(b + 1 = s.H /\ g + 1 = s.G))>>
    ELSE <<Store(buf, outView(s, b, g, c0))>>
pieceOf(s, i) == Buf(<<"piece", i>>, "C", s.nc * D)
pieces(s, b, g, c0) ==
    Cat(LAMBDA i : IF s.epi[i] \in {"elem", "col"}
                   THEN <<Load(Line(EpiName(i), EpiSize(s, i), IF s.epi[i] = "elem" THEN YAt(s, 4, b, g, c0 * D) ELSE 4 * c0 * D, 4 * s.nc * D), pieceOf(s, i))>>
                   ELSE <<>>, 1, Len(s.epi))
epiIn(s, i, w) ==
    IF s.epi[i] \in {"elem", "col"} THEN In(pieceOf(s, i), "id")
    ELSE In(View(spread(s, i), IF s.epi[i] = "row" THEN w ELSE 0, 1), "scalar")
epilogueOf(s, from, to, w) ==
    LET o == Generic(<<s.nc * D>>, <<In(from, "id")>> \o [i \in DOMAIN s.epi |-> epiIn(s, i, w)], s.ops, "", to)
    IN  IF s.dyn = "N" THEN DynLen(o, s.T) ELSE o
finishInto(s, from, to, b, g, c0) ==
    <<Reserve(to, 0)>> \o pieces(s, b, g, c0) \o <<epilogueOf(s, from, to, b * s.G + g)>> \o stored(s, to, b, g, c0)
finish(s, from, b, g, c0) ==
    IF s.ops = <<>> THEN stored(s, from, b, g, c0)
    ELSE finishInto(s, from, Buf(<<"out">>, IF s.i8 THEN "A" ELSE "C", s.nc * D), b, g, c0)

-----------------------------------------------------------------------------
(* A batch. *)

\* p . V on the GEMV unit: at most 8 tiles a command.
gemvPart(s, b, t, n) ==
    <<GemvOp(xBuf(s), matrix(s, MAt(s, b, t * D, 0), n, s.T * D, s.K * D), View(Buf(<<"acc">>, "C", s.nc * D), t * D, n * D), FALSE)>>
streamed(s, b, g) ==
    loadX(s, b, g) \o Scope(Cat(LAMBDA j : gemvPart(s, b, 8 * j, Least(8, Tn(s) - 8 * j)), 0, CeilDiv(Tn(s), 8) - 1)
                              \o finish(s, Buf(<<"acc">>, "C", s.nc * D), b, g, 0))

\* q . K^T in blocks of T: x's rows as one A tile (one row: replicated), every
\* row's scores in a buffer with a guard block.
aTileOf(s) == Placed(<<"atile", 0>>, "A", D * s.K, 0)
rowsIn(s, b, to, xa) ==
    IF s.i32 THEN <<Load(Line("x", XSize(s), xRow(s, b, 0), 4 * s.G * s.K), xa), PackedStrip(xa, to)>>
    ELSE <<Load(Ddr("x", XSize(s), xRow(s, b, 0), s.G, s.K, s.K), to)>>
aTile(s, b) ==
    IF s.G = 1 THEN loadX(s, b, 0) \o <<Strip(View(xBuf(s), 0, s.K), aTileOf(s))>>
    ELSE rowsIn(s, b, View(Placed(<<"staged">>, "A", D * s.K, SBANK), 0, s.G * s.K), Buf(<<"xa">>, "C", s.G * s.K)) \o ATile(SBANK, 0, s.K)
scoresOf(s, g, tb) == Buf(<<"row", g>>, "C", (MaxT \div tb + 2) * tb)
blocks(s, b, tb, blockAcc) ==
    aTile(s, b) \o <<Reserve(blockAcc, 0)>> \o [g \in 1..s.G |-> Reserve(scoresOf(s, g - 1, tb), 0)]
      \o TLoop([K |-> s.K, nb |-> s.nb, nh |-> Halved(s.nb, s.K), base |-> "w", size |-> MSize(s), off |-> MAt(s, b, 0, 0), pitch |-> s.H * s.K], s.T,
               LAMBDA tl, hb : <<Mma(aTileOf(s), tl, View(blockAcc, 0, D * hb), s.K, hb \div D, FALSE)>>,
               LAMBDA at, hb, adv : [g \in 1..s.G |-> Adv(Copy(View(blockAcc, (g - 1) * hb, hb), View(scoresOf(s, g - 1, tb), at, hb)), adv)])
      \o Cat(LAMBDA g : Scope(finish(s, View(scoresOf(s, g, tb), tb, (MaxT \div tb + 1) * tb), b, g, 0)), 0, s.G - 1)
blockedBatch(s, b) == Scope(blocks(s, b, s.nb * D, Buf(<<"scratch">>, "C", D * s.nb * D)))

\* Else a chunk at a time; with K in blocks (one row then), each block's tiles
\* and elements of x come before its multiplication.
blockOfK(s, b, ci, k0, kl, step) ==
    loadB(s, b, ci * s.nc, k0, kl, step % 2) \o replicate(s, k0, kl) \o mmaChunk(s, kl, step % 2, k0 > 0)
products(s, b, ci) ==
    IF s.nk = 1 THEN mmaChunk(s, s.K, ci % 2, FALSE)
    ELSE Cat(LAMBDA kb : blockOfK(s, b, ci, kb * s.kc, Least(s.kc, s.K - kb * s.kc), ci * s.nk + kb), 0, s.nk - 1)
rowScope(s, ops) == IF s.ops # <<>> /\ InRaw(s) THEN ScopeFrom(SBANK + CeilDiv(s.K, D), ops) ELSE Scope(ops)
rowOfChunk(s, b, ci, g) ==
    (IF s.G > 1 THEN loadX(s, b, g) \o replicate(s, 0, s.K) ELSE <<>>)
      \o rowScope(s, products(s, b, ci) \o finish(s, Buf(<<"acc">>, "C", s.nc * D), b, g, ci * s.nc))
chunkAt(s, b, ci) ==
    (IF s.dyn = "K" /\ s.G > 1 /\ ci > 0 THEN <<CursorReset(b * s.G)>> ELSE <<>>)
      \o (IF s.nk = 1 THEN loadB(s, b, ci * s.nc, 0, s.K, ci % 2) ELSE <<>>)
      \o Cat(LAMBDA g : rowOfChunk(s, b, ci, g), 0, s.G - 1)
chunks(s, b) ==
    (IF s.G = 1 THEN loadX(s, b, 0) \o (IF s.nk = 1 THEN replicate(s, 0, s.K) ELSE <<>>) ELSE <<>>)
      \o Cat(LAMBDA ci : chunkAt(s, b, ci), 0, (Tn(s) \div s.nc) - 1)

batchOf(s, b) ==
    CASE GemvDyn(s) -> Cat(LAMBDA g : streamed(s, b, g), 0, s.G - 1)
      [] Blocked(s) -> blockedBatch(s, b)
      [] OTHER -> chunks(s, b)
expandContraction(s) ==
    <<Claim(2 * SBANK)>> \o broadcasts(s) \o (IF InRaw(s) THEN <<>> ELSE <<Reserve(xBuf(s), 0)>>)
      \o (IF s.dyn # "" THEN <<CursorReset(0)>> ELSE <<>>) \o Cat(LAMBDA b : batchOf(s, b), 0, s.H - 1)

IfChunkable(s) == IF Chunkable(s) THEN expandContraction(s) ELSE <<>>
Contraction(c) == IF Expandable(c) THEN IfChunkable(sized(c)) ELSE <<>>
==============================================================================
