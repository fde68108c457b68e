------------------------------ MODULE SahlLower ------------------------------
(* sahl-to-sahw: operations on buffers become commands on words.  A buffer    *)
(* gets its words when an operation first uses it: from bump allocators, one  *)
(* for each bank of ACC (above the chunk scratch) and one for SPAD_A, or where *)
(* the expansion placed it.  A scope gives back what was allocated in it.     *)
EXTENDS Sahl

-----------------------------------------------------------------------------
(* Local memory. *)

\* acc, spad: the next free word of each allocator; prefer: the bank to try
\* first (0: none); loc: the words buffers have; bcastOf: values already in the
\* broadcast layout; body: where the loop being lowered starts.
Fresh == [acc |-> <<SCR, CBANK + SCR>>, spad |-> 0, prefer |-> 0, loc |-> <<>>, bcastOf |-> <<>>, stack |-> <<>>, spadBase |-> 0,
          pre |-> <<>>, cmds |-> <<>>, body |-> 0, cursorBytes |-> 0, new |-> [mem |-> "C", word |-> 0], why |-> ""]

Fail(L, why) == IF L.why = "" THEN [L EXCEPT !.why = why] ELSE L

allocAcc(L, words) ==
    LET fits(b) == L.acc[b] + words <= b * CBANK
        b == CASE L.prefer # 0 /\ fits(L.prefer) -> L.prefer [] fits(1) -> 1 [] fits(2) -> 2 [] OTHER -> 0
    IN  IF b = 0 THEN Fail(L, "ACC full") ELSE [L EXCEPT !.acc[b] = @ + words, !.new = [mem |-> "C", word |-> L.acc[b]]]

allocSpad(L, words) ==
    IF L.spad + words > 2 * SBANK THEN Fail(L, "SPAD_A full")
    ELSE [L EXCEPT !.spad = @ + words, !.new = [mem |-> "A", word |-> L.spad]]

AtLeast1(n) == IF n = 0 THEN 1 ELSE n
WordsOf(n, bc) == AtLeast1(IF bc THEN n ELSE CeilDiv(n, D))

\* L with L.new the words of n new elements.
newLocal(L, mem, n, bc) == IF mem = "A" THEN allocSpad(L, WordsOf(n, bc)) ELSE allocAcc(L, WordsOf(n, bc))

\* The words of a buffer, given at its first use.
bufOf(L, b, bcast) ==
    LET bc == b.bc \/ bcast
        \* (bank 0's words of a relative claim come after the buffers already there)
        shift == b.mem = "A" /\ b.at < SBANK /\ L.spadBase > 0
        at == IF shift THEN b.at + L.spadBase ELSE b.at
        L1 == IF b.at >= 0 THEN [L EXCEPT !.new = [mem |-> b.mem, word |-> at]] ELSE newLocal(L, b.mem, b.n, bc)
    IN  IF b.id \in DOMAIN L.loc THEN L
        ELSE IF b.at >= 0 /\ shift /\ at + CeilDiv(b.n, D) > SBANK THEN Fail(L, "a placed SPAD_A buffer past bank 0")
        ELSE [L1 EXCEPT !.loc = b.id :> [mem |-> b.mem, word |-> L1.new.word, bc |-> bc, n |-> b.n] @@ @]

Owner(b) == [b EXCEPT !.off = 0, !.n = b.all]
RECURSIVE bufsOf(_, _)
bufsOf(L, bs) == IF bs = <<>> THEN L ELSE bufsOf(bufOf(L, Owner(Head(bs)), FALSE), Tail(bs))

\* The first word of a view of a buffer that has its words.
WordAt(L, b) == L.loc[b.id].word + (IF L.loc[b.id].bc THEN b.off ELSE b.off \div D)
Emit(L, c) == [L EXCEPT !.cmds = Append(@, c)]

-----------------------------------------------------------------------------
(* One operation: its operands have their words (Operands, in their order). *)

Operands(o) ==
    CASE o.op \in {"load", "splat", "iota", "rows"} -> <<o.b>>
      [] o.op \in {"strip", "packed"} -> <<o.b, o.x>>
      [] o.op \in {"copy", "transpose"} -> <<o.x, o.b>>
      [] o.op = "bcast" -> <<o.v>>
      [] o.op = "mma" -> <<o.a, o.b, o.c>>
      [] o.op = "gemv" -> <<o.x, o.c>>
      [] OTHER -> <<>>

Dma(o, name, mem, word, src, ilv) ==
    [op |-> name, base |-> src.base, size |-> src.size, off |-> src.off, rows |-> src.rows, rb |-> src.rb,
     pitch |-> src.pitch, mem |-> mem, word |-> word, ilv |-> ilv, adv |-> o.adv]

\* A contiguous row longer than a DMA row: rows of whole words, and the rest.
contiguousDma(o, name, mem, word) ==
    LET rb   == IF o.src.rb <= MaxRow THEN o.src.rb ELSE (MaxRow \div wbytes(mem)) * wbytes(mem)
        rows == o.src.rb \div rb
        rest == o.src.rb - rows * rb
        Part(at, n, bytes, w) == Dma(o, name, mem, w, [o.src EXCEPT !.off = at, !.rows = n, !.rb = bytes, !.pitch = bytes], FALSE)
    IN  <<Part(o.src.off, rows, rb, word)>>
          \o (IF rest = 0 THEN <<>> ELSE <<Part(o.src.off + rows * rb, 1, rest, word + rows * (rb \div wbytes(mem)))>>)

\* Rows of their own, a block that moves with a loop, tiles of SPAD_B: one command.
DmaCmds(L, o, name) ==
    LET mem == o.b.mem
        ilv == name = "LD" /\ o.ilv
    IN  IF o.src.rows > 1 \/ o.adv # 0 \/ mem = "B" \/ ilv THEN <<Dma(o, name, mem, WordAt(L, o.b), o.src, ilv)>>
        ELSE contiguousDma(o, name, mem, WordAt(L, o.b))

\* A row too long for one command, where one command must do.
TooLong(o) == o.src.rb > MaxRow /\ (o.src.rows > 1 \/ o.adv # 0 \/ o.b.mem = "B")

\* A row of a dynamic length at the row cursor: PARAM 3, by which it then moves on.
Cursor == 3
SetRegs(regs, add, v) == [op |-> "SETREG", regs |-> regs, add |-> add, v |-> v]
cursorDma(L, o, name) ==
    LET at == Emit(L, [Dma(o, name, o.b.mem, WordAt(L, o.b), o.src, FALSE) EXCEPT !.adv = Cursor])
    IN  [(IF o.cursor = "step" THEN Emit(at, SetRegs({Cursor}, TRUE, o.src.rb)) ELSE at) EXCEPT !.cursorBytes = o.src.rb]
cursorReset(L, o) ==
    [L EXCEPT !.cmds = @ \o <<SetRegs({Cursor}, FALSE, 0)>> \o [i \in 1..o.skip |-> SetRegs({Cursor}, TRUE, L.cursorBytes)]]

\* Rows of a dynamic length back to back in DDR, a command a row at the cursor.
dynamicDma(L, o) ==
    LET At1(r) == Dma(o, o.name, o.b.mem, WordAt(L, o.b) + r * o.b.stride, o.src, FALSE)
        Row(r) == <<[At1(r) EXCEPT !.adv = Cursor]>> \o (IF r + 1 < o.H THEN <<SetRegs({Cursor}, TRUE, o.src.rb)>> ELSE <<>>)
    IN  IF o.H = 1 THEN Emit(L, At1(0)) ELSE [Emit(L, SetRegs({Cursor}, FALSE, 0)) EXCEPT !.cmds = @ \o Cat(Row, 0, o.H - 1)]

load(L, o) ==
    CASE TooLong(o) -> Fail(L, "load")
      [] o.cursor # "no" -> cursorDma(L, o, "LD")
      [] o.pre -> [L EXCEPT !.pre = @ \o DmaCmds(L, o, "LD")]
      [] OTHER -> [L EXCEPT !.cmds = @ \o DmaCmds(L, o, "LD")]

Src(mem, word, mode, p) == [mem |-> mem, word |-> word, mode |-> mode, p |-> p]
VeCmd(f, srcs, mem, word, words) ==
    [op |-> "VE", f |-> f, srcs |-> srcs, mem |-> mem, word |-> word, words |-> words, k |-> 0, adv |-> 0]
TrCmd(mem, src, to, word, words, S) == [op |-> "TR", mem |-> mem, src |-> src, to |-> to, word |-> word, words |-> words, S |-> S]

\* Every word's element back from the broadcast layout: D words transposed at a
\* time, each giving one word and D - 1 copies that the next ones overwrite.
packBcast(L, b) ==
    LET l  == L.loc[b.id]
        w  == CeilDiv(l.n, D)
        L1 == newLocal(L, "C", (w + D - 1) * D, FALSE)
    IN  [L1 EXCEPT !.cmds = @ \o [k \in 1..w |-> TrCmd("C", l.word + (k - 1) * D, "C", L1.new.word + k - 1, D, 1)],
                   !.loc[b.id] = [l EXCEPT !.word = L1.new.word, !.bc = FALSE]]

store(L, o) ==
    LET L1 == IF L.loc[o.b.id].bc /\ L.loc[o.b.id].n > 1 THEN packBcast(L, o.b) ELSE L
        L2 == [L1 EXCEPT !.cmds = @ \o DmaCmds(L1, o, "ST"), !.loc = L.loc]
    IN  CASE o.b.id \notin DOMAIN L.loc -> Fail(L, "stored buffer not computed")
          [] o.cursor # "no" -> cursorDma(L, o, "ST")
          [] TooLong(o) -> Fail(L, "store")
          [] OTHER -> L2

\* The A strip: D rows of x interleaved on their way in, or a local vector,
\* every element over the D rows (packed: as it is).
strip(L, o) ==
    Emit(L, VeCmd("copy", <<Src(o.x.mem, WordAt(L, o.x), "div", D)>>, "A", WordAt(L, o.b), o.x.n))
packed(L, o) ==
    Emit(L, VeCmd("copy", <<Src(o.x.mem, WordAt(L, o.x), "lin", 1)>>, "A", WordAt(L, o.b), CeilDiv(o.x.n, D)))
copy(L, o) ==
    Emit(L, [VeCmd("copy", <<Src(o.x.mem, WordAt(L, o.x), "lin", 1)>>, o.b.mem, WordAt(L, o.b), CeilDiv(o.x.n, D))
                    EXCEPT !.adv = o.adv])

\* A value in the broadcast layout, made once: a scalar is lane 0 of its word,
\* reduced; a vector is copied D times and transposed.
Value(b) == <<b.id, b.off>>
Cached(L, b, word) == [L EXCEPT !.bcastOf = Value(b) :> word @@ @, !.new = [mem |-> "C", word |-> word]]
Known(L, b) == L.loc[b.id].bc \/ Value(b) \in DOMAIN L.bcastOf
KnownAt(L, b) == IF L.loc[b.id].bc THEN WordAt(L, b) ELSE L.bcastOf[Value(b)]

scalarBcast(L, b) ==
    IF Known(L, b) THEN [L EXCEPT !.new = [mem |-> "C", word |-> KnownAt(L, b)]]
    ELSE LET L1 == newLocal(L, "C", 1, TRUE)
         IN  Cached(Emit(L1, [op |-> "RED", f |-> "max", srcs |-> <<Src(b.mem, WordAt(L, b), "lin", 1)>>, word |-> L1.new.word,
                              words |-> 1, rowlen |-> 1, valid |-> 1]), b, L1.new.word)

perElementBcast(L, b, n) ==
    IF Known(L, b) THEN [L EXCEPT !.new = [mem |-> "C", word |-> KnownAt(L, b)]]
    ELSE LET w   == CeilDiv(n, D)
             R   == newLocal(L, "C", w * D * D, FALSE)
             B   == newLocal(R, "C", w * D, TRUE)
         IN  Cached([B EXCEPT !.cmds = @ \o <<VeCmd("copy", <<Src(b.mem, WordAt(L, b), "div", D)>>, "C", R.new.word, w * D),
                                              TrCmd("C", R.new.word, "C", B.new.word, w * D, 1)>>], b, B.new.word)

bcast(L, o) ==
    LET Named(B) == [B EXCEPT !.loc = o.b.id :> [mem |-> "C", word |-> B.new.word, bc |-> TRUE, n |-> o.b.n] @@ @]
    IN  Named(IF o.rank = 0 THEN scalarBcast(L, o.v) ELSE perElementBcast(L, o.v, o.v.n))

mma(L, o) ==
    Emit(L, [op |-> "EX", a |-> WordAt(L, o.a), b |-> WordAt(L, o.b), c |-> WordAt(L, o.c), kt |-> o.K \div D, acc |-> o.acc,
                  rep |-> o.rep, bstep |-> o.K, cstep |-> 1, crow |-> o.nc, adv |-> o.adv])

gemv(L, o) ==
    IF o.src.rb > MaxRow THEN Fail(L, "gemv: weight strips")
    ELSE Emit(L, [op |-> "GEMV", base |-> o.src.base, size |-> o.src.size, off |-> o.src.off, rows |-> o.src.rows, rb |-> o.src.rb,
                   pitch |-> o.src.pitch, xword |-> WordAt(L, o.x), word |-> WordAt(L, o.c), acc |-> o.acc, adv |-> o.adv])

transpose(L, o) ==
    Emit(L, TrCmd(o.x.mem, WordAt(L, o.x), o.b.mem, WordAt(L, o.b), (o.rows * o.cols) \div D, o.cols \div D))

reserve(L, o) == [bufOf([L EXCEPT !.prefer = o.bank], o.b, FALSE) EXCEPT !.prefer = 0]

\* A kernel's own layout of SPAD_A; relative: bank 0's part of it after what is there.
claim(L, o) ==
    LET W == o.words
    IN  IF o.relative
        THEN IF (IF W > SBANK THEN L.spad >= SBANK \/ W > 2 * SBANK ELSE L.spad + W > 2 * SBANK)
             THEN Fail(L, "a relative SPAD_A claim beyond SPAD_A")
             ELSE [L EXCEPT !.spadBase = L.spad, !.spad = IF W > SBANK THEN W ELSE L.spad + W]
        ELSE IF L.spad # 0 THEN Fail(L, "a kernel claiming SPAD_A after other SPAD_A buffers") ELSE [L EXCEPT !.spad = W]

\* A constant in every lane of a buffer's words.
splat(L, o) ==
    LET w  == WordAt(L, o.b)
        words == IF L.loc[o.b.id].bc THEN o.b.n ELSE CeilDiv(o.b.n, D)
    IN  Emit(L, [VeCmd("set", <<Src(o.b.mem, w, "lin", 1)>>, o.b.mem, w, words) EXCEPT !.k = o.v])

\* The indices of a vector: lane l counts the prefixes of k ones, k = 1..D-1, it
\* is not in (D - 1 - l), then word g is D - 1 + D g less that.
iota(L, o) ==
    LET On(w) == Src("C", w, "lin", 1)
        To(f, srcs, w, k) == [VeCmd(f, srcs, "C", w, 1) EXCEPT !.k = k]
        Indices(P, a, b, p) ==
            LET Prefix(k) == <<To("mask", <<On(a)>>, p, k), To("add", <<On(b), On(p)>>, b, 0)>>
            IN  [P EXCEPT !.cmds = @ \o <<To("set", <<On(a)>>, a, Literal(1)), To("set", <<On(a)>>, b, Literal(0))>>
                                     \o Cat(Prefix, 1, D - 1)
                                     \o [g \in 1..o.b.n \div D |-> To("from", <<On(b)>>, WordAt(L, o.b) + g - 1, D - 1 + D * (g - 1))]]
        Third(B, a) == LET P == newLocal(B, "C", D, FALSE) IN Indices(P, a, B.new.word, P.new.word)
        Second(A) == Third(newLocal(A, "C", D, FALSE), A.new.word)
    IN  Second(newLocal(L, "C", D, FALSE))

\* An i64 scalar of DDR, its low half in every lane of a word.
scalar(L, o) ==
    LET L1 == newLocal(L, "C", 2, FALSE)
        L2 == bufsOf(L1, <<o.b>>)
    IN  [L2 EXCEPT !.cmds = @ \o <<Dma(o, "LD", "C", L1.new.word, o.src, FALSE),
                                   [op |-> "RED", f |-> "max", srcs |-> <<Src("C", L1.new.word, "lin", 1)>>, word |-> WordAt(L2, o.b),
                                    words |-> 1, rowlen |-> 1, valid |-> 1]>>]

scope(L, o) ==
    [L EXCEPT !.stack = Append(@, [acc |-> L.acc, spad |-> L.spad, loc |-> L.loc, bcastOf |-> L.bcastOf, spadBase |-> L.spadBase]),
              !.spad = IF o.spad >= 0 THEN o.spad ELSE @]
end(L) ==
    LET s == L.stack[Len(L.stack)]
    IN  [L EXCEPT !.acc = s.acc, !.spad = s.spad, !.loc = s.loc, !.bcastOf = s.bcastOf, !.spadBase = s.spadBase, !.stack = Front(@)]

\* A loop's PARAMs start at 0 and move on by their strides on every pass.
loop(L) == [Emit(L, SetRegs({1, 2}, FALSE, 0)) EXCEPT !.body = Len(L.cmds) + 1]
again(L, o) == Emit(L, [op |-> "LOOP", count |-> o.count, strides |-> o.strides, len |-> Len(L.cmds) - L.body])

-----------------------------------------------------------------------------
(* A linalg.generic in sahl-to-sahw: element-wise operations and reductions   *)
(* over one or two loops, one vector command an operation, a temporary for    *)
(* each result; what depends on no loop, or on the rows only, is computed once *)
(* or once a row, in the broadcast layout.                                    *)
Far == 65535      \* a period no operand reaches: the same word for all
Inner(o) == o.ranges[Len(o.ranges)]
RowWords(o) == IF o.dyn >= 0 THEN o.dyn ELSE CeilDiv(Inner(o), D)
\* Elements a temporary has, and words a command covers; row: one row only.
Elems(o, row) == IF row >= 0 \/ Len(o.ranges) = 1 THEN Inner(o) ELSE o.ranges[1] * o.ranges[2]
Groups(o, row) == IF o.dyn >= 0 THEN o.dyn ELSE CeilDiv(Elems(o, row), D)
Stride(o, b) == IF b.stride > 0 THEN b.stride ELSE RowWords(o)

\* A value: where it is, how a command over all elements reads it, and what it
\* depends on ("all", one value a "row", "one" value).
Val(mem, word, mode, p, uni) == [o |-> Src(mem, word, mode, p), uni |-> uni]
OneWord(word) == Val("C", word, "div", Far, "one")

\* Input i: L.new is where it is, in the layout its map asks for.
inputValue(L, o, i, row) ==
    LET b  == o.ins[i].b
        map == o.ins[i].map
        l  == L.loc[b.id]
        One(S) == [L |-> S, v |-> OneWord(S.new.word)]
        PerRow(P) == [L |-> P, v |-> IF row >= 0 THEN OneWord(P.new.word + row) ELSE Val("C", P.new.word, "div", RowWords(o), "row")]
        Packed(P) == [L |-> P, v |-> Val("C", WordAt(P, b), "lin", 1, "all")]
        two == Len(o.ranges) = 2
    IN  CASE map = "scalar" -> One(scalarBcast(L, b))
          [] map = "row" -> PerRow(perElementBcast(L, b, o.ranges[1]))
          [] map = "col" -> [L |-> L, v |-> IF row >= 0 THEN Val(l.mem, WordAt(L, b), "lin", 1, "all")
                                             ELSE Val(l.mem, WordAt(L, b), "mod", RowWords(o), "all")]
          [] map = "id" /\ l.bc /\ l.n > 1 ->
               IF row >= 0 THEN [L |-> Fail(L, "broadcast-layout operand in a row-by-row generic"), v |-> OneWord(0)]
               ELSE Packed(packBcast(L, b))
          [] OTHER -> [L |-> L, v |-> Val(l.mem, WordAt(L, b) + (IF row >= 0 /\ two THEN row * Stride(o, b) ELSE 0), "lin", 1, "all")]

\* What a result depends on: everything if one operand does.
Uni(o, vs, row) ==
    LET u == {v.uni : v \in Range(vs)}
    IN  CASE "all" \in u -> "all"
          [] "row" \in u -> IF Len(o.ranges) = 2 THEN "row" ELSE "all"
          [] OTHER -> "one"

\* An operation's command and its temporary.
temp(L, o, f, k, vs, row) ==
    LET u     == Uni(o, vs, row)
        words == CASE u = "one" -> 1 [] u = "row" -> o.ranges[1] [] OTHER -> Groups(o, row)
        \* values of one word, or a word a row, are read one after the other
        Read(v) == IF (u = "row" /\ v.uni = "row") \/ (u = "one" /\ v.uni = "one") THEN [v.o EXCEPT !.mode = "lin"] ELSE v.o
        Into(L1) ==
            [L |-> Emit(L1, [VeCmd(f, [i \in DOMAIN vs |-> Read(vs[i])], "C", L1.new.word, words) EXCEPT !.k = k]),
             v |-> CASE u = "one" -> OneWord(L1.new.word)
                     [] u = "row" -> Val("C", L1.new.word, "div", RowWords(o), "row")
                     [] OTHER -> Val("C", L1.new.word, "lin", 1, "all")]
    IN  Into(IF u = "all" THEN newLocal(L, "C", Elems(o, row), FALSE) ELSE newLocal(L, "C", words, TRUE))

\* The values of a row so far, S.vs, and one more.
WithValue(S, r) == [L |-> r.L, vs |-> Append(S.vs, r.v)]
RECURSIVE inputs(_, _, _, _)
inputs(S, o, row, i) ==
    IF i > Len(o.ins) THEN S ELSE inputs(WithValue(S, inputValue(bufsOf(S.L, <<o.ins[i].b>>), o, i, row)), o, row, i + 1)
RECURSIVE body(_, _, _, _)
body(S, o, row, i) ==
    IF i > Len(o.body) THEN S
    ELSE LET args == [k \in DOMAIN o.body[i].a |-> S.vs[o.body[i].a[k]]]
         IN  body(WithValue(S, temp(S.L, o, o.body[i].f, o.body[i].k, args, row)), o, row, i + 1)

\* An element-wise result: a copy into its buffer (one of its own from here on
\* when the buffer held a reduction's words).
elementwise(L, o, y, row) ==
    LET old == L.loc[o.out.id]
        Own(L2) == [L2 EXCEPT !.loc[o.out.id] = [old EXCEPT !.word = L2.new.word, !.bc = FALSE],
                              !.bcastOf = [v \in DOMAIN @ \ {Value(o.out)} |-> @[v]]]
        read == IF y.uni = "one" /\ Elems(o, row) <= D THEN [y.o EXCEPT !.mode = "lin"] ELSE y.o
        Into(L3) ==
            LET word == WordAt(L3, o.out) + (IF row >= 0 /\ Len(o.ranges) = 2 THEN row * Stride(o, o.out) ELSE 0)
            IN  Emit(L3, VeCmd("copy", <<read>>, old.mem, word, Groups(o, row)))
    IN  IF row >= 0 /\ old.bc THEN Fail(L, "element-wise result into a broadcast buffer")
        ELSE Into(IF old.bc THEN Own(newLocal(L, "C", old.n, FALSE)) ELSE L)

\* |x| of a long vector is halved in place by element-wise maxima first.
RECURSIVE halved(_, _, _)
halved(L, s, groups) ==
    IF groups % 2 = 0 /\ groups > 4
    THEN LET h == groups \div 2
         IN  halved(Emit(L, VeCmd("max", <<s, [s EXCEPT !.word = @ + h]>>, s.mem, s.word, h)), s, h)
    ELSE [L |-> L, groups |-> groups]

RedCmd(f, s, word, words, rowlen, valid) ==
    [op |-> "RED", f |-> f, srcs |-> <<s>>, word |-> word, words |-> words, rowlen |-> rowlen, valid |-> valid]

\* A reduction over the innermost loop, a word a row; onto what a buffer holds:
\* into temporary words, then their maximum with it.
reduction(L, o, y, row) ==
    LET out  == L.loc[o.out.id]
        n    == AtLeast1(out.n)
        all  == Elems(o, row)
        halve == row < 0 /\ o.red = "max" /\ o.body # <<>> /\ o.body[Len(o.body)].f = "abs" /\ y.uni = "all"
                   /\ Len(o.ranges) = 1 /\ all % D = 0 /\ all \div D >= 8
        rowlen == IF all % D # 0 \/ row >= 0 THEN Groups(o, row) ELSE RowWords(o)
        Halves(H, dst) == Emit(H.L, RedCmd(o.red, y.o, dst, H.groups, H.groups, H.groups * D))
        Reduced(L2, dst) ==
            IF halve THEN Halves(halved(L2, y.o, all \div D), dst)
            ELSE Emit(L2, RedCmd(o.red, y.o, dst, Groups(o, row), rowlen, IF all % D # 0 THEN all ELSE rowlen * D))
        Onto(L2, dst) ==
            Emit(Reduced(L2, dst), VeCmd("max", <<Src("C", out.word, "lin", 1), Src("C", dst, "lin", 1)>>, "C", out.word, n))
        OntoNew(L2) == Onto(L2, L2.new.word)
    IN  CASE ~out.bc -> Fail(L, "reduction result used before")
          [] row >= 0 -> Emit(L, RedCmd(o.red, y.o, WordAt(L, o.out) + row, Groups(o, row), rowlen, rowlen * D))
          [] o.acc -> OntoNew(newLocal(L, "C", n, TRUE))
          [] OTHER -> Reduced(L, WordAt(L, o.out))

\* The whole nest (row -1) or one row of it.
result(S, o, row) ==
    IF o.red = "" THEN elementwise(bufOf(S.L, Owner(o.out), FALSE), o, Last(S.vs), row)
    ELSE reduction(bufOf(S.L, Owner(o.out), TRUE), o, Last(S.vs), row)
oneRow(L, o, row) == result(body(inputs([L |-> L, vs |-> <<>>], o, row, 1), o, row, 1), o, row)

\* One row at a time when the innermost length is dynamic (or the rows are too
\* long for two): a row's temporaries are given back, unless it allocated
\* something that later rows use.
rowDone(L, R, row) ==
    LET grew == DOMAIN R.loc # DOMAIN L.loc \/ DOMAIN R.bcastOf # DOMAIN L.bcastOf
    IN  IF row < 0 \/ grew THEN R ELSE [R EXCEPT !.acc = L.acc]
RECURSIVE eachRow(_, _, _, _)
eachRow(L, o, row, last) == IF row > last THEN L ELSE eachRow(rowDone(L, oneRow(L, o, row), row), o, row + 1, last)

Nest(L, o) ==
    LET byRow == o.dyn >= 0 \/ o.tight
    IN  eachRow(L, o, IF byRow THEN 0 ELSE -1, CASE ~byRow -> -1 [] Len(o.ranges) = 2 -> o.ranges[1] - 1 [] OTHER -> 0)

\* Temporaries given back after it when asked for, the results allocated first.
Released(o, L0, L1) ==
    IF o.release /\ o.out.id \in DOMAIN L1.loc /\ L1.loc[o.out.id] = L0.loc[o.out.id]
    THEN [L1 EXCEPT !.acc = L0.acc, !.spad = L0.spad, !.loc = L0.loc, !.bcastOf = L0.bcastOf]
    ELSE L1
generic(L, o) ==
    LET L0 == IF o.release THEN bufOf(L, Owner(o.out), o.red # "") ELSE L
    IN  Released(o, L0, [Nest([L0 EXCEPT !.prefer = o.bank], o) EXCEPT !.prefer = 0])

-----------------------------------------------------------------------------
lowerReady(L, o) ==
    CASE o.op = "load" -> load(L, o)      [] o.op = "store" -> store(L, o)
      [] o.op = "strip" -> strip(L, o)    [] o.op = "packed" -> packed(L, o)
      [] o.op = "copy" -> copy(L, o)      [] o.op = "bcast" -> bcast(L, o)
      [] o.op = "mma" -> mma(L, o)        [] o.op = "gemv" -> gemv(L, o)
      [] o.op = "transpose" -> transpose(L, o)  [] o.op = "generic" -> generic(L, o)
      [] o.op = "reserve" -> reserve(L, o)      [] o.op = "claim" -> claim(L, o)
      [] o.op = "scope" -> scope(L, o)    [] o.op = "end" -> end(L)
      [] o.op = "cursor" -> cursorReset(L, o)      [] o.op = "rows" -> dynamicDma(L, o)
      [] o.op = "splat" -> splat(L, o)    [] o.op = "iota" -> iota(L, o)    [] o.op = "scalar" -> scalar(L, o)
      [] o.op = "loop" -> loop(L)         [] o.op = "again" -> again(L, o)
lowerOp(L, o) == lowerReady(bufsOf(L, Operands(o)), o)

RECURSIVE lowerBlock(_, _, _)
lowerBlock(L, ops, i) == IF i > Len(ops) \/ L.why # "" THEN L ELSE lowerBlock(lowerOp(L, ops[i]), ops, i + 1)

\* The commands of a kernel, those of its prefix first.
Listing(L) == [cmds |-> L.pre \o L.cmds, why |-> L.why]
Lowered(ops) == Listing(lowerBlock(Fresh, ops, 1))
=============================================================================
