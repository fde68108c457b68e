-------------------------------- MODULE Sahl ---------------------------------
(* The sahl dialect: operations on buffers of local memory and views of DDR   *)
(* operands, as the expansions of the micro-kernels write them.               *)
EXTENDS SaMachine

-----------------------------------------------------------------------------
(* What an expansion writes: buffers of n elements and operations on them. *)

\* Where: a word given by the expansion, -1 for one the allocators give.
\* Broadcast layout: an element a word; else D elements a word.  stride: words
\* from row to row of a buffer of rows of a dynamic length (0: no rows).
Buf(id, mem, n) == [id |-> id, mem |-> mem, n |-> n, all |-> n, at |-> -1, bc |-> FALSE, off |-> 0, stride |-> 0]
Placed(id, mem, n, at) == [Buf(id, mem, n) EXCEPT !.at = at]
Bcasted(id, n) == [Buf(id, "C", n) EXCEPT !.bc = TRUE]
Rows(id, H) == [Buf(id, "C", H * CeilDiv(MaxT, D) * D) EXCEPT !.stride = CeilDiv(MaxT, D)]
Tiles(id, bank, n) == Placed(id, "B", n, bank * SBANK)

\* n elements of a buffer from element off on; row r of rows.
View(b, off, n) == [b EXCEPT !.off = @ + off, !.n = n]
RowView(b, r) == [b EXCEPT !.off = @ + r * b.stride * D, !.n = b.stride * D, !.stride = 0]

\* A view of a DDR operand: rows of rb bytes from byte off, a pitch apart.
Ddr(base, size, off, rows, rb, pitch) == [base |-> base, size |-> size, off |-> off, rows |-> rows, rb |-> rb, pitch |-> pitch]
Line(base, size, off, rb) == Ddr(base, size, off, 1, rb, rb)

\* An operation: its name and what it names.
O(op, r) == r @@ [op |-> op, adv |-> 0]
Adv(o, j) == [o EXCEPT !.adv = j]     \* moving on with PARAM j of the loop (sa.advance)

Load(src, b) == O("load", [src |-> src, b |-> b, ilv |-> FALSE, pre |-> FALSE, cursor |-> "no"])
Interleaved(o) == [o EXCEPT !.ilv = TRUE]
Store(b, dst) == O("store", [src |-> dst, b |-> b, cursor |-> "no"])
\* At the row cursor, which moves on by the row afterwards (step) or stays (at).
AtCursor(o, step) == [o EXCEPT !.cursor = IF step THEN "step" ELSE "at"]
CursorReset(skip) == O("cursor", [skip |-> skip])
Strip(x, b) == O("strip", [x |-> x, b |-> b])
PackedStrip(x, b) == O("packed", [x |-> x, b |-> b])
Bcast(v, b, rank) == O("bcast", [v |-> v, b |-> b, rank |-> rank])
\* nc tiles, of which a dynamic count may use only the first `rep`.
MmaOf(a, b, c, K, nc, rep, acc) == O("mma", [a |-> a, b |-> b, c |-> c, K |-> K, nc |-> nc, rep |-> rep, acc |-> acc])
Mma(a, b, c, K, nc, acc) == MmaOf(a, b, c, K, nc, nc, acc)
GemvOp(x, w, c, acc) == O("gemv", [x |-> x, src |-> w, c |-> c, acc |-> acc])
Transpose(x, b, rows, cols) == O("transpose", [x |-> x, b |-> b, rows |-> rows, cols |-> cols])
Copy(x, b) == O("copy", [x |-> x, b |-> b])
Reserve(b, bank) == O("reserve", [b |-> b, bank |-> bank])
Claim(words) == O("claim", [words |-> words, relative |-> FALSE])
ClaimAfter(words) == [Claim(words) EXCEPT !.relative = TRUE]
\* H rows of a dynamic length of rb bytes, one after the other in DDR.
RowsLoad(src, b, H) == O("rows", [name |-> "LD", src |-> src, b |-> b, H |-> H])
RowsStore(b, dst, H) == O("rows", [name |-> "ST", src |-> dst, b |-> b, H |-> H])
Splat(b, v) == O("splat", [b |-> b, v |-> v])
Literal(n) == <<"num", n>>      \* a constant of a vector
NInf == <<"neginf">>
Iota(b) == O("iota", [b |-> b])
Scalar(src, b) == O("scalar", [src |-> src, b |-> b])
Scope(ops) == <<O("scope", [spad |-> -1])>> \o ops \o <<O("end", [x |-> 0])>>
ScopeFrom(spad, ops) == <<O("scope", [spad |-> spad])>> \o ops \o <<O("end", [x |-> 0])>>
Loop(count, strides, ops) == <<O("loop", [x |-> 0])>> \o ops \o <<O("again", [count |-> count, strides |-> strides])>>

-----------------------------------------------------------------------------
(* linalg.generic. *)

\* ins: [b, map], map one of "id" (every loop), "row", "col" (one of two loops),
\* "scalar"; body: operations [f, a, k] on the values a (inputs first, then the
\* operations' results), the last one the result; red: "", "max" or "sum";
\* dyn: the words of the innermost loop when its length is dynamic (-1: static);
\* tight: one row at a time.
Generic(ranges, ins, body, red, out) ==
    O("generic", [ranges |-> ranges, ins |-> ins, body |-> body, red |-> red, out |-> out, bank |-> 0, acc |-> FALSE,
                  dyn |-> -1, tight |-> FALSE, release |-> FALSE])
In(b, map) == [b |-> b, map |-> map]
Op(f, a) == [f |-> f, a |-> a, k |-> 0]
OpK(f, a, k) == [f |-> f, a |-> a, k |-> k]
InBank(o, bank) == [o EXCEPT !.bank = bank]
Accumulate(o, yes) == [o EXCEPT !.acc = yes]
DynLen(o, T) == [o EXCEPT !.dyn = T \div D]

\* A sequence put together from parts.
RECURSIVE Cat(_, _, _)
Cat(F(_), a, b) == IF a > b THEN <<>> ELSE F(a) \o Cat(F, a + 1, b)
==============================================================================
