----------------------------- MODULE SahwPasses ------------------------------
(***************************************************************************)
(* The passes over a template before it is serialized.                     *)
(*                                                                         *)
(* sahw-fuse-ve (transforms/SahlPipeline.cpp): sahl-to-sahw emits one VE   *)
(* per operation; a VE that only applies later stages to the result of an  *)
(* earlier one merges into it.  Fields of a VE: 1 src1, 2 src2 (0: none),  *)
(* 3 dst, 4 LEN, 5 VALID, 6 ROWLEN, 7 P1, 8 PERIOD, 9 A, 10 B, 11 IMM,     *)
(* 12 the output type, 13 FUNC, 14 REDUCE, 15 OP.                          *)
(*                                                                         *)
(* sahw-split-head and sahw-assign-registers (transforms/SahwPasses.cpp).  *)
(***************************************************************************)
EXTENDS SahwTemplate, FiniteSetsExt

CONSTANTS
    Params,     \* PARAM registers (8)
    Bases       \* BASE registers of an export (15; the next is the prefixes')

ASSUME RegsAssumption == Params \in Nat \ {0} /\ Bases \in Nat

-----------------------------------------------------------------------------
(* sahw-fuse-ve *)
ONE == 1
NEG0 == 0
F32 == 3
COPY == 5
RED_MAX == 2
NoMem == -1

IsEng(o, e) == o.op = "CMD" /\ o.x.eng \in e
VE(o) == IsEng(o, {"VE"})

WordsOf(n) == (n + D - 1) \div D

\* Words of local memory, at least one.
rangeOf(la, n) == [mem |-> MemOf(la), lo |-> la % Region, hi |-> (la % Region) + Max({n, 1})]
overlaps(r, q) == r.mem = q.mem /\ r.lo < q.hi /\ q.lo < r.hi
Whole(m) == [mem |-> m, lo |-> 0, hi |-> Region]

\* What a command reads; an EX unless exact reads a memory of its own, which
\* overlaps nothing.  (TransposeOp and sources read with DIV or MOD, which read
\* less, are left out.)
readsOf(o, exact) ==
    CASE VE(o) -> {rangeOf(o.f[1], WordsOf(o.f[4]))}
                    \cup (IF o.f[2] # 0 THEN {rangeOf(o.f[2], WordsOf(o.f[4]))} ELSE {})
      [] IsEng(o, {"ST"}) ->
            LET wordBytes == IF MemOf(o.f[2]) = ACC THEN 4 * D ELSE D
            IN  {rangeOf(o.f[2], (o.f[3] * o.f[4] + wordBytes - 1) \div wordBytes)}
      [] IsEng(o, {"EX"}) ->
            {Whole(m) : m \in IF exact
                              THEN {SPAD_A, SPAD_B} \cup (IF o.f[9] = 1 THEN {ACC} ELSE {})
                              ELSE {NoMem}}
      [] OTHER -> {}

\* The last stage a VE uses.
stageOf(v) == IF v.f[13] # 0 THEN 3 ELSE IF v.f[10] # NEG0 THEN 2 ELSE IF v.f[9] # ONE THEN 1 ELSE 0

\* Only LEN and VALID may be dynamic, and not added.
dynOf(v) == \A i \in DOMAIN v.dyn : ~v.dyn[i].add /\ v.dyn[i].f \in {4, 5}
DynVal(v, n) == { v.dyn[i].k : i \in { i \in DOMAIN v.dyn : v.dyn[i].f = n } }

\* v only applies stages to src1.
stageOnly(v) ==
    /\ VE(v) /\ v.f[15] = COPY /\ v.f[2] = 0 /\ v.f[5] = 0 /\ v.f[7] = 0 /\ v.f[8] = 0
    /\ dynOf(v) /\ ~v.x.fb

\* The nearest earlier VE that writes v2's source; nothing but VE, LD (a GEMV load
\* is one) and ST in between.
Producer(ops, j) ==
    { i \in 1 .. j - 1 :
        /\ VE(ops[i]) /\ ops[i].f[3] = ops[j].f[1]
        /\ \A k \in i + 1 .. j - 1 :
              IsEng(ops[k], {"VE", "LD", "GEMV", "ST"}) /\ ~(VE(ops[k]) /\ ops[k].f[3] = ops[j].f[1]) }

\* Stages: 1 A, 2 B, 3 FUNC, 4 VALID, 5 REDUCE, 6 the output conversion.
Need(v) ==
    CASE v.f[9] # ONE -> 1 [] v.f[10] # NEG0 -> 2 [] v.f[13] # 0 -> 3
      [] DynVal(v, 5) # {} -> 4 [] v.f[14] # 0 -> 5 [] OTHER -> 6
Have(v) == IF DynVal(v, 5) # {} THEN 4 ELSE stageOf(v)

Stages(v1, v2) ==
    /\ v1.f[4] = v2.f[4] /\ v1.f[14] = 0 /\ v1.f[5] = 0 /\ v1.f[12] = F32 /\ dynOf(v1)
    /\ DynVal(v1, 4) = DynVal(v2, 4)
    /\ Have(v1) < Need(v2)
    /\ DynVal(v2, 5) # {} => Len(v1.dyn) < 2

\* The words of r a write of w leaves (a write inside r keeps it whole).
Shrunk(r, w) ==
    CASE w.mem = r.mem /\ w.lo <= r.lo /\ r.lo < w.hi -> [r EXCEPT !.lo = Min({w.hi, r.hi})]
      [] w.mem = r.mem /\ w.lo < r.hi /\ r.hi <= w.hi -> [r EXCEPT !.hi = Max({w.lo, r.lo})]
      [] OTHER -> r

\* No command but v2 reads the intermediate after its producer.  For a -inf
\* mask, which must merge, later VEs of the same length end its life.
NoOtherReader(ops, i, j) ==
    LET v1 == ops[i]
        seen(s, k) ==
            IF s.live.lo >= s.live.hi THEN s
            ELSE LET inner == ToSet(Deep(<<ops[k]>>))
                     reads == UNION { readsOf(o, v1.x.neginf) :
                                        o \in IF k = j THEN {} ELSE inner }
                     kills == /\ k > j /\ v1.x.neginf /\ VE(ops[k]) /\ ops[k].f[14] = 0
                              /\ \/ ops[k].dyn = <<>>
                                 \/ /\ dynOf(ops[k]) /\ DynVal(ops[k], 4) # {}
                                    /\ DynVal(ops[k], 4) = DynVal(v1, 4)
                 IN  [ok |-> s.ok /\ ~\E r \in reads : overlaps(r, s.live),
                      live |-> IF kills
                               THEN Shrunk(s.live, rangeOf(ops[k].f[3], WordsOf(ops[k].f[4])))
                               ELSE s.live]
    IN  FoldLeft(seen, [ok |-> TRUE, live |-> rangeOf(ops[j].f[1], WordsOf(ops[j].f[4]))],
                 [k \in 1 .. Len(ops) - i |-> i + k]).ok

\* (mutant of NothingBetween: v2's destination is not looked at)
NothingBetween_No(ops, i, j) == TRUE

\* Nothing between reads v2's destination, and no VE starts in it.  (What loads
\* write and what a GEMV load reads is not tested.)
NothingBetween(ops, i, j) ==
    LET dst2 == rangeOf(ops[j].f[3], WordsOf(ops[j].f[4]))
    IN  \A k \in i + 1 .. j - 1 :
            /\ \A r \in readsOf(ops[k], FALSE) : ~overlaps(r, dst2)
            /\ VE(ops[k]) => ~overlaps(rangeOf(ops[k].f[3], 1), dst2)

\* v2's stages, its destination and its output type on v1.
Merged(v1, v2) ==
    LET pick(n, no) == IF v2.f[n] # no THEN v2.f[n] ELSE v1.f[n]
    IN  [v1 EXCEPT !.f[9] = pick(9, ONE), !.f[10] = pick(10, NEG0), !.f[13] = pick(13, 0),
                   !.f[14] = pick(14, 0), !.f[6] = IF v2.f[14] # 0 THEN v2.f[6] ELSE @,
                   !.f[12] = v2.f[12], !.f[3] = v2.f[3],
                   !.x.neginf = @ /\ v2.f[14] = 0,
                   !.dyn = @ \o SelectSeq(v2.dyn, LAMBDA s : s.f = 5)]

Fusable(ops) ==
    { p \in (DOMAIN ops) \X (DOMAIN ops) :
        /\ p[1] < p[2] /\ stageOnly(ops[p[2]]) /\ p[1] \in Producer(ops, p[2])
        /\ Stages(ops[p[1]], ops[p[2]])
        /\ NoOtherReader(ops, p[1], p[2]) /\ NothingBetween(ops, p[1], p[2]) }

\* One merge of a block: the first consumer that can.
fuseOnce(ops) ==
    LET j == Min({p[2] : p \in Fusable(ops)})
        i == CHOOSE i \in DOMAIN ops : <<i, j>> \in Fusable(ops)
    IN  RemoveAt([ops EXCEPT ![i] = Merged(ops[i], ops[j])], j)

-----------------------------------------------------------------------------
(* What commands do to local memory, and so what they store: the engines   *)
(* (external).  A word is the sequence of what was applied to it.          *)

Apply(d, w) ==
    w \o (IF d.f[9] # ONE THEN <<<<"mul", d.f[9]>>>> ELSE <<>>)
      \o (IF d.f[10] # NEG0 THEN <<<<"add", d.f[10]>>>> ELSE <<>>)
      \o (IF d.f[13] # 0 THEN <<<<"func", d.f[13]>>>> ELSE <<>>)
Out(d, w) == IF d.f[12] = F32 THEN w ELSE Append(w, <<"to", d.f[12]>>)

\* Lanes beyond VALID: 0; -inf for a max reduction and for a mask that says so.
Masked(d) == <<<<IF d.x.neginf \/ d.f[14] = RED_MAX THEN "-inf" ELSE "zero", 0>>>>
Neutral(d) == <<<<IF d.f[14] = RED_MAX THEN "-inf" ELSE "zero", 0>>>>

VeWrites(d, m) ==
    LET second(i) == IF d.f[15] = COPY THEN <<>> ELSE <<<<"op", d.f[15]>>>> \o m[d.f[2] + i]
        lane(i) == IF d.f[5] # 0 /\ i >= d.f[5] THEN Masked(d)
                   ELSE Apply(d, m[d.f[1] + i] \o second(i))
        lanes == [i \in 1 .. d.f[4] |-> lane(i - 1)]
    IN  IF d.f[14] = 0
        THEN [a \in d.f[3] .. d.f[3] + d.f[4] - 1 |-> Out(d, lanes[a - d.f[3] + 1])]
        ELSE [a \in {d.f[3]} |->
                Out(d, <<<<"reduce", d.f[14]>>>>
                         \o FlattenSeq(SelectSeq(lanes, LAMBDA w : w # Neutral(d))))]

Update(m, w) == [a \in DOMAIN m |-> IF a \in DOMAIN w THEN w[a] ELSE m[a]]

\* (LD and ST of the programs here move rows of whole fp32 words.)
Moved(d) == (d.f[3] * d.f[4]) \div (4 * D)

\* A GEMV load takes the K bytes of x at a word of SPAD_A; a strip has K rows of D.
Gathered(d) ==
    LET x == SPAD_A * Region + d.f[7] IN x .. x + WordsOf(d.f[4] \div D) - 1
GemvWrites(d, m) ==
    LET dot(s) == <<<<"strip", d.f[1] + s * d.f[5]>>>>
                     \o FoldLeft(LAMBDA w, a : w \o m[a], <<>>, SetToSortSeq(Gathered(d), <))
        strip(a) == (a - d.f[2]) \div d.f[8]
    IN  [a \in {d.f[2] + s * d.f[8] : s \in 0 .. d.f[3] - 1} |->
            (IF d.f[9] = 1 THEN m[a] ELSE <<>>) \o dot(strip(a))]
DataEffect(s, o) ==
    LET d == Patch(o, s.regs)
    IN  CASE IsEng(o, {"VE"}) -> [s EXCEPT !.m = Update(@, VeWrites(d, @))]
          [] IsEng(o, {"LD"}) ->
                [s EXCEPT !.m = Update(@, [a \in d.f[2] .. d.f[2] + Moved(d) - 1 |->
                                              <<<<"ddr", d.f[1] + a - d.f[2]>>>>])]
          [] IsEng(o, {"GEMV"}) -> [s EXCEPT !.m = Update(@, GemvWrites(d, @))]
          [] IsEng(o, {"ST"}) ->
                [s EXCEPT !.stored = @ \o [i \in 1 .. Moved(d) |-> s.m[d.f[2] + i - 1]]]
          [] OTHER -> Effect(s, o)

\* What a template stores.
Data(t) ==
    FoldLeft(LAMBDA s, o : Exec(DataEffect, s, o),
             [regs |-> Entry(t), out |-> <<>>, stored |-> <<>>,
              m |-> [a \in 1 .. 4 * Region |-> <<>>]], Program(t)).stored

-----------------------------------------------------------------------------
(* sahw-split-head, sahw-assign-registers *)
touchesSpadB(o) ==
    \/ IsEng(o, {"EX"})
    \/ IsEng(o, {"LD", "GEMV", "ST"}) /\ MemOf(o.f[2]) = SPAD_B
    \/ VE(o) /\ \E n \in 1 .. 3 : MemOf(o.f[n]) = SPAD_B

UsesSpadB(ops) == \E o \in ToSet(Deep(ops)) : touchesSpadB(o)

\* The leading loads become the head of an export that does not use SPAD_B.
SplitHead(t) ==
    LET lead == { n \in 0 .. Len(t.body) : \A i \in 1 .. n : IsEng(t.body[i], {"LD", "GEMV"}) }
        n == Max(lead)
    IN  IF t.head # <<>> \/ UsesSpadB(t.body) THEN t
        ELSE [t EXCEPT !.head = SubSeq(t.body, 1, n), !.body = SubSeq(@, n + 1, Len(@))]

-----------------------------------------------------------------------------
(* Registers.  An assignment maps the values of a template to registers;   *)
(* Failed is none.                                                         *)

Base(n) == <<"BASE", n>>
Param(n) == <<"PARAM", n>>
Failed == <<>>

OfKind(t, k) == SelectSeq(t.setup, LAMBDA e : e.kind = k)
Index(s, v) == CHOOSE i \in DOMAIN s : s[i].name = v

\* BASE from 0, setup PARAMs from 0, private PARAMs from the last one down.
Numbered(t) ==
    LET number(e) ==
            CASE e.kind = "BASE" -> Base(Index(OfKind(t, "BASE"), e.name) - 1)
              [] e.kind = "PARAM" -> Param(Index(OfKind(t, "PARAM"), e.name) - 1)
              [] OTHER -> Param(Params - Index(OfKind(t, "PRIVATE"), e.name))
    IN  [v \in Names(t) |-> number(Item(t, v))]

\* What a command reads or writes: the operands of the operation.
Operands(o) ==
    { o.dyn[i].k : i \in DOMAIN o.dyn }
      \cup (CASE o.op = "SETREG" -> { o.x.e[i].r : i \in DOMAIN o.x.e }
              [] o.op = "LDPARAM" -> {o.x.k}
              [] o.op = "LOOP" -> {o.x.k1, o.x.k2}
              [] OTHER -> {})

\* (mutant of Live: the use in a loop that comes last is overlooked)
Live_First(t, v) ==
    LET ops == Deep(Program(t))
        at == { i \in DOMAIN ops : v \in Operands(ops[i]) }
    IN  [first |-> Min(at), last |-> Min(at),
         defFirst |-> ops[Min(at)].op = "LDPARAM" /\ ops[Min(at)].x.k = v]

\* The live range of a private PARAM over the positions of the walk (a loop
\* after its commands), and whether an LDPARAM defines it before any other use.
Live(t, v) ==
    LET ops == Deep(Program(t))
        at == { i \in DOMAIN ops : v \in Operands(ops[i]) }
    IN  [first |-> Min(at), last |-> Max(at),
         defFirst |-> ops[Min(at)].op = "LDPARAM" /\ ops[Min(at)].x.k = v]

\* More values than registers: a register is free again after the last use of
\* a value that an LDPARAM defines; the others keep theirs.
Reused(t) ==
    LET privates == [i \in DOMAIN OfKind(t, "PRIVATE") |-> OfKind(t, "PRIVATE")[i].name]
        order == SetToSortSeq(ToSet(privates), LAMBDA p, q : Live(t, p).first < Live(t, q).first)
        take(s, v) ==
            LET l == Live(t, v)
                over == SelectSeq(s.busy, LAMBDA b : b.last < l.first)
                free == s.free \o [i \in DOMAIN over |-> over[i].reg]
                reuse == l.defFirst /\ free # <<>>
                reg == IF reuse THEN Last(free) ELSE s.next
                busy == SelectSeq(s.busy, LAMBDA b : b.last >= l.first)
            IN  [next |-> IF reuse THEN s.next ELSE s.next + 1,
                 free |-> IF reuse THEN Front(free) ELSE free,
                 busy |-> IF l.defFirst THEN Append(busy, [last |-> l.last, reg |-> reg]) ELSE busy,
                 regs |-> (v :> Param(reg)) @@ s.regs]
    IN  FoldLeft(take, [next |-> Len(OfKind(t, "PARAM")), free |-> <<>>, busy |-> <<>>,
                        regs |-> Numbered(t)], order).regs

Assigned(t) ==
    LET n == Len(OfKind(t, "PARAM")) + Len(OfKind(t, "PRIVATE"))
        regs == IF n > Params THEN Reused(t) ELSE Numbered(t)
    IN  IF \/ Len(OfKind(t, "BASE")) > Bases
           \/ \E v \in Names(t) : regs[v][1] = "PARAM" /\ regs[v][2] \notin 0 .. Params - 1
        THEN Failed ELSE regs

=============================================================================
