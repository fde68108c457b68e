----------------------------- MODULE SahlKernels -----------------------------
(* A kernel through the compiler and on the accelerator: expanded, lowered,    *)
(* its commands run one after the other.                                      *)
EXTENDS SahlLower, SahlLinear, SahlAttn, FwKernels

CONSTANT
    Kernels     \* [kind, ...]: the kernels compiled

-----------------------------------------------------------------------------
(* What the layer computes: element (r, c) of y. *)

XVal(l, r, k) == <<"ddr", "x", r * l.K + k>>
WVal(l, w, k, c) == <<"ddr", w, ((c \div D) * l.K + k) * D + (c % D)>>
Product(l, w, r, c) == Dot({<<XVal(l, r, k), WVal(l, w, k, c)>> : k \in 0..l.K-1})
InVal(l, i, r, c) ==
    <<"ddr", InName(i), 4 * (CASE l.epi[i] = "chunked" -> r * N(l) + c [] l.epi[i] = "col" -> c
                               [] l.epi[i] = "row" -> r [] l.epi[i] = "whole" -> 0)>>

\* A body's result on its inputs' values.
RECURSIVE BodyValue(_, _, _)
BodyValue(ops, i, vs) ==
    IF i > Len(ops) THEN Last(vs)
    ELSE BodyValue(ops, i + 1, Append(vs, Term(ops[i].f, [k \in DOMAIN ops[i].a |-> vs[ops[i].a[k]]], ops[i].k)))

LinearMeans(l) ==
    [a \in {<<"y", esz(l) * (r * N(l) + c)>> : r \in 0..RowsOf(l)-1, c \in 0..N(l)-1} |->
        LET r == (a[2] \div esz(l)) \div N(l)
            c == (a[2] \div esz(l)) % N(l)
        IN  BodyValue(l.ops, 1, <<Product(l, "w", r, c)>> \o [i \in DOMAIN l.epi |-> InVal(l, i, r, c)])]

\* A feed-forward pair: h, its largest magnitude, its int8 form.
FfnMeans(f) ==
    LET h == [c \in 0..N(f)-1 |-> BodyValue(f.ops, 1, <<Product(f, "w1", 0, c), Product(f, "w2", 0, c)>> \o [i \in DOMAIN f.epi |-> InVal(f, i, 0, c)])]
        amax == Reduction("max", {Term("abs", <<h[c]>>, 0) : c \in 0..N(f)-1})
        Where(yes, name, e) == IF yes THEN {<<name, e * c>> : c \in 0..N(f)-1} ELSE {}
    IN  [a \in Where(f.kept, "h", 4) |-> h[a[2] \div 4]] @@ [a \in Where(f.q, "y8", 1) |-> Term("q", <<h[a[2]], amax>>, 0)]
          @@ [a \in (IF f.amax THEN {<<"s", 0>>} ELSE {}) |-> amax]

\* A contraction.
ContractMeans(c) ==
    LET P(b, g, n) == Dot({<<<<"ddr", "x", Xe(c) * ((b * c.G + g) * Length(c) + k)>>, <<"ddr", "w", MAt(c, b, n, k)>>>> : k \in 0..Length(c)-1})
        InOf(i, b, g, n) == <<"ddr", EpiName(i), 4 * (CASE c.epi[i] = "elem" -> (b * c.G + g) * c.N + n [] c.epi[i] = "col" -> n
                                                        [] c.epi[i] = "row" -> b * c.G + g [] c.epi[i] = "one" -> 0)>>
        Val0(x) == BodyValue(c.ops, 1, <<P(x[1], x[2], x[3])>> \o [i \in DOMAIN c.epi |-> InOf(i, x[1], x[2], x[3])])
        Cells == (0..c.H-1) \X (0..c.G-1) \X (0..Results(c)-1)
        At1(x) == <<"y", YAt(c, Ye(c), x[1], x[2], x[3])>>
    IN  [a \in {At1(x) : x \in Cells} |-> Val0(CHOOSE x \in Cells : At1(x) = a)]

\* Attention: what a query row at position pos makes of the caches' rows up to it.
QAt(a, m, u, k) == <<"ddr", "q", (IF a.kind = "attnLayer" /\ a.qi8 THEN 1 ELSE 4) * ((m * Units(a) + u) * a.K + k)>>
KVal(a, n, b, k) == <<"ddr", "kc", KAt(a, n, b, k)>>
Score(a, m, u, n) ==
    <<"mul", {Dot({<<QAt(a, m, u, k), KVal(a, n, u \div a.G, k)>> : k \in 0..a.K-1}), <<"ddr", "sq", 4 * (m * Units(a) + u)>>}>>
RowMeans(a, m, u, pos) ==
    LET s == [n \in 0..pos |-> Score(a, m, u, n)]
        mx == Reduction("max", {s[n] : n \in 0..pos})
        p == [n \in 0..pos |-> Term("prob", <<s[n], mx>>, 0)]
        sum == IF a.kind = "attnChunk" THEN Dot({<<p[n], Num(1)>> : n \in 0..pos}) ELSE Reduction("sum", {p[n] : n \in 0..pos})
    IN  [c \in 0..a.K-1 |-> Term("div", <<Dot({<<p[n], <<"ddr", "vc", VAt(a, u \div a.G, n, c)>>>> : n \in 0..pos}), sum>>, 0)]
LayerMeans(a) ==
    LET row == [u \in 0..Units(a)-1 |-> RowMeans(a, 0, u, a.pos)]
    IN  [x \in {<<"y", 4 * i>> : i \in 0..Units(a)*a.K-1} |-> row[(x[2] \div 4) \div a.K][(x[2] \div 4) % a.K]]
ChunkMeans(a) ==
    LET row == [x \in (0..D-1) \X (0..Units(a)-1) |-> RowMeans(a, x[1], x[2], a.pos[x[1] + 1])]
    IN  [x \in {<<<<"y", m>>, 4 * i>> : m \in 0..D-1, i \in 0..Units(a)*a.K-1} |->
            row[x[1][2], (x[2] \div 4) \div a.K][(x[2] \div 4) % a.K]]
ScoresMeans(a) ==
    [x \in {<<"y", 4 * i>> : i \in 0..a.H*a.T-1} |->
        LET h == (x[2] \div 4) \div a.T
            n == (x[2] \div 4) % a.T
        IN  <<"mul", {Dot({<<<<"ddr", "x", 4 * (h * a.K + k)>>, KVal(a, n, h, k)>> : k \in 0..a.K-1}), <<"ddr", "sq", 4 * h>>}>>]
ValuesMeans(a) ==
    [x \in {<<"y", 4 * i>> : i \in 0..a.H*a.K-1} |->
        LET h == (x[2] \div 4) \div a.K
            c == (x[2] \div 4) % a.K
        IN  Term("scale", <<Dot({<<<<"ddr", "x", 4 * (h * a.T + n)>>, KVal(a, n, h, c)>> : n \in 0..a.T-1})>>, 0)]
AttnMeans(a) ==
    CASE a.kind = "attnLayer" -> LayerMeans(a) [] a.kind = "attnChunk" -> ChunkMeans(a)
      [] a.scores -> ScoresMeans(a) [] OTHER -> ValuesMeans(a)

-----------------------------------------------------------------------------
(* Dispatches no micro-kernel matches: loads, generics, stores. *)

\* n: R rows of C elements: the rows' softmax, or (R = 0) the int8 form of a
\* vector of C elements by its largest magnitude.
NestOps(n) ==
    LET x == Buf(<<"x">>, "C", IF n.R = 0 THEN n.C ELSE n.R * n.C)
        s == Buf(<<"s">>, "C", 1)
        y8 == Buf(<<"y">>, "A", n.C)
        mx == Buf(<<"mx">>, "C", n.R)
        ex == Buf(<<"e">>, "C", n.R * n.C)
        sum == Buf(<<"sum">>, "C", n.R)
        y == Buf(<<"y">>, "C", n.R * n.C)
        two(ins, ops, red, to) == [Generic(<<n.R, n.C>>, ins, ops, red, to) EXCEPT !.release = n.release, !.tight = n.tight]
        line(name, e, k) == Line(name, e * k, 0, e * k)
    IN  <<Load(line("x", 4, x.n), x)>> \o
        IF n.R = 0
        THEN <<Generic(<<n.C>>, <<In(x, "id")>>, <<Op("abs", <<1>>)>>, "max", s),
               Generic(<<n.C>>, <<In(x, "id"), In(s, "scalar")>>, <<Op("q", <<1, 2>>)>>, "", y8),
               Store(y8, line("y", 1, n.C)), Store(s, line("s", 4, 1))>>
        ELSE <<two(<<In(x, "id")>>, <<>>, "max", mx),
               two(<<In(x, "id"), In(mx, "row")>>, <<Op("prob", <<1, 2>>)>>, "", ex),
               two(<<In(ex, "id")>>, <<>>, "sum", sum),
               two(<<In(ex, "id"), In(sum, "row")>>, <<Op("div", <<1, 2>>)>>, "", y),
               Store(y, line("y", 4, y.n)), Store(mx, line("s", 4, n.R))>>
NestMeans(n) ==
    LET X(i) == <<"ddr", "x", 4 * i>>
        amax == Reduction("max", {Term("abs", <<X(i)>>, 0) : i \in 0..n.C-1})
        mx(r) == Reduction("max", {X(r * n.C + c) : c \in 0..n.C-1})
        e(i) == Term("prob", <<X(i), mx(i \div n.C)>>, 0)
        sum(r) == Reduction("sum", {e(r * n.C + c) : c \in 0..n.C-1})
    IN  IF n.R = 0 THEN [x \in {<<"y", i>> : i \in 0..n.C-1} |-> Term("q", <<X(x[2]), amax>>, 0)] @@ [x \in {<<"s", 0>>} |-> amax]
        ELSE [x \in {<<"y", 4 * i>> : i \in 0..n.R*n.C-1} |-> LET i == x[2] \div 4 IN Term("div", <<e(i), sum(i \div n.C)>>, 0)]
               @@ [x \in {<<"s", 4 * r>> : r \in 0..n.R-1} |-> mx(x[2] \div 4)]

VARIABLES
    kernel, cmds, why, pc, pass, m

vars == <<kernel, cmds, why, pc, pass, m>>

Expanded(k, shrink) ==
    CASE k.kind = "linear" -> Linear(k) [] k.kind = "ffn" -> Ffn(k) [] k.kind = "contract" -> Contraction(k)
      [] k.kind = "nest" -> NestOps(k) [] OTHER -> Attn(k, shrink)

\* A dispatch that runs out of ACC is compiled again, three times at most.
LoweredIfAny(ops) == IF ops = <<>> THEN [cmds |-> <<>>, why |-> "left"] ELSE Lowered(ops)
RECURSIVE Compiled(_, _)
Retried(k, shrink, L) == IF L.why = "ACC full" /\ shrink < 3 THEN Compiled(k, shrink + 1) ELSE L
Compiled(k, shrink) == Retried(k, shrink, LoweredIfAny(Expanded(k, shrink)))
Means(k) ==
    CASE k.kind = "linear" -> LinearMeans(k) [] k.kind = "ffn" -> FfnMeans(k) [] k.kind = "contract" -> ContractMeans(k)
      [] k.kind = "nest" -> NestMeans(k) [] k.kind = "gemm" -> GemmMeans(k) [] k.kind = "vector" -> VectorMeans(k) [] OTHER -> AttnMeans(k)

\* The firmware's own commands, or a dispatch's.
Fixed(k) == IF k.kind = "gemm" THEN (IF GemmFits(k) THEN Gemm(k) ELSE <<>>) ELSE Vector(k)
Issued(cs) == [cmds |-> cs, why |-> IF cs = <<>> THEN "left" ELSE ""]
Prepared(k) == IF k.kind \in {"gemm", "vector"} THEN Issued(Fixed(k)) ELSE Compiled(k, 0)

NoKernel == [kind |-> "none"]

Init ==
    /\ kernel \in Kernels
    /\ cmds = <<>> /\ why = "" /\ pc = 0 /\ pass = 0 /\ m = Cold

Compile ==
    /\ pc = 0
    /\ \E L \in {Prepared(kernel)} : cmds' = L.cmds /\ why' = L.why
    /\ pc' = 1
    /\ UNCHANGED <<kernel, pass, m>>

Running == pc \in DOMAIN cmds /\ why = ""

Command ==
    /\ Running
    /\ cmds[pc].op # "LOOP"
    /\ m' = Effect(m, cmds[pc])
    /\ pc' = pc + 1
    /\ UNCHANGED <<kernel, cmds, why, pass>>

\* The PARAMs move on after every pass, the last one too.
LoopEnd ==
    /\ Running
    /\ cmds[pc].op = "LOOP"
    /\ m' = [m EXCEPT !.par = [j \in DOMAIN @ |-> IF j \in DOMAIN cmds[pc].strides THEN @[j] + cmds[pc].strides[j] ELSE @[j]]]
    /\ IF pass + 1 < cmds[pc].count
       THEN pass' = pass + 1 /\ pc' = pc - cmds[pc].len
       ELSE pass' = 0 /\ pc' = pc + 1
    /\ UNCHANGED <<kernel, cmds, why>>

Next == Compile \/ Command \/ LoopEnd
Spec == Init /\ [][Next]_vars

Ran == pc > Len(cmds) /\ pc > 0 /\ why = ""
\* What is stored is what the kernel means, and no command went out of range.
Computed == Ran => m.out = Means(kernel) /\ ~m.outside

\* What the compiler chose to write out, it can lower: the local memory, the
\* rows of the DMAs and the layouts it counted on are there.
Fits == why \in {"", "left"}
==============================================================================
