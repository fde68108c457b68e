----------------------------- MODULE MCCompiler ------------------------------
(***************************************************************************)
(* The compiler on one dispatch: either a kernel, expanded, lowered and run *)
(* on the machine (SahlKernels), or an export's template through the passes *)
(* of the back end (SahwBackend).                                           *)
(***************************************************************************)
EXTENDS SahwBackend

CONSTANT Carried    \* with values an LDPARAM before a loop leaves to it

(* Two bindings, one push constant (a length). *)
MCBind == [b \in 0 .. 2 |-> 64 + 128 * b]
MCConst == [c \in {0} |-> 5]
MCWord == [a \in 64 .. 600 |-> (a % 7) + 1]
Reg0 == Registers
SeqsUpTo(S, n) == UNION { [1 .. k -> S] : k \in 0 .. n }

lin == [ord |-> -1, mul |-> 1, shift |-> 0, add |-> 0]
item(kind, name) == [kind |-> kind, name |-> name, bind |-> 0, lin |-> lin]
Setup0 == << [item("BASE", "b0") EXCEPT !.bind = 0], [item("BASE", "b1") EXCEPT !.bind = 1],
             [item("BASE", "b2") EXCEPT !.bind = 2],
             [item("PARAM", "n") EXCEPT !.lin = [ord |-> 0, mul |-> 1, shift |-> 1, add |-> 0]] >>
PrivateNames == <<"c", "e", "p", "q">>

\* A template with the private registers it uses.
Template(prefix, body) ==
    LET used == UNION { Operands(o) : o \in ToSet(Deep(body)) }
        privates == SelectSeq(PrivateNames, LAMBDA v : v \in used)
    IN  [setup |-> Setup0 \o [i \in DOMAIN privates |-> item("PRIVATE", privates[i])],
         prefix |-> prefix, head |-> <<>>, body |-> body]

cmd(eng, f, base, dyn) ==
    [op |-> "CMD", f |-> f, dyn |-> dyn,
     x |-> [eng |-> eng, fb |-> FALSE, reloc |-> base # "", base |-> base, neginf |-> FALSE]]
set(n, k) == <<[f |-> n, k |-> k, add |-> FALSE]>>
adds(n, k) == <<[f |-> n, k |-> k, add |-> TRUE]>>
LdP(v, a) == [op |-> "LDPARAM", f |-> <<a>>, dyn |-> <<>>,
              x |-> [fb |-> FALSE, reloc |-> TRUE, base |-> "b0", k |-> v, mul |-> 1, add |-> 0]]
Zero == [op |-> "SETREG", f |-> <<0, 0>>, dyn |-> <<>>,
         x |-> [e |-> << [en |-> TRUE, r |-> "c", add |-> FALSE],
                         [en |-> TRUE, r |-> "e", add |-> FALSE] >>]]
Loop(body, dyn) ==
    <<Zero, [op |-> "LOOP", f |-> <<2>>, dyn |-> dyn, body |-> body,
             x |-> [k1 |-> "c", v1 |-> 8, k2 |-> "e", v2 |-> 3]]>>
acc(w) == ACC * Region + w

\* Registers: LDPARAMs and loads of the length they give, around a loop.
L(v, a) == LdP(v, a)
U(v) == cmd("LD", <<0, acc(0), 1, 4, 4, 0>>, "b1", set(3, v))
Cur == cmd("ST", <<16, acc(0), 1, 4, 4>>, "b2", adds(1, "c"))
Around == { a \o Loop(b, dn) \o z :
              a \in SeqsUpTo({L("p", 0), U("p"), L("q", 5)}, 2),
              b \in SeqsUpTo({L("p", 1), U("p"), L("q", 2), U("q"), Cur}, 3),
              z \in SeqsUpTo({U("p"), U("q")}, 1),
              dn \in {set(1, "n")} }

Defs(o) == IF o.op = "LDPARAM" THEN {o.x.k} ELSE {}
Flat(ops) == SelectSeq(Deep(ops), LAMBDA o : o.op # "LOOP")
Defined(ops) ==
    LET s == Flat(ops)
    IN  \A i \in DOMAIN s : \A v \in (Operands(s[i]) \cap {"p", "q"}) \ Defs(s[i]) :
            \E j \in 1 .. i - 1 : v \in Defs(s[j])
\* A value defined before the loop and last used inside it, where another
\* LDPARAM follows.
Carries(ops) ==
    \E i \in DOMAIN ops : ops[i].op = "LOOP" /\
        \E v \in {"p", "q"} :
            /\ \E j \in 1 .. i - 1 : v \in Defs(ops[j])
            /\ \E k \in DOMAIN ops[i].body : v \in Operands(ops[i].body[k]) \ Defs(ops[i].body[k])
Registering ==
    { Template(<<>>, b) : b \in { b \in Around : Defined(b) /\ (~Carried => ~Carries(b)) } }

\* Configuration keys: commands that differ in one field, a patched one, loops.
Some == { cmd("LD", <<0, acc(0), 1, 4, 4, 0>>, "b1", <<>>),
          cmd("LD", <<0, acc(0), 2, 4, 4, 0>>, "b1", <<>>),
          cmd("LD", <<8, acc(0), 2, 4, 4, 0>>, "b1", set(3, "n")),
          cmd("GEMV", <<8, acc(0), 2, 4, 4, 2, 3, 1, 0>>, "b1", set(4, "n")),
          cmd("GEMV", <<8, acc(0), 2, 4, 4, 2, 3, 1, 1>>, "b0", <<>>),
          [cmd("ST", <<8, acc(0), 1, 4, 4>>, "b2", <<>>) EXCEPT !.x.fb = TRUE],
          cmd("EX", <<0, 0, 0, 1, 1, 0, 0, 0, 0>>, "", set(4, "n")),
          cmd("EX", <<0, 0, 0, 1, 2, 0, 0, 0, 0>>, "", <<>>),
          [op |-> "FENCE", f |-> <<>>, dyn |-> <<>>, x |-> [mask |-> {"EX"}]] }
WB == SPAD_B * Region
Keyed ==
    { Template(<<>>, b) : b \in SeqsUpTo(Some, 3) }
      \cup { Template(<<>>, a \o Loop(b, <<>>)) : a \in SeqsUpTo(Some, 1), b \in SeqsUpTo(Some, 2) }
      \cup { Template(<<cmd("LD", <<0, WB, 2, 4, 4, 0>>, w, <<>>), cmd("LD", <<8, WB + 2, 2, 4, 4, 0>>, v, <<>>)>>, b) :
               w \in {"b0", "b1"}, v \in {"b1"}, b \in SeqsUpTo(Some, 1) }
      \cup { Template(<<>>, <<cmd("LD", <<0, acc(0), 1, 4, 4, 0>>, "b1", set(5, "n"))>>),
             Template(<<>>, <<cmd("GEMV", <<8, 0, 2, 4, 4, 2, 3, 1, 0>>, "b1", <<>>)>>) }

\* Vector programs: a load, single-stage VEs over three buffers (two overlap), a store.
LenK == [op |-> "SETREG"]
ve(s, d, f) ==
    cmd("VE", [n \in 1 .. 15 |-> CASE n = 1 -> acc(s) [] n = 3 -> acc(d) [] n = 4 -> 2 [] n = 9 -> 1
                                   [] n = 12 -> F32 [] n = 15 -> COPY
                                   [] OTHER -> 0], "", <<>>)
With(v, n, x) == [v EXCEPT !.f[n] = x]
StageKinds == {"A", "B", "F", "i8", "max", "mask", "ninf", "add"}
Staged(v, k) ==
    CASE k = "A" -> With(v, 9, 2) [] k = "B" -> With(v, 10, 3) [] k = "F" -> With(v, 13, 1)
      [] k = "i8" -> With(v, 12, 0) [] k = "max" -> With(v, 14, RED_MAX)
      [] k = "mask" -> [v EXCEPT !.dyn = set(5, "v1")]
      [] k = "ninf" -> [v EXCEPT !.dyn = set(5, "v1"), !.x.neginf = TRUE]
      [] k = "add" -> With(With(v, 2, acc(0)), 15, 0)
LdV == cmd("LD", <<0, acc(0), 1, 8, 8, 0>>, "b0", <<>>)
StV(a) == cmd("ST", <<0, acc(a), 1, 8, 8>>, "b2", <<>>)
VSetup == Append(Setup0, [item("PARAM", "v1") EXCEPT !.lin.add = 1])
Ves(S, D0, K) == { Staged(ve(s, d, 0), k) : s \in S, d \in D0, k \in K }
\* The same, and other loads and stores: SPAD_A holds the x of the GEMV loads, at
\* the distance X from ACC.
X == (SPAD_A - ACC) * Region
LdTo(a) == cmd("LD", <<24, acc(a), 1, 8, 8, 0>>, "b1", <<>>)
GemvTo(a) == cmd("GEMV", <<8, acc(a), 2, 2, 2, 2, 0, 1, 0>>, "b1", <<>>)
Moves == { LdTo(a) : a \in {0, 2, 4} } \cup { GemvTo(a) : a \in {0, 2, 4} } \cup { StV(a) : a \in {0, 2, 4} }
\* A mask with 0 never feeds a max reduction, one with -inf nothing else, and the
\* two words of a buffer are the work of one command.
WritesTo(o) ==
    CASE VE(o) -> o.f[3] .. o.f[3] + (IF o.f[14] # 0 THEN 0 ELSE 1)
      [] IsEng(o, {"LD", "GEMV"}) -> {o.f[2], o.f[2] + 1}
      [] OTHER -> {}
Writer(b, i, a) == { j \in 1 .. i - 1 : a \in WritesTo(b[j])
                        /\ \A k \in j + 1 .. i - 1 : a \notin WritesTo(b[k]) }
Sensible(b) ==
  /\ \A i \in DOMAIN b : IsEng(b[i], {"ST"}) =>
        \A a \in {b[i].f[2], b[i].f[2] + 1} : \A j \in Writer(b, i, a) :
            ~(VE(b[j]) /\ b[j].x.neginf)
  /\ \A i \in DOMAIN b : VE(b[i]) =>
        /\ b[i].f[14] = RED_MAX =>
              \A j \in 1 .. i - 1 : VE(b[j]) => ~(b[j].dyn # <<>> /\ ~b[j].x.neginf)
        /\ \A a \in {b[i].f[1], b[i].f[2]} : \A j \in Writer(b, i, a) :
              VE(b[j]) /\ b[j].x.neginf => a = b[i].f[1] /\ b[i].f[14] = RED_MAX
        /\ Writer(b, i, b[i].f[1]) # {}
        /\ Writer(b, i, b[i].f[1]) = Writer(b, i, b[i].f[1] + 1)
\* What sahw-fuse-ve takes for granted of sahl-to-sahw, and does not test
\* (SahlPipeline.cpp 163): between a VE and the one that goes on with its result no
\* load writes the words of either, no GEMV load reads those the second writes.  (That
\* no VE overwrites a part of them is in Sensible and the three buffers.)
Apart(b) ==
    \A j \in DOMAIN b : VE(b[j]) =>
        \A i \in Producer(b, j) : \A k \in i + 1 .. j - 1 :
            /\ IsEng(b[k], {"LD", "GEMV"}) =>
                  WritesTo(b[k]) \cap ({b[j].f[1], b[j].f[1] + 1} \cup WritesTo(b[j])) = {}
            /\ IsEng(b[k], {"GEMV"}) => Gathered(b[k]) \cap WritesTo(b[j]) = {}
VeBodies ==
    { <<LdV, a, b, c, StV(z)>> :
        a \in Ves({0}, {2}, {"A", "mask", "ninf", "add"}),
        b \in Ves({0, 2}, {0, 2, 3}, StageKinds \ {"mask", "add"}),
        c \in Ves({0, 2, 3}, {0, 2, 4}, {"B", "F", "max", "add"}),
        z \in {2, 4} }
      \cup { <<LdV, a, StV(z), b, c, StV(4)>> :
        a \in Ves({0}, {2, 4}, {"A", "ninf"}), z \in {0, 2},
        b \in Ves({2, 4}, {4, 3}, {"F", "max"}), c \in Ves({0, 4}, {2, 4}, {"A", "F"}) }
      \cup { <<LdV, Staged(ve(0, X, 0), "i8"), a, l, b, n, StV(z)>> :
        a \in Ves({0}, {2}, {"A", "ninf"}), l \in Moves,
        b \in Ves({2}, {2, 4}, {"F", "max"}) \cup Ves({2}, {X}, {"i8"}), n \in Moves, z \in {2, 4} }
Vector ==
    { [setup |-> VSetup, prefix |-> <<>>, head |-> <<>>, body |-> b] :
        b \in { b \in VeBodies : Sensible(b) /\ Apart(b) } }

MCTemplates == IF Carried THEN Registering ELSE Registering \cup Keyed \cup Vector

\* Scores, k: every order and ties of three numbers and NaN.
Scores == { [scores |-> s, k |-> 2] : s \in [1 .. 3 -> {1, 2, NaN}] }
OneRouter == CHOOSE r \in Scores : TRUE
MCExports ==
    { [templ |-> m, router |-> OneRouter] : m \in MCTemplates }
      \cup { [templ |-> Template(<<>>, <<StV(0)>>), router |-> r] : r \in Scores }

-----------------------------------------------------------------------------
VARIABLES
    kernel, cmds, why, pc, pass, mach

kvars == <<kernel, cmds, why, pc, pass, mach>>

(* A machine of words of two lanes; sizes for which a layer takes several   *)
(* chunks, blocks of K and of T, and some kernels fill the memories.        *)
F(f, a) == [f |-> f, a |-> a, k |-> 0]
Len8 == 8       \* MaxT

\* Linear layers and the feed-forward pair: each epilogue input in turn.
LinearOf(M, K, nt, epi, ops, first, ports) ==
    [kind |-> "linear", M |-> M, K |-> K, nt |-> nt, epi |-> epi, ops |-> ops, i8 |-> FALSE, first |-> first, ports |-> ports]
Chain(epi) == [i \in DOMAIN epi |-> F(IF i % 2 = 1 THEN "mul" ELSE "add", <<IF i = 1 THEN 1 ELSE Len(epi) + i, i + 1>>)]
Epis == {<<>>, <<"col", "row">>, <<"chunked">>, <<"whole", "col", "chunked", "row", "chunked", "chunked">>}
Dec == {<<>>, <<"whole", "chunked">>, <<"chunked", "whole", "chunked">>}
Layers ==
    { LinearOf(M, K, nt, e, Chain(e), FALSE, FALSE) : M \in {2, 4}, K \in {4, 32}, nt \in {1, 2, 4}, e \in Epis }
      \cup { LinearOf(0, K, nt, e, Chain(e), f, p) : K \in {4, 8, 16}, nt \in {1, 5, 8}, e \in Dec, f \in BOOLEAN, p \in BOOLEAN }
FfnOf(K, nt, epi, after) ==
    [kind |-> "ffn", M |-> 0, K |-> K, nt |-> nt, epi |-> epi, i8 |-> FALSE, ports |-> TRUE,
     ops |-> <<F("silu", <<1>>), F("mul", <<2, 3 + Len(epi)>>)>> \o [i \in DOMAIN epi |-> F("mul", <<3 + Len(epi) + i, 2 + i>>)],
     amax |-> after \in {"split", "all"}, q |-> after \in {"split", "all"}, kept |-> after # "split"]
Pairs == { FfnOf(K, nt, e, a) : K \in {4, 24}, nt \in {1, 7, 12}, e \in {<<>>, <<"whole", "chunked">>}, a \in {"h", "split", "all"} }

\* Contractions: every layout, K in one block or two, T in place of K or of N.
Con(layout, H, G, K, n, dyn, T, i8, epi, blk, ports) ==
    [kind |-> "contract", layout |-> layout, H |-> H, G |-> G, K |-> IF dyn = "K" THEN Len8 ELSE K, N |-> IF dyn = "N" THEN Len8 ELSE n,
     dyn |-> dyn, T |-> T, i32 |-> layout = "rowsK", i8 |-> i8, epi |-> epi, ops |-> Chain(epi), blk |-> blk, ports |-> ports, first |-> TRUE]
Contractions ==
    { Con(l, H, G, K, 4, "", 0, i8, e, 0, FALSE) :
        l \in {"packed", "rowsK", "rowsN"}, H \in {1, 2}, G \in {1, 2}, K \in {4, 24}, i8 \in {FALSE}, e \in {<<>>, <<"row", "one", "col", "elem">>} }
      \cup { Con("rowsN", H, G, 0, 4, "K", T, FALSE, e, 0, FALSE) : H \in {1, 2}, G \in {1, 2}, T \in {2, 6, 8}, e \in {<<>>, <<"row">>} }
      \cup { Con("packed", H, G, 0, 4, "K", T, FALSE, e, 0, TRUE) : H \in {1, 2}, G \in {1, 2}, T \in {6, 8}, e \in {<<>>, <<"row">>} }
      \cup { Con("rowsK", H, G, K, 0, "N", T, FALSE, <<"row">>, blk, FALSE) :
                H \in {1, 2}, G \in {1, 2}, K \in {4, 10, 16}, T \in {2, 4, 6}, blk \in {2, 4} }

\* Attention: whole caches and blocks of them, rows before and at the end of T.
Attns ==
    { [kind |-> "attn", scores |-> sc, H |-> H, G |-> 1, K |-> K, T |-> T] : sc \in BOOLEAN, H \in {1, 2}, K \in {2, 4}, T \in {2, 8} }
      \cup { [kind |-> "attnLayer", H |-> H, G |-> G, K |-> K, T |-> T, pos |-> p, blk |-> 4, qi8 |-> i] :
                H \in {1, 2}, G \in {1, 2}, K \in {4, 10, 12}, T \in {4, 6}, p \in {2, 3}, i \in BOOLEAN }
      \cup { [kind |-> "attnChunk", H |-> H, G |-> G, K |-> 4, T |-> T, pos |-> p, blk |-> 4] :
                H \in {1, 2}, G \in {1, 2}, T \in {4, 6}, p \in {<<2, 3>>, <<0, 1>>} }

\* Other dispatches, and the firmware's kernels.
NestOf(r, c, ti, rel) == [kind |-> "nest", R |-> r, C |-> c, tight |-> ti, release |-> rel]
Nests == { NestOf(0, c, FALSE, FALSE) : c \in {4, 16} } \cup { NestOf(3, 4, ti, rel) : ti \in BOOLEAN, rel \in BOOLEAN }
Firmwares ==
    { [kind |-> "gemm", M |-> M, N |-> n, K |-> 4, bias |-> b, quant |-> q, split |-> s, prefetch |-> p] :
        M \in {2, 6}, n \in {2, 6}, b \in BOOLEAN, q \in BOOLEAN, s \in BOOLEAN, p \in BOOLEAN }
      \cup { [kind |-> "vector", groups |-> g, in |-> i, outT |-> o, unary |-> u, period |-> p] :
                g \in {4, 9}, i \in {1, 4}, o \in {1, 4}, u \in BOOLEAN, p \in {0, 1, 3} }

MCKernels == Layers \cup Pairs \cup Contractions \cup Attns \cup Nests \cup Firmwares

Kern == INSTANCE SahlKernels WITH
        D <- 2, SBANK <- 32, CBANK <- 64, MaxRow <- 40, MaxT <- Len8, HalfMin <- 24, MaxShift <- 3,
        ChunkGroups <- 4, RowBytes <- 16, Kernels <- MCKernels, m <- mach

-----------------------------------------------------------------------------
\* One of the two has a dispatch, the other stays as it is.
CompilerInit ==
    \/ Init /\ kernel = Kern!NoKernel /\ cmds = <<>> /\ why = "" /\ pc = -1 /\ pass = 0 /\ mach = Kern!Cold
    \/ /\ Kern!Init
       /\ t0 = Template(<<>>, <<>>) /\ t = t0 /\ topk = [router |-> OneRouter, ids |-> <<>>]
       /\ phase = "idle" /\ reg = Failed /\ list = <<>> /\ code = <<>>
CompilerNext == (Next /\ UNCHANGED kvars) \/ (Kern!Next /\ UNCHANGED vars)
CompilerSpec == CompilerInit /\ [][CompilerNext]_<<vars, kvars>>

\* A kernel's commands, run in order, leave in DDR what the layer computes:
\* every element, nothing but them, and no command reaches outside its memory
\* or its operand (SahlExpandKernels.cpp, SahlToSahw.cpp, SahlLowerGeneric.cpp;
\* gemm_fw.c, vector_fw.c).
Computed == Kern!Computed

\* A kernel the compiler chose to write out, with a smaller second try when it
\* runs out of ACC, lowers without an error: the sizes the schedule estimates
\* before anything is allocated (SahlKernels.cpp linearSchedule, the conditions
\* of SahlExpandKernels.cpp) count what lowering takes (SahlToSahw.cpp
\* newLocal, bufOf, load, store; the tries are SaCodegen.cpp's).
Fits == Kern!Fits
=============================================================================
