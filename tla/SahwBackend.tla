----------------------------- MODULE SahwBackend -----------------------------
(***************************************************************************)
(* The back end of the compiler: an export that sahl-to-sahw produced goes *)
(* through sahw-fuse-ve, sahw-split-head and sahw-assign-registers         *)
(* (target/SATarget.cpp) and is serialized as a list and compiled as       *)
(* RISC-V code.  Each step must keep what the export does.                 *)
(***************************************************************************)
EXTENDS SahwList

CONSTANTS
    Exports     \* [templ, router]: what sahl-to-sahw may produce, and the
                \* [scores, k] of a Top-k export

VARIABLES
    t0,         \* the template as produced
    t,          \* the template as the passes have left it
    phase,      \* "fuse", "split", "assign", "emit", "done" or "failed"
    reg,        \* the registers assigned
    list,       \* the serialized list
    code,       \* the RISC-V code
    topk        \* a router, and its result

vars == <<t0, t, phase, reg, list, code, topk>>

Init ==
    /\ \E e \in Exports :
        /\ t0 = e.templ /\ t = t0
        /\ topk = [router |-> e.router, ids |-> <<>>]
    /\ phase = "fuse"
    /\ reg = Failed /\ list = <<>> /\ code = <<>>

\* The blocks of the body: itself and its loops'.
InBlock(ops, b, new) ==
    IF b = 0 THEN new ELSE [ops EXCEPT ![b].body = new]
Blocks(ops) == {0} \cup { b \in DOMAIN ops : ops[b].op = "LOOP" }
BlockOf(ops, b) == IF b = 0 THEN ops ELSE ops[b].body

FuseVe ==
    /\ phase = "fuse"
    /\ \E b \in Blocks(t.body) :
        /\ Fusable(BlockOf(t.body, b)) # {}
        /\ t' = [t EXCEPT !.body = InBlock(@, b, fuseOnce(BlockOf(@, b)))]
    /\ UNCHANGED <<t0, phase, reg, list, code, topk>>

\* A -inf mask that was not merged fails the pass.
Fused ==
    /\ phase = "fuse"
    /\ \A b \in Blocks(t.body) : Fusable(BlockOf(t.body, b)) = {}
    /\ phase' = IF \E o \in ToSet(Deep(t.body)) : VE(o) /\ o.x.neginf THEN "failed" ELSE "split"
    /\ UNCHANGED <<t0, t, reg, list, code, topk>>

SahwSplitHead ==
    /\ phase = "split"
    /\ t' = SplitHead(t)
    /\ phase' = "assign"
    /\ UNCHANGED <<t0, reg, list, code, topk>>

SahwAssignRegisters ==
    /\ phase = "assign"
    /\ reg' = Assigned(t)
    /\ phase' = IF reg' = Failed THEN "failed" ELSE "emit"
    /\ UNCHANGED <<t0, t, list, code, topk>>

serializeExecutable ==
    /\ phase = "emit"
    /\ IF Serializable(t)
       THEN phase' = "code" /\ list' = Serialized(t, reg)
       ELSE phase' = "failed" /\ list' = list
    /\ UNCHANGED <<t0, t, reg, code, topk>>

compileRiscv ==
    /\ phase = "code"
    /\ IF Compiles(t)
       THEN phase' = "done" /\ code' = Code(t)
       ELSE phase' = "failed" /\ code' = code
    /\ topk' = [topk EXCEPT !.ids = RawTopk(topk.router.scores, topk.router.k)]
    /\ UNCHANGED <<t0, t, reg, list>>

Next ==
    FuseVe \/ Fused \/ SahwSplitHead \/ SahwAssignRegisters \/ serializeExecutable \/ compileRiscv

Spec == Init /\ [][Next]_vars

-----------------------------------------------------------------------------
\* The passes keep what the export stores: a merged VE computes the same words, and
\* no VE, LD, GEMV load or ST between the two, or after, saw the difference
\* (SahlPipeline.cpp, fuseOnce).  This is of templates in which, between the two, no
\* load writes the words of either, no GEMV load reads those the second writes and no
\* VE that starts elsewhere reaches into them: fuseOnce looks for none of these (163)
\* and merges such a pair wrongly.
SameData == phase = "split" => Data(t) = Data(t0)

\* The list, with its registers shared, its loops as LOOP_END and the prefix on
\* BASE15, issues the commands of the template (SahwPasses.cpp,
\* SahwSerialize.cpp).
ListMeans ==
    phase = "code" =>
        ListRun(t, reg, list.rows, 5 * Len(list.rows)) = Meaning(t)

\* The code issues the same commands with the same fields although it leaves
\* out configuration writes; only its reads wait more (SahwToRiscv.cpp).
CodeMeans == phase = "done" => Bare(CodeRun(t, code)) = Bare(Meaning(t))

\* What a batch must order or may move early is declared: every binding whose
\* memory a command touches, and SPAD_B, which a template with a head must
\* leave alone (the header fields sa_context.c tests; SahwSerialize.cpp).
Owner(a) == CHOOSE b \in DOMAIN Bind : Bind[b] <= a
                /\ \A c \in DOMAIN Bind : Bind[c] <= a => Bind[c] <= Bind[b]
Touched(out, engs) == { Owner(c.f[1]) : c \in { c \in ToSet(out) : c.eng \in engs } }
HeaderCovers ==
    phase = "code" =>
        LET out == ListRun(t, reg, list.rows, 5 * Len(list.rows))
            own == SubSeq(list.rows, list.nprefix + 1, Len(list.rows))
        IN  /\ Touched(out, {"LD", "GEMV", "READ"}) \subseteq list.header.reads
            /\ Touched(out, {"ST"}) \subseteq list.header.writes
            /\ list.nhead > 0 =>
                 \A c \in ToSet(ListRun(t, reg, own, 5 * Len(own))) : c.eng # "EX" /\ (c.eng \in {"LD", "ST"} => MemOf(c.f[2]) # SPAD_B)

\* The router's result: the k largest scores, on equal scores the lower
\* expert, a NaN never; buildRawTopk.
Better(s, i, j) == s[i] > s[j] \/ (s[i] = s[j] /\ i < j)
TopkRight ==
    phase = "done" =>
        LET s == topk.router.scores
            real == { i \in DOMAIN s : s[i] # NaN }
        IN  \A n \in 1 .. topk.router.k :
                IF n > Cardinality(real) THEN topk.ids[n].id = NoId
                ELSE LET i == topk.ids[n].id
                     IN  i \in real /\ Cardinality({ j \in real : Better(s, j, i) }) = n - 1

=============================================================================
