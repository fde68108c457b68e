------------------------------ MODULE SahwList -------------------------------
(***************************************************************************)
(* Serialization of a template (transforms/SahwSerialize.cpp,              *)
(* target/DescList.h): the descriptors of prefix, head and body, each      *)
(* section closed by a RET, and the header fields the runtime relies on;   *)
(* and what the fetch unit (SaDesc) makes of the list.                     *)
(***************************************************************************)
EXTENDS SahwPasses

\* The BASE register of the prefixes.
PrefixBase == Base(Bases)

\* A command with registers for values.
Encoded(o, reg, inPrefix) ==
    LET r(v) == IF inPrefix /\ reg[v][1] = "BASE" THEN PrefixBase ELSE reg[v]
        coded == [o EXCEPT !.dyn = [i \in DOMAIN @ |-> [@[i] EXCEPT !.k = r(@)]]]
    IN  CASE o.op = "SETREG" -> [coded EXCEPT !.x.e = [i \in DOMAIN @ |-> [@[i] EXCEPT !.r = r(@)]]]
          [] o.op = "LDPARAM" ->
                [coded EXCEPT !.x.k = r(@), !.x.base = IF o.x.reloc THEN r(@) ELSE @]
          [] o.op = "CMD" -> [coded EXCEPT !.x.base = IF o.x.reloc THEN r(@) ELSE @]
          [] OTHER -> coded

\* (mutant of LoopEnd: the offset is taken from the start of the list)
LoopEnd_FromStart(o, reg, inPrefix, start, end) ==
    [op |-> "LOOP_END", f |-> o.f, dyn |-> Encoded(o, reg, inPrefix).dyn,
     x |-> [off |-> -end, k1 |-> reg[o.x.k1], v1 |-> o.x.v1,
            k2 |-> reg[o.x.k2], v2 |-> o.x.v2]]

\* LOOP_END jumps back to the first command of the loop; tags number the
\* descriptors of a section (or of head and body together).
LoopEnd(o, reg, inPrefix, start, end) ==
    [op |-> "LOOP_END", f |-> o.f, dyn |-> Encoded(o, reg, inPrefix).dyn,
     x |-> [off |-> start - end, k1 |-> reg[o.x.k1], v1 |-> o.x.v1,
            k2 |-> reg[o.x.k2], v2 |-> o.x.v2]]

Rows(ops, reg, inPrefix, tag) ==
    FoldLeft(LAMBDA rows, o :
                IF o.op = "LOOP"
                THEN rows \o [i \in DOMAIN o.body |-> Encoded(o.body[i], reg, inPrefix)]
                       \o <<LoopEnd(o, reg, inPrefix, tag + Len(rows),
                                    tag + Len(rows) + Len(o.body))>>
                ELSE Append(rows, Encoded(o, reg, inPrefix)),
             <<>>, ops)

RET == [op |-> "RET", f |-> <<>>, dyn |-> <<>>, x |-> <<>>]
Section(ops, reg, inPrefix, tag) ==
    IF ops = <<>> THEN <<>> ELSE Append(Rows(ops, reg, inPrefix, tag), RET)

\* The bindings the commands of a section access.
Bindings(t, ops, kinds) ==
    { Item(t, o.x.base).bind : o \in { o \in ToSet(Deep(ops)) :
        /\ o.op \in {"CMD", "LDPARAM"}
        /\ o.x.reloc
        /\ (IF o.op = "CMD" THEN o.x.eng ELSE "LDPARAM") \in kinds } }
Reading == {"LD", "GEMV", "LDPARAM"}

\* The bases the prefix loads through.
PrefixBases(t) ==
    { o.x.base : o \in { o \in ToSet(Deep(t.prefix)) : o.op \in {"CMD", "LDPARAM"} /\ o.x.reloc } }

\* (mutant of Header: the words LDPARAM reads are not declared)
Header_NoLdparam(t) ==
    [prefixReads |-> Bindings(t, t.prefix, {"LD", "GEMV"}),
     reads |-> Bindings(t, t.head \o t.body, {"LD", "GEMV"}) \cup Bindings(t, t.prefix, Reading),
     writes |-> Bindings(t, t.head \o t.body, {"ST"}),
     spadB |-> UsesSpadB(t.head \o t.body)]

Header(t) ==
    [prefixReads |-> Bindings(t, t.prefix, {"LD", "GEMV"}),
     reads |-> Bindings(t, t.head \o t.body, Reading) \cup Bindings(t, t.prefix, Reading),
     writes |-> Bindings(t, t.head \o t.body, {"ST"}),
     spadB |-> UsesSpadB(t.head \o t.body)]

\* A store in the prefix, or loads through two registers there.
Serializable(t) ==
    /\ \A o \in ToSet(Deep(t.prefix)) : ~IsEng(o, {"ST"})
    /\ Cardinality(PrefixBases(t)) <= 1

Serialized(t, reg) ==
    LET prefix == Section(t.prefix, reg, TRUE, 0)
        head == Section(t.head, reg, FALSE, 0)
        body == Append(Rows(t.body, reg, FALSE, Len(head)), RET)
    IN  [rows |-> prefix \o head \o body, nprefix |-> Len(prefix), nhead |-> Len(head),
         header |-> Header(t)]

-----------------------------------------------------------------------------
(* The runtime sets the registers of the setup and BASE15 to the prefixes' *)
(* base, and CALLs the sections in turn; private registers hold whatever   *)
(* ran before left there (Old).                                            *)

CONSTANT Old

Registers == { Base(n) : n \in 0 .. Bases } \cup { Param(n) : n \in 0 .. Params - 1 }

Loaded(t, reg) ==
    LET set == { v \in Names(t) : Item(t, v).kind # "PRIVATE" }
        of(r) == { v \in set : reg[v] = r }
    IN  [r \in Registers |->
            CASE of(r) # {} -> Initial(Item(t, CHOOSE v \in of(r) : TRUE))
              [] r = PrefixBase /\ PrefixBases(t) # {} ->
                    Initial(Item(t, CHOOSE v \in PrefixBases(t) : TRUE))
              [] OTHER -> Old]

\* One descriptor of the list, as SaList has it; s is [pc, lp, regs, out].
FetchStep(rows, s) ==
    LET d == Patch(rows[s.pc], s.regs)
        match == s.lp # <<>> /\ Last(s.lp).addr = s.pc
        left == IF match THEN Last(s.lp).rem ELSE d.f[1]
        outer == IF match THEN Front(s.lp) ELSE s.lp
        next == [s EXCEPT !.pc = @ + 1]
    IN  CASE d.op = "RET" -> next
          [] d.op = "LOOP_END" ->
                LET n == [next EXCEPT !.regs = Strided(d.x, @)]
                IN  IF left > 1
                    THEN [n EXCEPT !.pc = s.pc + d.x.off,
                                   !.lp = Append(outer, [addr |-> s.pc, rem |-> left - 1])]
                    ELSE [n EXCEPT !.lp = outer]
          [] OTHER -> Effect(next, rows[s.pc])

\* The commands of the whole list, in at most n steps.
ListRun(t, reg, rows, n) ==
    FoldLeft(LAMBDA s, i : IF s.pc \in DOMAIN rows THEN FetchStep(rows, s) ELSE s,
             [pc |-> 1, lp |-> <<>>, regs |-> Loaded(t, reg), out |-> <<>>],
             [i \in 1 .. n |-> i]).out

-----------------------------------------------------------------------------
(***************************************************************************)
(* A template as RISC-V code (transforms/SahwToRiscv.cpp): the same        *)
(* commands over PCPI, in the order of the serialized descriptors.  An     *)
(* engine takes most fields from configuration keys (mat_cfg, vec_cfg,     *)
(* gemv_cfg); a key is written again only when its value may differ.       *)
(***************************************************************************)
\* The word of the descriptor a field lies in, by engine and field number.
WordOf == [LD |-> <<1, 2, 2, 2, 3, 3>>,
           GEMV |-> <<1, 2, 2, 2, 3, 3, 3, 3, 3>>,
           ST |-> <<1, 2, 2, 2, 3>>,
           EX |-> <<1, 1, 1, 1, 2, 2, 2, 2, 1>>,
           VE |-> <<1, 1, 2, 2, 7, 7, 7, 3, 6, 6, 5, 3, 3, 3, 3>>]

\* The fields that are configuration keys; the others are operands of the
\* instruction.  LD and ST, like EX, have keys of their own.
Keys == [LD |-> {3, 4, 5, 6}, GEMV |-> {4, 5, 7, 8}, ST |-> {3, 4, 5},
         EX |-> {5, 6, 7, 8}, VE |-> 3 .. 15]

\* A field is a constant of the code unless a slot patches its word.
Constant(o, n) ==
    \A i \in DOMAIN o.dyn : WordOf[o.x.eng][o.dyn[i].f] # WordOf[o.x.eng][n]

\* (mutant of cfg: a key whose value is not a constant stays known)
cfg_Stays(known, o) ==
    LET e == o.x.eng
        write == { n \in Keys[e] : ~(Constant(o, n) /\ <<e, n>> \in DOMAIN known
                                     /\ known[<<e, n>>] = o.f[n]) }
    IN  [write |-> write,
         known |-> [k \in { <<e, n>> : n \in { n \in write : Constant(o, n) } } |-> o.f[k[2]]]
                   @@ known]

\* The keys a command writes, and the constants known after it.
cfg(known, o) ==
    LET e == o.x.eng
        write == { n \in Keys[e] : ~(Constant(o, n) /\ <<e, n>> \in DOMAIN known
                                     /\ known[<<e, n>>] = o.f[n]) }
        const == { n \in write : Constant(o, n) }
    IN  [write |-> write,
         known |-> [k \in { <<e, n>> : n \in const }
                        \cup (DOMAIN known \ { <<e, n>> : n \in write }) |->
                    IF k[1] = e /\ k[2] \in const THEN o.f[k[2]] ELSE known[k]]]

\* (mutant of EmitLoop: what is known before the loop is kept inside)
EmitLoop_Keeps(E(_, _), s, o) ==
    LET b == FoldLeft(E, [s EXCEPT !.code = <<>>], o.body)
    IN  [b EXCEPT !.code = Append(s.code, [o EXCEPT !.body = b.code])]

\* A loop's head is reached from its end too: nothing is known there.
EmitLoop(E(_, _), s, o) ==
    LET b == FoldLeft(E, [known |-> <<>>, code |-> <<>>], o.body)
    IN  [b EXCEPT !.code = Append(s.code, [o EXCEPT !.body = b.code])]

\* The code of a command: the command with the keys it writes.
Emit(s, o) ==
    IF o.op # "CMD" THEN [s EXCEPT !.code = Append(@, o)]
    ELSE LET c == cfg(s.known, o)
         IN  [known |-> c.known, code |-> Append(s.code, [o EXCEPT !.x = [write |-> c.write] @@ @])]

\* A dynamic LD mode (its word is patched), or a GEMV result outside ACC.
Compiles(t) ==
    \A o \in ToSet(Deep(Program(t))) :
        /\ IsEng(o, {"LD", "GEMV"}) => Constant(o, 6)
        /\ IsEng(o, {"GEMV"}) => MemOf(o.f[2]) = ACC

Code(t) ==
    FoldLeft(LAMBDA s, o : IF o.op = "LOOP" THEN EmitLoop(Emit, s, o) ELSE Emit(s, o),
             [known |-> <<>>, code |-> <<>>], Program(t)).code

-----------------------------------------------------------------------------
(* The code on the core: values are variables (a private one starts at 0), *)
(* the configuration registers hold what was written last.                 *)

CodeEffect(s, o) ==
    LET d == Patch(o, s.regs)
        before == IF FencesBefore(o) THEN <<Fence({})>> ELSE <<>>
        keys == [k \in { <<o.x.eng, n>> : n \in o.x.write } |-> d.f[k[2]]] @@ s.cfg
        seen == [n \in DOMAIN d.f |->
                    CASE n \in Keys[o.x.eng] -> keys[<<o.x.eng, n>>]
                      [] n = 1 -> ddr(d, s.regs)
                      [] OTHER -> d.f[n]]
    IN  CASE o.op = "CMD" ->
                [s EXCEPT !.cfg = keys,
                          !.out = @ \o before \o <<[eng |-> o.x.eng, f |-> seen]>>]
          [] o.op = "LDPARAM" -> Effect([s EXCEPT !.out = Append(@, Fence({}))],
                                        [o EXCEPT !.x.fb = FALSE])
          [] OTHER -> Effect(s, o)

\* The loop variable counts up; the count is taken in the first pass.
CodeRun(t, code) ==
    FoldLeft(LAMBDA s, o : Exec(CodeEffect, s, o),
             [regs |-> Entry(t), cfg |-> <<>>, out |-> <<>>], code).out

\* Commands and reads without the fences right before a read (LDPARAM waits
\* for the engines in the code whether the template asks for it or not).
Bare(out) ==
    FoldLeft(LAMBDA s, e : IF e.eng = "READ" /\ s # <<>> /\ Last(s) = Fence({})
                           THEN Append(Front(s), e) ELSE Append(s, e), <<>>, out)

-----------------------------------------------------------------------------
(* buildRawTopk: the k best of a router's scores.  A descending list of    *)
(* [key, id] that a score enters when it beats the last one.  The key of a *)
(* NaN is 0, below that of every number; both zeros have one key.          *)

CONSTANT NaN

Key(x) == IF x = NaN THEN 0 ELSE x

\* (mutant of Insert: an equal score enters too)
Insert_Equal(list, key, id) ==
    IF key < Last(list).key THEN list
    ELSE LET at == Min({ j \in DOMAIN list : \A i \in j .. Len(list) : key >= list[i].key })
         IN  InsertAt(Front(list), at, [key |-> key, id |-> id])

\* Entries that the new one beats move down one place; the last falls out.
Insert(list, key, id) ==
    IF key <= Last(list).key THEN list
    ELSE LET at == Min({ j \in DOMAIN list : \A i \in j .. Len(list) : key > list[i].key })
         IN  InsertAt(Front(list), at, [key |-> key, id |-> id])

NoId == -1
RawTopk(scores, k) ==
    FoldLeft(LAMBDA l, i : Insert(l, Key(scores[i]), i),
             [j \in 1 .. k |-> [key |-> 0, id |-> NoId]], [i \in DOMAIN scores |-> i])
=============================================================================
