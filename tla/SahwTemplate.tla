---------------------------- MODULE SahwTemplate -----------------------------
(***************************************************************************)
(* An export of an executable as the compiler's last dialect holds it      *)
(* (plugins/sa/dialect/SahwOps.td): the sections prefix, head and body of  *)
(* commands whose registers are still values, and what it means.           *)
(*                                                                         *)
(* A command is a descriptor of SaDesc that names values instead of        *)
(* registers.  Its fields f are numbered as in DescList.h (DYN_ fields); those   *)
(* no slot can patch follow.  x has eng, fb, reloc, base and, for a VE,    *)
(* neginf.  LOOP has its commands in body and the strides in x.            *)
(***************************************************************************)
EXTENDS SaDesc, Integers, FiniteSets

CONSTANTS
    Region,     \* words of a local memory (2^28); an address is mem * Region + word
    D,          \* elements of a local word
    Bind,       \* binding -> its DDR address
    Const,      \* push constant -> its value
    Word        \* the DDR words LDPARAM reads: address -> value

ASSUME TemplateAssumption ==
    /\ Region \in Nat \ {0} /\ D \in Nat \ {0}
    /\ \A a \in DOMAIN Word : Word[a] \in Nat

SPAD_A == 1
SPAD_B == 2
ACC == 3
MemOf(la) == la \div Region

\* f(c) = ((c * mul) >> shift) + add, c a push constant (ord -1: add alone)
Lin(l) == l.add + (IF l.ord >= 0 THEN (Const[l.ord] * l.mul) \div (2 ^ l.shift) ELSE 0)

(* A setup item [kind, name, bind, lin] defines a value of the template.   *)
Kinds == {"BASE", "PARAM", "PRIVATE"}
Initial(e) ==
    CASE e.kind = "BASE" -> (Bind[e.bind] + Lin(e.lin)) % Modulus
      [] e.kind = "PARAM" -> Lin(e.lin) % Modulus
      [] OTHER -> 0
Names(t) == { t.setup[i].name : i \in DOMAIN t.setup }
Item(t, v) == CHOOSE e \in ToSet(t.setup) : e.name = v

\* The commands of a sequence, those of its loops included.
Deep(ops) == FlattenSeq([i \in DOMAIN ops |->
                 IF ops[i].op = "LOOP" THEN Append(ops[i].body, ops[i]) ELSE <<ops[i]>>])

Sections(t) == <<t.prefix, t.head, t.body>>

-----------------------------------------------------------------------------
(* What a template means: the commands the engines get, fences and the     *)
(* words LDPARAM reads among them, when it runs from its first command to  *)
(* its last.  s is [regs, out].                                            *)

Fence(mask) == [eng |-> "FENCE", f |-> <<>>, mask |-> mask]

Patch(o, regs) == FoldLeft(LAMBDA d, s : Patched(d, s, regs), o, o.dyn)

Effect(s, o) ==
    LET d == Patch(o, s.regs)
        before == IF FencesBefore(o) THEN <<Fence({})>> ELSE <<>>
    IN  CASE o.op = "CMD" ->
                [s EXCEPT !.out = @ \o before \o <<cmd_pkt(d, s.regs)>>]
          [] o.op = "FENCE" -> [s EXCEPT !.out = Append(@, Fence(o.x.mask))]
          [] o.op = "SETREG" ->
                [s EXCEPT !.regs = FoldLeft(LAMBDA r, e : Written(e, r), @, Writes(d))]
          [] o.op = "LDPARAM" ->
                LET a == ddr(d, s.regs)
                    w == [en |-> TRUE, r |-> o.x.k, add |-> FALSE,
                          v |-> Word[a] * o.x.mul + o.x.add]
                IN  [s EXCEPT !.regs = Written(w, @),
                              !.out = @ \o before \o <<[eng |-> "READ", f |-> <<a>>]>>]

Pass(E(_, _), s, o) ==
    LET b == FoldLeft(E, s, o.body) IN [b EXCEPT !.regs = Strided(o.x, @)]

\* A command, or the passes of a loop, with the effect E of each command.
Exec(E(_, _), s, o) ==
    IF o.op = "LOOP"
    THEN FoldLeft(LAMBDA r, i : Pass(E, r, o), s, [i \in 1 .. Patch(o, s.regs).f[1] |-> i])
    ELSE E(s, o)

Program(t) == t.prefix \o t.head \o t.body

Entry(t) == [v \in Names(t) |-> Initial(Item(t, v))]

Meaning(t) ==
    FoldLeft(LAMBDA s, o : Exec(Effect, s, o), [regs |-> Entry(t), out |-> <<>>],
             Program(t)).out

=============================================================================
