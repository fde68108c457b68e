------------------------------- MODULE SaDesc --------------------------------
(***************************************************************************)
(* Descriptors of the command lists in DDR, as the fetch unit              *)
(* (rtl/sysarray/sa_cmdfetch.v) decodes them.                              *)
(*                                                                         *)
(* A descriptor is a record                                                *)
(*   op     what it is; "NONE" is an invalid header (unknown opcode or     *)
(*          reserved bit 15), "CMD" stands for LD, ST, EX and VE           *)
(*   f      the fields a dynamic slot can patch, by field number           *)
(*   dyn    the used dynamic slots, each [f, k, add]: field, PARAM, mode   *)
(*   x      the rest of the words the operation reads (see the users of x) *)
(* Registers, fields and addresses are taken modulo Modulus (2^32).        *)
(***************************************************************************)
EXTENDS Naturals, Sequences, SequencesExt

CONSTANTS
    Eng,        \* the engines
    Reg,        \* BASE0..15 and PARAM0..7
    Step,       \* bytes of a descriptor (64)
    Modulus,    \* 2^32
    Loops,      \* levels of the loop stack (2)
    Calls       \* levels of the return stack (4)

Value == 0 .. Modulus - 1

Ops == {"CMD", "FENCE", "JUMP", "CALL", "RET", "SETREG", "LOOP_END",
        "LDPARAM", "END", "NONE"}

\* What is read where no list lies.
Invalid == [op |-> "NONE", f |-> <<>>, dyn |-> <<>>, x |-> <<>>]

\* What any words decode to: fields, values and addresses are 32 bits wide, a
\* slot names one of the PARAMs.
IsDesc(d) ==
    /\ DOMAIN d = {"op", "f", "dyn", "x"}
    /\ d.op \in Ops /\ d.f \in Seq(Value)
    /\ d.dyn \in Seq([f : Nat, k : Reg, add : BOOLEAN])
    /\ d.op \in {"JUMP", "CALL", "LOOP_END", "LDPARAM"} => d.f # <<>>
    /\ d.op \in {"JUMP", "CALL"} => d.x.rel \in BOOLEAN
    /\ d.op = "LOOP_END" => {d.x.off, d.x.v1, d.x.v2} \subseteq Value /\ {d.x.k1, d.x.k2} \subseteq Reg
    /\ d.op = "LDPARAM" =>
            /\ {d.x.mul, d.x.add} \subseteq Value /\ d.x.k \in Reg
            /\ d.x.reloc => d.x.base \in Reg
    /\ d.op = "SETREG" => Len(d.x.e) \in 1 .. Len(d.f)

\* The operations that honour FENCE_BEFORE.
FencesBefore(d) == d.op \in {"CMD", "LDPARAM"} /\ d.x.fb

f_ok(d, s) == s.f \in DOMAIN d.f

\* One dynamic slot replaces a field by a PARAM or adds it.
Patched(d, s, regs) ==
    [d EXCEPT !.f[s.f] = (IF s.add THEN @ + regs[s.k] ELSE regs[s.k]) % Modulus]

\* The (relocated) address of a DDR command or of LDPARAM.
ddr(d, regs) == (d.f[1] + (IF d.x.reloc THEN regs[d.x.base] ELSE 0)) % Modulus

\* The command a CMD descriptor builds: its engine and its fields.
cmd_pkt(d, regs) == [eng |-> d.x.eng, f |-> [d.f EXCEPT ![1] = ddr(d, regs)]]

\* A target relative to the descriptor at addr.
rel_tgt(addr, n) == (addr + n * Step) % Modulus
tgt(d, addr) == IF d.x.rel THEN rel_tgt(addr, d.f[1]) ELSE d.f[1]

\* Two strided PARAMs; one register named twice gets both strides.
Strided(x, regs) ==
    IF x.k1 = x.k2
    THEN [regs EXCEPT ![x.k1] = (@ + x.v1 + x.v2) % Modulus]
    ELSE [regs EXCEPT ![x.k1] = (@ + x.v1) % Modulus, ![x.k2] = (@ + x.v2) % Modulus]

\* A register write of SETREG (or LDPARAM): [en, r, v, add].
Written(e, regs) ==
    IF e.en
    THEN [regs EXCEPT ![e.r] = (IF e.add THEN @ + e.v ELSE e.v) % Modulus]
    ELSE regs

\* SETREG names a register that does not exist (index > 23).
BadReg(e) == e.en /\ e.r \notin Reg

\* The register writes of a SETREG; the value of item i is field i.
Writes(d) ==
    [i \in 1 .. Len(d.x.e) |->
        [en |-> d.x.e[i].en, r |-> d.x.e[i].r, add |-> d.x.e[i].add, v |-> d.f[i]]]

=============================================================================
