------------------------------- MODULE SaList --------------------------------
(***************************************************************************)
(* What the descriptor fetch unit promises: a list of descriptors runs as  *)
(* a sequential program.  No bursts, no prefetch and nothing to drop: the  *)
(* descriptor at pc is executed atomically, with every dynamic field       *)
(* patched by the registers as the descriptors before it left them.        *)
(***************************************************************************)
EXTENDS SaDesc

CONSTANT NoPkt

VARIABLES
    mem,        \* [desc: address -> descriptor, data: address -> value]
    run,        \* the running list: [on, pc, exec, lim, lp, cs, regs, todo]
    pkt,        \* the command offered to the scheduler, or NoPkt
    pipe,       \* commands in the scheduler's input pipeline
    busy,       \* engines with a command in flight
    halt,       \* the scheduler is halted by an error
    err,        \* the error reported last step: "none", "SHAPE" (a descriptor
                \* that is wrong) or "RRESP" (a read error, at any time)
    clear       \* mat_reset clears the error in this step

lvars == <<mem, run, pkt, pipe, busy, halt, err, clear>>

Idle(zero) ==
    [on |-> FALSE, pc |-> 0, exec |-> 0, lim |-> 0, lp |-> <<>>, cs |-> <<>>,
     regs |-> zero, todo |-> <<>>]

LInit ==
    /\ run = Idle([r \in Reg |-> 0])
    /\ pkt = NoPkt
    /\ pipe = <<>>
    /\ busy = {}
    /\ err = "none"

\* A list that is no longer running leaves only the registers behind.
Off(r) == Idle(r.regs)

\* The count limit is reached (and the last descriptor is complete).
Limited(r) ==
    IF r.lim # 0 /\ r.exec = r.lim /\ r.todo = <<>> THEN Off(r) ELSE r

AllIdle == pkt = NoPkt /\ pipe = <<>> /\ busy = {}

\* The engines of a FENCE (the empty mask: all) are idle and nothing that was
\* issued before is still on its way to an engine.
Quiet(mask) ==
    /\ pkt = NoPkt /\ pipe = <<>>
    /\ busy \cap (IF mask = {} THEN Eng ELSE mask) = {}

AtPC == IF run.pc \in DOMAIN mem.desc THEN mem.desc[run.pc] ELSE Invalid

\* The descriptor at pc with its dynamic fields.
Current == FoldLeft(LAMBDA d, s : Patched(d, s, run.regs), AtPC, AtPC.dyn)

WellFormed ==
    AtPC.op # "NONE" /\ \A i \in 1 .. Len(AtPC.dyn) : f_ok(AtPC, AtPC.dyn[i])

Next1 == [run EXCEPT !.pc = (@ + Step) % Modulus, !.exec = @ + 1]

\* The state after each control descriptor d (a set: empty when d is an error).
Jump(d) ==
    IF tgt(d, run.pc) % Step = 0 THEN {[Next1 EXCEPT !.pc = tgt(d, run.pc)]} ELSE {}

Call(d) ==
    IF Len(run.cs) < Calls
    THEN {[j EXCEPT !.cs = Append(@, Next1.pc)] : j \in Jump(d)}
    ELSE {}

Ret ==
    IF run.cs # <<>>
    THEN {[Next1 EXCEPT !.pc = Last(run.cs), !.cs = Front(@)]}
    ELSE {}

LoopEnd(d) ==
    LET match == run.lp # <<>> /\ Last(run.lp).addr = run.pc
        left  == IF match THEN Last(run.lp).rem ELSE d.f[1]
        outer == IF match THEN Front(run.lp) ELSE run.lp
        n     == [Next1 EXCEPT !.regs = Strided(d.x, @)]
    IN  IF d.f[1] = 0 \/ Len(outer) = Loops
        THEN {}
        ELSE IF left > 1
        THEN {[n EXCEPT !.pc = rel_tgt(run.pc, d.x.off),
                        !.lp = Append(outer, [addr |-> run.pc, rem |-> left - 1])]}
        ELSE {[n EXCEPT !.lp = outer]}

LdParam(d) ==
    LET a == ddr(d, run.regs)
        w == [en |-> TRUE, r |-> d.x.k, add |-> FALSE,
              v |-> mem.data[a] * d.x.mul + d.x.add]
    IN  IF a \in DOMAIN mem.data THEN {[Next1 EXCEPT !.todo = <<w>>]} ELSE {}

Control(d) ==
    CASE d.op = "JUMP" -> Jump(d)
      [] d.op = "CALL" -> Call(d)
      [] d.op = "RET" -> Ret
      [] d.op = "LOOP_END" -> LoopEnd(d)
      [] d.op = "SETREG" -> {[Next1 EXCEPT !.todo = Writes(d)]}
      [] d.op = "LDPARAM" -> LdParam(d)
      [] d.op = "END" -> {Off(run)}
      [] OTHER -> {Next1}                       \* CMD, FENCE

-----------------------------------------------------------------------------
\* The list goes on to r or ends with it; what cuts it short is a read error, a
\* halted scheduler or mat_reset, and nothing else.
Becomes(r) ==
    \/ err' = "none" /\ run' \in {Limited(r)} \cup (IF halt \/ clear THEN {Off(r)} ELSE {})
    \/ err' = "RRESP" /\ run' = Off(r)

\* The offered command stays, is accepted, or is dropped by mat_reset.
Offered ==
    \/ pkt' = pkt /\ pipe' \in {pipe} \cup {Tail(p) : p \in {pipe} \ {<<>>}}
    \/ /\ pkt # NoPkt /\ pkt' = NoPkt
       /\ pipe' \in {Append(p, pkt) : p \in {pipe} \cup {Tail(q) : q \in {pipe} \ {<<>>}}}
    \/ clear /\ pkt' \in {pkt, NoPkt} /\ pipe' = <<>>

Issue ==
    LET d == Current
    IN  /\ d.op = "CMD"
        /\ pkt = NoPkt
        /\ pkt' \in {cmd_pkt(d, run.regs)} \cup (IF clear THEN {NoPkt} ELSE {})
        /\ pipe' \in {pipe, <<>>} \cup {Tail(p) : p \in {pipe} \ {<<>>}}

Exec ==
    /\ run.on /\ run.todo = <<>>
    /\ WellFormed
    /\ LET d == Current
       IN  /\ FencesBefore(d) => AllIdle
           /\ d.op = "FENCE" => Quiet(d.x.mask)
           /\ \E r \in Control(d) : Becomes(r)
           /\ Issue \/ (d.op # "CMD" /\ Offered)

\* A register write of the SETREG or LDPARAM just executed.
Write ==
    /\ run.on /\ run.todo # <<>>
    /\ ~BadReg(Head(run.todo))
    /\ Becomes([run EXCEPT !.regs = Written(Head(run.todo), @), !.todo = Tail(@)])
    /\ Offered

\* A wrong descriptor, or a register that does not exist, is reported and ends
\* the list.
Wrong ==
    /\ run.on
    /\ IF run.todo = <<>> THEN ~WellFormed \/ Control(Current) = {} ELSE BadReg(Head(run.todo))
    /\ err' = "SHAPE" /\ run' = Off(run)
    /\ Offered

Start ==
    /\ ~run.on /\ err' = "none"
    /\ run' = [run EXCEPT !.on = TRUE, !.pc = run'.pc, !.lim = run'.lim]
    /\ run'.pc \in DOMAIN mem.desc /\ run'.lim \in 0 .. Modulus
    /\ Offered

\* A list that is not aligned does not start.
Refuse == ~run.on /\ err' = "SHAPE" /\ run' = run /\ Offered

\* Software sets registers between lists.
Configure ==
    /\ ~run.on /\ err' = "none"
    /\ \E r \in Reg : run' = [run EXCEPT !.regs[r] = run'.regs[r]]
    /\ run'.regs \in [Reg -> Value]
    /\ Offered

Rest == Becomes(run) /\ Offered

LNext == mem' = mem /\ (Rest \/ Exec \/ Write \/ Wrong \/ Start \/ Refuse \/ Configure)

LSpec == LInit /\ [][LNext]_lvars

=============================================================================
