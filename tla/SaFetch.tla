------------------------------- MODULE SaFetch -------------------------------
(***************************************************************************)
(* The descriptor fetch unit, rtl/sysarray/sa_cmdfetch.v.                  *)
(*                                                                         *)
(* mat_submit starts it at a list of descriptors in DDR.  It prefetches    *)
(* them speculatively, one read burst each, into a FIFO; assembles the     *)
(* words; patches the dynamic fields one slot per cycle; decodes; and      *)
(* offers the commands to the scheduler.  Control descriptors change the   *)
(* address: everything fetched past them is dropped (S_DRAIN).             *)
(*                                                                         *)
(* One step is one posedge clk.  The control registers are the record c;   *)
(* an always block in which the last assignment wins is a composition of   *)
(* EXCEPTs in the same order.  The datapath (AXI read channel, FIFO, word  *)
(* register) are variables of their own.  The scheduler is its interface:  *)
(* an input pipeline, busy engines, the sticky error, clear_error.         *)
(***************************************************************************)
EXTENDS SaDesc, FiniteSets

CONSTANTS
    MaxOut,     \* bursts in flight (4); the FIFO holds as many descriptors
    Words,      \* read beats of a descriptor (8; 4 on a 128-bit port)
    Pipe,       \* commands the scheduler's input pipeline holds
    Images,     \* memory images by name, and what software does with each:
                \*   desc: address -> descriptor, data: address -> value,
                \*   starts: what it submits, a set of [addr, count],
                \*   sets: its mat_cfg writes, a subset of Reg \X Value,
                \*   max: bound, lists submitted
    Resp,       \* read responses: subset of {"OKAY", "SLVERR"}
    EngErr,     \* may an engine or the scheduler report an error: subset of BOOLEAN
    Reset,      \* may software issue mat_reset: subset of BOOLEAN
    NoPkt,
    NoAddr

ASSUME FetchAssumption ==
    /\ MaxOut \in Nat \ {0} /\ Words \in Nat \ {0} /\ Pipe \in Nat \ {0}
    /\ Step \in Nat /\ Step >= Words /\ Step % Words = 0
    /\ Modulus \in Nat \ {0} /\ Modulus % Step = 0
    /\ Loops \in Nat /\ Calls \in Nat
    /\ NoAddr \notin Value
    /\ \A i \in DOMAIN Images :
            /\ Images[i].sets \subseteq Reg \X Value /\ Images[i].max \in Nat
            /\ \A a \in DOMAIN Images[i].desc : IsDesc(Images[i].desc[a])
            /\ \A a \in DOMAIN Images[i].data : Images[i].data[a] \in Value
            /\ \A s \in Images[i].starts : s.addr \in Value
    /\ "OKAY" \in Resp /\ FALSE \in EngErr /\ FALSE \in Reset

VARIABLES
    image,          \* the name of the memory image (never changes)
    c,              \* control registers
    ar,             \* address on the AR channel, or NoAddr (ar_valid = 0)
    bursts,         \* accepted bursts whose last beat has not come, oldest first
    beats,          \* beats of the oldest one that have come
    fifo,           \* fetched words <<descriptor address, word>>, oldest first
    w,              \* words assembled so far (wi); full when complete (dfull)
    nsub,           \* lists submitted
    pipe,           \* the scheduler's input pipeline
    busy,           \* engines with a command in flight
    sched_err,      \* its sticky error
    clear_error     \* mat_reset

sched == <<pipe, busy, sched_err, clear_error>>
mem == Images[image]

vars == <<image, c, ar, bursts, beats, fifo, w, nsub, sched>>

NoLdp == [pend |-> FALSE]

Init ==
    /\ image \in DOMAIN Images
    /\ c = [state |-> "IDLE", resume |-> FALSE, err |-> "none",
            fetch_addr |-> 0, dec_addr |-> 0, d |-> Invalid, pdone |-> 0,
            pkt |-> NoPkt, count_lim |-> 0, st_exec |-> 0,
            fence_mask |-> {}, fenced |-> FALSE, lp |-> <<>>, cs |-> <<>>,
            regs |-> [r \in Reg |-> 0], sr |-> <<>>, sr_stop |-> FALSE,
            ldp |-> NoLdp, ldp_pend |-> FALSE, ldp_err |-> FALSE,
            ldp_calc |-> FALSE, ldp_word |-> 0]
    /\ ar = NoAddr /\ bursts = <<>> /\ beats = 0
    /\ fifo = <<>> /\ w = <<>> /\ nsub = 0
    /\ pipe = <<>> /\ busy = {} /\ sched_err = FALSE /\ clear_error = FALSE

-----------------------------------------------------------------------------
(***************************************************************************)
(* Wires.                                                                  *)
(***************************************************************************)

fetching == c.state \in {"RUN", "FENCE", "SETREG"}
\* (mutant of room: the burst about to be issued is not counted)
room_NoNew == Len(fifo) + Len(bursts) * Words <= MaxOut * Words
room == Len(fifo) + Len(bursts) * Words + Words <= MaxOut * Words
issue == fetching /\ ar = NoAddr /\ Len(bursts) < MaxOut /\ room

dfull == Len(w) = Words
pop == ~dfull /\ fifo # <<>> /\ fetching
patching == dfull /\ c.pdone < Len(c.d.dyn)
decode == c.state = "RUN" /\ dfull /\ c.pkt = NoPkt /\ ~patching
limit_hit == c.count_lim # 0 /\ c.st_exec + 1 = c.count_lim

out_valid == c.pkt # NoPkt /\ ~sched_err
in_ready == Len(pipe) < Pipe
accepted == out_valid /\ in_ready
unit_busy == c.state # "IDLE" \/ c.pkt # NoPkt

\* (mutant of fence_done: commands in the scheduler's pipeline are overlooked)
fence_done_NoPipe ==
    /\ c.pkt = NoPkt
    /\ busy \cap (IF c.fence_mask = {} THEN Eng ELSE c.fence_mask) = {}
fence_done ==
    /\ pipe = <<>> /\ c.pkt = NoPkt
    /\ busy \cap (IF c.fence_mask = {} THEN Eng ELSE c.fence_mask) = {}

\* The descriptor that the words ws (all of one block, in order) make up.
Assembled(ws) ==
    LET a == ws[1][1]
    IN  IF ws = [i \in 1 .. Words |-> <<a, i>>] /\ a \in DOMAIN mem.desc
        THEN mem.desc[a]
        ELSE Invalid

-----------------------------------------------------------------------------
(***************************************************************************)
(* Control: the registers after this edge, from n = the registers after    *)
(* the assignments common to all states.                                   *)
(***************************************************************************)

Stop(n, resume) == [n EXCEPT !.state = "DRAIN", !.resume = resume]
\* err_set and err_code: a descriptor in error, a read error.
Report(n, code) == [n EXCEPT !.state = "ERR", !.err = code]
Fail(n) == Report(n, "SHAPE")
ReadFail(n) == Report(n, "RRESP")
Abandon(n) == Stop([n EXCEPT !.pkt = NoPkt, !.ldp_pend = FALSE], FALSE)

\* (mutant of Submitted: fenced keeps the value an abandoned list left)
Submitted_StaleFence(n, s) ==
    LET m == [n EXCEPT !.st_exec = 0, !.count_lim = s.count, !.fence_mask = {},
                       !.lp = <<>>, !.cs = <<>>, !.ldp_pend = FALSE]
    IN  IF s.addr % Step # 0
        THEN Fail(m)
        ELSE [m EXCEPT !.state = "RUN", !.fetch_addr = s.addr, !.dec_addr = s.addr]

\* mat_submit, in S_IDLE.
Submitted(n, s) ==
    LET m == [n EXCEPT !.st_exec = 0, !.count_lim = s.count, !.fence_mask = {},
                       !.fenced = FALSE, !.lp = <<>>, !.cs = <<>>, !.ldp_pend = FALSE]
    IN  IF s.addr % Step # 0
        THEN Fail(m)
        ELSE [m EXCEPT !.state = "RUN", !.fetch_addr = s.addr, !.dec_addr = s.addr]

\* One dynamic slot is applied per cycle.
Patch(n) ==
    LET s == c.d.dyn[c.pdone + 1]
    IN  IF c.d.op = "NONE" \/ ~f_ok(c.d, s)
        THEN Fail(n)
        ELSE [n EXCEPT !.d = Patched(c.d, s, c.regs), !.pdone = @ + 1]

\* (mutant of GoTo: the list ends with its first jump)
GoTo_Lost(n, target) ==
    Stop([n EXCEPT !.fetch_addr = target, !.dec_addr = target], FALSE)

GoTo(n, target) ==
    Stop([n EXCEPT !.fetch_addr = target, !.dec_addr = target], ~limit_hit)

DecodeCmd(n) ==
    LET m == [n EXCEPT !.pkt = cmd_pkt(c.d, c.regs)]
    IN  IF limit_hit THEN Stop(m, FALSE) ELSE m

DecodeJump(n) ==
    IF ~c.d.x.rel /\ c.d.f[1] % Step # 0
    THEN Fail(n)
    ELSE GoTo(n, tgt(c.d, c.dec_addr))

DecodeCall(n) ==
    IF Len(c.cs) = Calls
    THEN Fail(n)
    ELSE DecodeJump([n EXCEPT !.cs = Append(@, (c.dec_addr + Step) % Modulus)])

DecodeRet(n) ==
    IF c.cs = <<>> THEN Fail(n) ELSE GoTo([n EXCEPT !.cs = Front(@)], Last(c.cs))

DecodeLoopEnd(n) ==
    LET lp_match == c.lp # <<>> /\ Last(c.lp).addr = c.dec_addr
        lp_cur   == IF lp_match THEN Last(c.lp).rem ELSE c.d.f[1]
        outer    == IF lp_match THEN Front(c.lp) ELSE c.lp
        m        == [n EXCEPT !.regs = Strided(c.d.x, c.regs)]
        entry    == [addr |-> c.dec_addr, rem |-> lp_cur - 1]
    IN  IF c.d.f[1] = 0 \/ (~lp_match /\ Len(c.lp) = Loops)
        THEN Fail(n)
        ELSE IF lp_cur > 1
        THEN GoTo([m EXCEPT !.lp = Append(outer, entry)], rel_tgt(c.dec_addr, c.d.x.off))
        ELSE IF limit_hit
        THEN Stop([m EXCEPT !.lp = outer], FALSE)
        ELSE [m EXCEPT !.lp = outer]

DecodeSetReg(n) ==
    [n EXCEPT !.sr = Writes(c.d), !.sr_stop = limit_hit, !.state = "SETREG"]

\* The word is read once the prefetched bursts are dropped; the descriptors
\* after this one are fetched again.
DecodeLdParam(n) ==
    LET a == ddr(c.d, c.regs)
    IN  IF a % (Step \div Words) # 0
        THEN Fail(n)
        ELSE Stop([n EXCEPT !.ldp = [a |-> a, k |-> c.d.x.k, mul |-> c.d.x.mul,
                                     add |-> c.d.x.add, stop |-> limit_hit],
                            !.ldp_pend = TRUE,
                            !.fetch_addr = (c.dec_addr + Step) % Modulus], TRUE)

\* A complete descriptor leaves w: it is decoded and waits for nothing first.
consumed ==
    /\ decode /\ ~sched_err
    /\ c.d.op # "NONE"
    /\ ~FencesBefore(c.d) \/ c.fenced

Decode(n) ==
    LET m == [n EXCEPT !.st_exec = @ + 1, !.dec_addr = (@ + Step) % Modulus,
                       !.fenced = FALSE, !.pdone = 0, !.d = Invalid]
    IN  IF c.d.op = "NONE"
        THEN Fail(n)
        ELSE IF ~consumed
        THEN [n EXCEPT !.fence_mask = {}, !.fenced = TRUE, !.state = "FENCE"]
        ELSE CASE c.d.op = "CMD" -> DecodeCmd(m)
               [] c.d.op = "FENCE" ->
                    [m EXCEPT !.fence_mask = c.d.x.mask, !.state = "FENCE"]
               [] c.d.op = "JUMP" -> DecodeJump(m)
               [] c.d.op = "CALL" -> DecodeCall(m)
               [] c.d.op = "RET" -> DecodeRet(m)
               [] c.d.op = "SETREG" -> DecodeSetReg(m)
               [] c.d.op = "LOOP_END" -> DecodeLoopEnd(m)
               [] c.d.op = "LDPARAM" -> DecodeLdParam(m)
               [] c.d.op = "END" -> Stop(m, FALSE)

StateRun(n) ==
    IF sched_err
    THEN [n EXCEPT !.state = "ERR"]
    ELSE IF patching /\ c.pkt = NoPkt
    THEN Patch(n)
    ELSE IF decode THEN Decode(n) ELSE n

\* One register per cycle.
StateSetReg(n) ==
    LET m == [n EXCEPT !.regs = Written(Head(c.sr), @), !.sr = Tail(@)]
    IN  IF BadReg(Head(c.sr))
        THEN Fail(n)
        ELSE IF Len(c.sr) > 1
        THEN m
        ELSE IF c.sr_stop THEN Stop(m, FALSE) ELSE [m EXCEPT !.state = "RUN"]

StateFence(n) ==
    IF sched_err
    THEN [n EXCEPT !.state = "ERR"]
    ELSE IF ~fence_done
    THEN n
    ELSE IF c.count_lim # 0 /\ c.st_exec = c.count_lim
    THEN Stop(n, FALSE)
    ELSE [n EXCEPT !.state = "RUN"]

\* (mutants of drained: a burst still on the AR channel is overlooked; the FIFO
\* has to be empty although only the end of the drain empties it)
drained_NoAr(last) == bursts = <<>> /\ ~last
drained_Fifo(last) == bursts = <<>> /\ ar = NoAddr /\ ~last /\ fifo = <<>>

\* Nothing is in flight any more (last: the final beat comes in this cycle).
drained(last) == bursts = <<>> /\ ar = NoAddr /\ ~last

StateDrain(n, last) ==
    IF drained(last)
    THEN [n EXCEPT !.pdone = 0, !.d = Invalid,
                   !.state = IF c.ldp_pend THEN "LDP"
                             ELSE IF c.resume THEN "RUN" ELSE "IDLE"]
    ELSE n

StateLdp(n) == [n EXCEPT !.ldp_err = FALSE, !.ldp_calc = FALSE, !.state = "LDPW"]

\* The beat that holds the word, counted from 1.
LdpBeat == (c.ldp.a % Step) \div (Step \div Words) + 1

StateLdpWait(n, resp, last) ==
    IF c.ldp_calc
    THEN [n EXCEPT !.regs[c.ldp.k] = (c.ldp_word * c.ldp.mul + c.ldp.add) % Modulus,
                   !.ldp_calc = FALSE,
                   !.state = IF c.ldp.stop THEN "IDLE" ELSE "RUN"]
    ELSE IF resp = "none"
    THEN n
    ELSE LET bad == resp # "OKAY"
             m   == [n EXCEPT !.ldp_word = IF beats + 1 = LdpBeat /\ c.ldp.a \in DOMAIN mem.data
                                           THEN mem.data[c.ldp.a] ELSE @,
                              !.ldp_err = @ \/ bad]
         IN  IF ~last
             THEN m
             ELSE IF c.ldp_err \/ bad
             THEN ReadFail([m EXCEPT !.ldp_pend = FALSE])
             ELSE [m EXCEPT !.ldp_pend = FALSE, !.ldp_calc = TRUE]

StateErr(n) == IF clear_error THEN Abandon(n) ELSE n

\* s: the list submitted in this cycle, <<>> or <<[addr, count]>>;
\* set: the register mat_cfg writes and its value, or <<>>;
\* resp: the response of the beat of this cycle, or "none"; last: it is r_last.
Control(s, set, resp, last) ==
    LET n  == [c EXCEPT !.err = "none",
                        !.regs = IF set = <<>> THEN @ ELSE [@ EXCEPT ![set[1]] = set[2]],
                        !.pkt = IF accepted THEN NoPkt ELSE @,
                        !.fetch_addr = IF issue THEN (@ + Step) % Modulus ELSE @,
                        !.d = IF pop /\ Len(w) = Words - 1
                              THEN Assembled(Append(w, Head(fifo))) ELSE @]
        n1 == CASE c.state = "IDLE" -> IF s = <<>> THEN n ELSE Submitted(n, s[1])
                [] c.state = "RUN" -> StateRun(n)
                [] c.state = "SETREG" -> StateSetReg(n)
                [] c.state = "FENCE" -> StateFence(n)
                [] c.state = "DRAIN" -> StateDrain(n, last)
                [] c.state = "LDP" -> StateLdp(n)
                [] c.state = "LDPW" -> StateLdpWait(n, resp, last)
                [] c.state = "ERR" -> StateErr(n)
        n2 == IF clear_error /\ c.state \notin {"ERR", "IDLE", "DRAIN"}
              THEN Abandon(n1) ELSE n1
        rerr == fetching /\ resp \notin {"none", "OKAY"}
    IN  IF rerr THEN ReadFail(n2) ELSE n2

-----------------------------------------------------------------------------
(***************************************************************************)
(* Datapath.                                                               *)
(***************************************************************************)

Block(a) == a - (a % Step)

Read(arready, resp, last) ==
    /\ ar' = IF c.state = "LDP" THEN Block(c.ldp.a)
             ELSE IF issue THEN c.fetch_addr
             ELSE IF arready THEN NoAddr ELSE ar
    /\ bursts' = (IF last THEN Tail(bursts) ELSE bursts)
                    \o (IF ar # NoAddr /\ arready THEN <<ar>> ELSE <<>>)
    /\ beats' = IF resp = "none" THEN beats ELSE IF last THEN 0 ELSE beats + 1

Store(resp, last) ==
    /\ fifo' = IF c.state = "DRAIN" /\ drained(last)
               THEN <<>>
               ELSE (IF pop THEN Tail(fifo) ELSE fifo)
                        \o (IF resp # "none" /\ fetching
                            THEN << <<Head(bursts), beats + 1>> >> ELSE <<>>)
    /\ w' = IF consumed \/ (c.state = "DRAIN" /\ drained(last))
            THEN <<>>
            ELSE IF pop THEN Append(w, Head(fifo)) ELSE w

-----------------------------------------------------------------------------
(***************************************************************************)
(* The scheduler: go dispatches the oldest command of its pipeline, the    *)
(* engines in dn finish, fault reports a rejected command or a bus error.  *)
(***************************************************************************)

Sched(go, dn, fault) ==
    LET kept == IF go THEN Tail(pipe) ELSE pipe
    IN  /\ pipe' = IF clear_error THEN <<>>
                   ELSE kept \o (IF accepted THEN <<c.pkt>> ELSE <<>>)
        /\ busy' = (busy \ dn) \cup (IF go THEN {Head(pipe).eng} ELSE {})
        /\ sched_err' = IF clear_error THEN FALSE ELSE sched_err \/ c.err # "none" \/ fault
        /\ clear_error' \in IF busy = {} THEN Reset ELSE {FALSE}

Edge(s, set, arready, resp, go, dn, fault) ==
    LET last == resp # "none" /\ beats + 1 = Words
    IN  /\ c' = Control(s, set, resp, last)
        /\ Read(arready, resp, last)
        /\ Store(resp, last)
        /\ Sched(go, dn, fault)
        /\ nsub' = IF s = <<>> THEN nsub ELSE nsub + 1
        /\ UNCHANGED image

\* What the environment can do in a cycle.
Submits ==
    {<<>>} \cup (IF unit_busy \/ nsub = mem.max THEN {} ELSE {<<s>> : s \in mem.starts})
\* (mat_cfg of a BASE or PARAM waits until the unit is idle, like mat_submit.)
RegWrites == {<<>>} \cup (IF unit_busy \/ nsub = mem.max THEN {} ELSE mem.sets)
Beats == IF bursts = <<>> THEN {"none"} ELSE Resp \cup {"none"}
MayGo == pipe # <<>> /\ ~sched_err /\ Head(pipe).eng \notin busy
Faults == IF sched_err \/ (pipe = <<>> /\ busy = {}) THEN {FALSE} ELSE EngErr

\* A cycle in which the environment does at least what must names.
Cycle(must) ==
    \E s \in Submits, set \in RegWrites, resp \in Beats, go \in {FALSE, MayGo}, dn \in SUBSET busy,
       fault \in Faults, arready \in IF ar = NoAddr THEN {FALSE} ELSE BOOLEAN :
        /\ s = <<>> \/ set = <<>>
        /\ "ar" \in must => arready
        /\ "r" \in must => resp # "none"
        /\ "go" \in must => go
        /\ "done" \in must => dn = busy
        /\ Edge(s, set, arready, resp, go, dn, fault)

Next == Cycle({})

Spec == Init /\ [][Next]_vars

(***************************************************************************)
(* Fairness: the clock runs, the AXI slave accepts addresses and returns   *)
(* data, the scheduler dispatches and the engines finish.                  *)
(***************************************************************************)
FairSpec ==
    /\ Spec
    /\ WF_vars(Next)
    /\ WF_vars(ar # NoAddr /\ Cycle({"ar"}))
    /\ WF_vars(bursts # <<>> /\ Cycle({"r"}))
    /\ WF_vars(MayGo /\ Cycle({"go"}))
    /\ WF_vars(busy # {} /\ Cycle({"done"}))

-----------------------------------------------------------------------------
(***************************************************************************)
(* Properties.                                                             *)
(***************************************************************************)

\* r_ready is always 1 ("space was reserved when the burst was issued"): what
\* is in the FIFO, what is still to come of the accepted bursts and the burst
\* on the AR channel fit in the FIFO, so no beat overwrites a live word.
SpaceReserved ==
    fetching =>
        Len(fifo) + Len(bursts) * Words - beats + (IF ar = NoAddr THEN 0 ELSE Words)
            <= MaxOut * Words

\* The decoder's address is the address of what it decodes: speculative
\* prefetch, jumps, refetching after LDPARAM and lists abandoned half way never
\* leave words of another block in w, in the FIFO or on the read channel.
InStep ==
    LET coming == w \o fifo
        b      == Len(coming)
    IN  fetching =>
        /\ \A i \in 1 .. b :
                coming[i] = << (c.dec_addr + ((i - 1) \div Words) * Step) % Modulus,
                               ((i - 1) % Words) + 1 >>
        /\ \A j \in 1 .. Len(bursts) :
                bursts[j] = (c.dec_addr + ((b - beats) \div Words + j - 1) * Step) % Modulus
        /\ c.fetch_addr =
                (c.dec_addr + ((b - beats) \div Words + Len(bursts)
                                 + (IF ar = NoAddr THEN 0 ELSE 1)) * Step) % Modulus

\* A submitted list ends: its END or count, or an error that halts it.  (For
\* lists that are finite programs.)
ListEnds == c.state # "IDLE" ~> (c.state = "IDLE" \/ c.state = "ERR")

\* The unit works on a list, or will when it has drained.
Running(n) ==
    \/ n.state \in {"RUN", "FENCE", "SETREG", "LDP", "LDPW"}
    \/ n.state = "DRAIN" /\ (n.resume \/ n.ldp_pend)

-----------------------------------------------------------------------------
(***************************************************************************)
(* The fetch unit implements the sequential list of SaList.                *)
(***************************************************************************)
\* FENCE waits in S_FENCE after dec_addr and st_exec have moved on.
AtFence == c.state = "FENCE" /\ ~c.fenced

\* Register writes still to be done by the descriptor decoded last.
Pending ==
    CASE c.state = "SETREG" -> c.sr
      [] c.ldp_pend \/ (c.state = "LDPW" /\ c.ldp_calc) ->
            << [en |-> TRUE, r |-> c.ldp.k, add |-> FALSE,
                v |-> mem.data[c.ldp.a] * c.ldp.mul + c.ldp.add] >>
      [] OTHER -> <<>>

L == INSTANCE SaList WITH
        run <- IF Running(c)
               THEN [on |-> TRUE,
                     pc |-> IF AtFence
                            THEN (c.dec_addr + Modulus - Step) % Modulus ELSE c.dec_addr,
                     exec |-> IF AtFence THEN c.st_exec - 1 ELSE c.st_exec,
                     lim |-> c.count_lim, lp |-> c.lp, cs |-> c.cs,
                     regs |-> c.regs, todo |-> Pending]
               ELSE [on |-> FALSE, pc |-> 0, exec |-> 0, lim |-> 0,
                     lp |-> <<>>, cs |-> <<>>, regs |-> c.regs, todo |-> <<>>],
        pkt <- c.pkt,
        halt <- sched_err,
        err <- c.err,
        clear <- clear_error

\* Prefetch, patch cycles, drains and refetches are invisible: commands reach
\* the scheduler in the order and with the fields of a sequential execution of
\* the list, fences included.  The list ends at its END or count and nowhere
\* else, unless the scheduler is halted, mat_reset comes or a read fails; the
\* unit calls a descriptor wrong exactly when it executes a wrong one.
ListSemantics == L!LSpec
=============================================================================
