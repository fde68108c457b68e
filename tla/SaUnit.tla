------------------------------- MODULE SaUnit --------------------------------
(***************************************************************************)
(* The command path of the unit, rtl/sysarray/sa_unit.v: three sources     *)
(* share the scheduler.  The PCPI decoder (sa_pcpi.v) executes the core's  *)
(* instructions one at a time; the legacy sequencer (sa_legacy.v) turns a  *)
(* job into LD A, LD B, EX, ST and performs mat_reset; the fetch unit      *)
(* (sa_cmdfetch.v) feeds the commands of a list.  The arbiter gives the    *)
(* scheduler's input to the sequencer first, then the list, then PCPI.     *)
(*                                                                         *)
(* One step is one posedge clk of all four blocks.  The scheduler is the   *)
(* one of SaSched.  The fetch unit is reduced to its commands: how         *)
(* descriptors are prefetched, decoded and jumped over is SaFetch; here a  *)
(* list is the sequence of what it decodes to, and got says that the next  *)
(* descriptor is complete (or, in a drain, that the bursts are in).        *)
(***************************************************************************)
EXTENDS SaSched, SequencesExt

CONSTANTS
    World,      \* programs and surroundings to choose from, see IsWorld
    List,       \* descriptor lists it submits: sequences of commands and BadDesc
    BadDesc,    \* a descriptor the fetch unit refuses
    NoList,
    Job,        \* the four commands of a job, in order
    JobDesc     \* the load of a job's descriptor

InsnType ==
    [op : {"run"}, cmd : Cmd]               \* mat_load, mat_store, mat_exec, vec_run
        \cup [op : {"fence"}, mask : SUBSET Eng]
        \cup [op : {"submit"}, list : List]
        \cup [op : {"base", "trigger", "start", "wait", "reset"}]

\* What the core may issue (insn, at most max of them), whether a job's
\* descriptor and addresses are valid (data), the engines with bus errors (bus),
\* and whether the fetch unit's reads may fail (rerr).
IsWorld(w) ==
    /\ w.insn \subseteq InsnType /\ w.max \in Nat
    /\ w.data \subseteq BOOLEAN /\ TRUE \in w.data
    /\ w.bus \subseteq {"LD", "ST"}
    /\ w.rerr \subseteq BOOLEAN /\ FALSE \in w.rerr

ASSUME UnitAssumption ==
    /\ \A w \in World : IsWorld(w)
    /\ Job \in [1 .. 4 -> Cmd] /\ JobDesc \in Cmd
    /\ JobDesc.ok /\ \A i \in 1 .. 4 : Job[i].ok
    /\ BadDesc \notin Cmd /\ NoList \notin List
    /\ \A l \in List : l \in Seq(Cmd \cup {BadDesc})

VARIABLES
    world,      \* the element of World, chosen once
    pcpi,       \* decoder: [state, insn, q, trigger, reset, submit, rd]
    leg,        \* sequencer: [state, q, pidx, pend, desc, done, code, reset_done]
    fetch,      \* fetch unit: [state, pkt, list, err_set]
    left,       \* instructions the core may still issue
    ghost       \* history: [owed, prior, job], see below

unitVars == <<vars, world, pcpi, leg, fetch, left, ghost>>

-----------------------------------------------------------------------------
(***************************************************************************)
(* Wires between the blocks.                                               *)
(***************************************************************************)

leg_busy == leg.state # "IDLE"
fetch_busy == fetch.state # "IDLE" \/ fetch.pkt # NoCmd

l_valid == leg.q # NoCmd
f_valid == fetch.pkt # NoCmd /\ ~err
p_valid == pcpi.q # NoCmd

in_pkt ==
    CASE l_valid -> leg.q
      [] ~l_valid /\ f_valid -> fetch.pkt
      [] ~l_valid /\ ~f_valid -> pcpi.q
f_ready == in_ready /\ ~l_valid
p_ready == in_ready /\ ~l_valid /\ ~f_valid

leg_accept(start) == pcpi.trigger /\ ~leg_busy /\ ~start

-----------------------------------------------------------------------------
(***************************************************************************)
(* The PCPI decoder.                                                       *)
(***************************************************************************)

\* The pulse outputs fall.
PcpiIdle == [pcpi EXCEPT !.submit = NoList, !.rd = FALSE]
Respond(p) == [p EXCEPT !.state = "DONE"]

\* (mutant of ExecRun: it waits on a halted queue)
ExecRun_NoDrop(p) ==
    IF p_valid /\ p_ready
    THEN Respond([p EXCEPT !.q = NoCmd])
    ELSE IF ~fetch_busy THEN [p EXCEPT !.q = p.insn.cmd] ELSE p

\* A command is captured at issue, offered when no list runs, and dropped while
\* the sticky error halts the scheduler.
ExecRun(p) ==
    IF (p_valid /\ p_ready) \/ err
    THEN Respond([p EXCEPT !.q = NoCmd])
    ELSE IF ~fetch_busy THEN [p EXCEPT !.q = p.insn.cmd] ELSE p

\* (mutant of ExecFence: a running list is not waited for)
ExecFence_NoList(p) ==
    IF fence_ok(p.insn.mask) \/ err THEN Respond([p EXCEPT !.rd = err]) ELSE p

\* mat_fence returns the extended status, of which rd is the error bit.
ExecFence(p) ==
    IF (fence_ok(p.insn.mask) /\ ~fetch_busy) \/ err
    THEN Respond([p EXCEPT !.rd = err])
    ELSE p

ExecSubmit(p) ==
    IF err THEN Respond(p)
    ELSE IF ~fetch_busy THEN Respond([p EXCEPT !.submit = p.insn.list]) ELSE p

\* mat_cfg of a BASE or PARAM register.
ExecBase(p) == IF ~fetch_busy THEN Respond(p) ELSE p

ExecTrigger(p, start) ==
    IF leg_accept(start)
    THEN Respond([p EXCEPT !.trigger = FALSE])
    ELSE [p EXCEPT !.trigger = TRUE]

ExecWait(p) == IF ~leg_busy THEN Respond(p) ELSE p

ExecReset(p) ==
    IF p.reset /\ leg.reset_done
    THEN Respond([p EXCEPT !.reset = FALSE])
    ELSE [p EXCEPT !.reset = TRUE]

Execute(start) ==
    LET p == PcpiIdle
    IN  CASE p.insn.op = "run" -> ExecRun(p)
          [] p.insn.op = "fence" -> ExecFence(p)
          [] p.insn.op = "submit" -> ExecSubmit(p)
          [] p.insn.op = "base" -> ExecBase(p)
          [] p.insn.op = "trigger" -> ExecTrigger(p, start)
          [] p.insn.op = "wait" -> ExecWait(p)
          [] p.insn.op = "reset" -> ExecReset(p)

\* i: the instruction the core presents in S_IDLE (<<i>>), or <<>>.
pcpi_next(i, start) ==
    CASE pcpi.state = "IDLE" ->
            IF i = <<>> THEN PcpiIdle
            ELSE [PcpiIdle EXCEPT !.state = "EXEC", !.insn = i[1]]
      [] pcpi.state = "EXEC" -> Execute(start)
      [] pcpi.state = "DONE" -> [PcpiIdle EXCEPT !.state = "IDLE"]

-----------------------------------------------------------------------------
(***************************************************************************)
(* The legacy sequencer.  start is csr_start: the core writes CTRL.        *)
(***************************************************************************)

map_err(code) == IF code \in {"RRESP", "BRESP"} THEN code ELSE "ADDR"

Finish(l, code) == [l EXCEPT !.state = "IDLE", !.done = TRUE, !.code = code]

\* mat_reset waits for the sequencer and the engines.
reset_now == pcpi.reset /\ ~leg_busy /\ eng_idle /\ ~leg.reset_done

\* (mutant of job_failed: a failed job ends while its other commands still run)
job_failed_Early == leg.state = "ERRW"

\* A failed job ends, and its error is cleared, once the engines are idle.
job_failed == leg.state = "ERRW" /\ eng_idle

LegIdle(l, start) ==
    IF start \/ leg_accept(start)
    THEN [l EXCEPT !.state = "FENCE", !.desc = ~start, !.done = FALSE, !.code = "none"]
    ELSE l

\* (mutant of LegFence: only the engines are waited for)
LegFence_EngIdle(l) ==
    IF err THEN Finish(l, map_err(err_code))
    ELSE IF eng_idle THEN [l EXCEPT !.state = IF l.desc THEN "DESC" ELSE "CHECK"]
    ELSE l
LegFence(l) ==
    IF err THEN Finish(l, map_err(err_code))
    ELSE IF idle THEN [l EXCEPT !.state = IF l.desc THEN "DESC" ELSE "CHECK"]
    ELSE l

\* good: the descriptor's address is aligned.
LegDesc(l, good) ==
    IF ~good THEN Finish(l, "ADDR")
    ELSE IF l_valid /\ in_ready THEN [l EXCEPT !.q = NoCmd, !.state = "DESCW"]
    ELSE [l EXCEPT !.q = JobDesc]

LegDescWait(l) ==
    IF err THEN [l EXCEPT !.pend = "RRESP", !.state = "ERRW"]
    ELSE IF idle THEN [l EXCEPT !.state = "CHECK"]
    ELSE l

\* good: the size and the three addresses are those of a job.
LegCheck(l, good) ==
    IF good THEN [l EXCEPT !.pidx = 0, !.state = "PUSH"] ELSE Finish(l, "DIM")

LegPush(l) ==
    IF l_valid /\ in_ready
    THEN [l EXCEPT !.q = NoCmd, !.pidx = (@ + 1) % 4,
                   !.state = IF l.pidx = 3 THEN "RUN" ELSE @]
    ELSE [l EXCEPT !.q = Job[l.pidx + 1]]

\* (mutant of LegRun: the job ends when the engines are idle, whatever still waits)
LegRun_EngIdle(l) ==
    IF err THEN [l EXCEPT !.pend = map_err(err_code), !.state = "ERRW"]
    ELSE IF eng_idle THEN Finish(l, "none")
    ELSE l
LegRun(l) ==
    IF err THEN [l EXCEPT !.pend = map_err(err_code), !.state = "ERRW"]
    ELSE IF idle THEN Finish(l, "none")
    ELSE l

LegErrWait(l) == IF job_failed THEN Finish(l, l.pend) ELSE l

leg_next(start, good) ==
    LET l == IF reset_now
             THEN [leg EXCEPT !.done = FALSE, !.code = "none", !.reset_done = TRUE]
             ELSE [leg EXCEPT !.reset_done = FALSE]
    IN  CASE leg.state = "IDLE" -> LegIdle(l, start)
          [] leg.state = "FENCE" -> LegFence(l)
          [] leg.state = "DESC" -> LegDesc(l, good)
          [] leg.state = "DESCW" -> LegDescWait(l)
          [] leg.state = "CHECK" -> LegCheck(l, good)
          [] leg.state = "PUSH" -> LegPush(l)
          [] leg.state = "RUN" -> LegRun(l)
          [] leg.state = "ERRW" -> LegErrWait(l)

\* A register: in this cycle and the next the scheduler still dispatches, so a
\* command can start under a mat_reset that returns.
clear_next == reset_now \/ job_failed

-----------------------------------------------------------------------------
(***************************************************************************)
(* The fetch unit, reduced (see above).  rerr: a read response error.      *)
(***************************************************************************)

FetchFail(f) == [f EXCEPT !.state = "ERR", !.err_set = TRUE]
FetchAbandon(f) == [f EXCEPT !.state = "DRAIN", !.pkt = NoCmd]

FetchRun(f, got) ==
    CASE err -> [f EXCEPT !.state = "ERR"]
      [] ~err /\ (~got \/ fetch.pkt # NoCmd) -> f
      [] ~err /\ got /\ fetch.pkt = NoCmd ->
            IF f.list = <<>> THEN [f EXCEPT !.state = "DRAIN"]          \* END
            ELSE IF Head(f.list) = BadDesc THEN FetchFail(f)
            ELSE [f EXCEPT !.pkt = Head(f.list), !.list = Tail(@)]

fetch_next(got, rerr) ==
    LET n  == [fetch EXCEPT !.err_set = FALSE,
                            !.pkt = IF f_valid /\ f_ready THEN NoCmd ELSE @]
        n1 == CASE fetch.state = "IDLE" ->
                        IF pcpi.submit = NoList THEN n
                        ELSE [n EXCEPT !.state = "RUN", !.list = pcpi.submit]
                [] fetch.state = "RUN" -> FetchRun(n, got)
                [] fetch.state = "DRAIN" ->
                        IF got THEN [n EXCEPT !.state = "IDLE", !.list = <<>>] ELSE n
                [] fetch.state = "ERR" -> IF clear_error THEN FetchAbandon(n) ELSE n
        n2 == IF clear_error /\ fetch.state = "RUN" THEN FetchAbandon(n1) ELSE n1
    IN  IF rerr THEN FetchFail(n2) ELSE n2

-----------------------------------------------------------------------------
(***************************************************************************)
(* History.  owed counts, per engine, the core's commands (its own and     *)
(* those of its lists) that have not completed without an error, from      *)
(* their instruction on; prior those of them issued before the running     *)
(* job; job the commands of the job that have not.  mat_reset forgives     *)
(* all that is not in an engine yet.                                       *)
(***************************************************************************)

Software(cmd) == cmd \notin ToSet(Job) \cup {JobDesc}

\* The history can tell whose a command is.
ASSUME HistoryAssumption ==
    /\ JobDesc \notin ToSet(Job)
    /\ \A w \in World : \A i \in w.insn : i.op = "run" => Software(i.cmd)
    /\ \A l \in List : \A n \in 1 .. Len(l) : l[n] = BadDesc \/ Software(l[n])

\* How many commands of a sequence belong to the set S.
Number(s, S) == Cardinality({n \in 1 .. Len(s) : s[n] \in S})
For(e) == {cmd \in Cmd : cmd.eng = e /\ Software(cmd)}

Responds(op) == pcpi.insn.op = op /\ pcpi.state = "EXEC" /\ pcpi'.state = "DONE"

\* The commands for engine e that an instruction adds when it responds.
Issued(e) ==
    IF Responds("run") /\ pcpi.insn.cmd.eng = e
    THEN 1
    ELSE IF Responds("submit")
    THEN Number(pcpi.insn.list, For(e) \cup {BadDesc})
    ELSE 0

Completed(e, dn, bad) == e \in dn \ bad /\ Software(Head(mk[e]))
InEngine(e) == Number(mk'[e], For(e))
Less(n, b) == IF b /\ n > 0 THEN n - 1 ELSE n

Remember(start, dn, bad) ==
    LET owed == [e \in Eng |->
                    IF Responds("reset") THEN InEngine(e)
                    ELSE Less(ghost.owed[e] + Issued(e), Completed(e, dn, bad))]
        starts == leg.state = "IDLE" /\ leg'.state = "FENCE"
        ends == Cardinality({e \in dn \ bad : Head(mk[e]) \in ToSet(Job)})
    IN  ghost' = [owed  |-> owed,
                  prior |-> IF starts THEN owed
                            ELSE IF leg'.state = "IDLE" THEN [e \in Eng |-> 0]
                            ELSE [e \in Eng |-> Less(ghost.prior[e], Completed(e, dn, bad))],
                  job   |-> IF starts THEN 4 ELSE ghost.job - ends]

-----------------------------------------------------------------------------
UnitInit ==
    /\ Init
    /\ world \in World
    /\ pcpi = [state |-> "IDLE", insn |-> [op |-> "wait"], q |-> NoCmd,
               trigger |-> FALSE, reset |-> FALSE, submit |-> NoList,
               rd |-> FALSE]
    /\ leg = [state |-> "IDLE", q |-> NoCmd, pidx |-> 0, pend |-> "none",
              desc |-> FALSE, done |-> FALSE, code |-> "none", reset_done |-> FALSE]
    /\ fetch = [state |-> "IDLE", pkt |-> NoCmd, list |-> <<>>, err_set |-> FALSE]
    /\ left = world.max
    /\ ghost = [owed |-> [e \in Eng |-> 0], prior |-> [e \in Eng |-> 0], job |-> 0]

UnitEdge(i, start, good, got, rerr, rdy, dn, bad) ==
    /\ SchedEdge(in_pkt, rdy, dn, bad, IF fetch.err_set THEN "SHAPE" ELSE "none")
    /\ clear_error' = clear_next
    /\ pcpi' = pcpi_next(i, start)
    /\ leg' = leg_next(start, good)
    /\ fetch' = fetch_next(got, rerr)
    /\ left' = IF i # <<>> \/ start THEN left - 1 ELSE left
    /\ Remember(start, dn, bad)
    /\ UNCHANGED world

\* What the core may do in a cycle: nothing, present an instruction, or (op
\* "start") complete a store to CTRL.
Presented ==
    {<<>>} \cup IF pcpi.state = "IDLE" /\ left > 0 THEN {<<i>> : i \in world.insn} ELSE {}

Goods == IF (leg.state = "DESC" /\ leg.q = NoCmd) \/ leg.state = "CHECK" THEN world.data ELSE {TRUE}
Gots == IF fetch.state \in {"RUN", "DRAIN"} THEN BOOLEAN ELSE {FALSE}
ReadErrs == IF fetch.state = "RUN" THEN world.rerr ELSE {FALSE}

\* An idle engine takes the head of its queue at once (cmd_ready = !active);
\* only EX may, or may not yet, take a second command while one drains.
Takes(dn) ==
    LET now == {e \in CanTake(dn) : Running(e) = (IF e \in dn THEN 1 ELSE 0)}
    IN  {now, CanTake(dn)}

\* A cycle in which the engines in fin finish and, with need, the fetch unit's
\* reads come in.
UnitCycle(fin, need) ==
    \E p \in Presented, good \in Goods, rerr \in ReadErrs :
    \E got \in {g \in Gots : need => g} :
    \E dn \in {s \in SUBSET CanFinish : fin \subseteq s} :
    \E rdy \in Takes(dn), bad \in SUBSET (dn \cap world.bus) :
        LET write == p # <<>> /\ p[1].op = "start"
            i     == IF write THEN <<>> ELSE p
        IN  /\ write => ~leg_busy
            /\ UnitEdge(i, write, good, got, rerr, rdy, dn, bad)

UnitNext == UnitCycle({}, FALSE)

UnitSpec == UnitInit /\ [][UnitNext]_unitVars

\* The clock runs, the AXI slaves answer: engines finish and the fetch unit's
\* reads come in.
UnitFairSpec ==
    /\ UnitSpec
    /\ WF_unitVars(UnitNext)
    /\ \A e \in {cmd.eng : cmd \in Cmd} : WF_unitVars(CanFinish # {} /\ UnitCycle({e}, FALSE))
    /\ WF_unitVars(UnitCycle({}, TRUE))

-----------------------------------------------------------------------------
(***************************************************************************)
(* Properties.                                                             *)
(***************************************************************************)

\* Worlds in which nothing fails, without lists; in which nothing but jobs does;
\* in which no job fails, so that mat_reset is the only one to clear.
NothingFails ==
    /\ world.bus = {}
    /\ \A i \in world.insn : (i.op = "run" => i.cmd.ok) /\ i.op # "submit"
OnlyJobsFail ==
    \A i \in world.insn : /\ i.op = "run" => i.cmd.ok /\ i.cmd.eng \notin world.bus
                          /\ i.op # "submit"
NoJobs == \A i \in world.insn : i.op \notin {"trigger", "start"}
NoJobFails == NoJobs \/ NothingFails

\* mat_fence tells the truth: when it returns without the error bit, every
\* command the core issued before it for the masked engines, alone or in a
\* list, has completed.  None was dropped, rejected, flushed or is on its way.
\* (The clear of a failed job drops a command issued behind it, and a fence
\* after it cannot tell.)
FenceTrue ==
    NoJobFails /\ pcpi.state = "DONE" /\ pcpi.insn.op = "fence" /\ ~pcpi.rd
    => \A e \in (IF pcpi.insn.mask = {} THEN Eng ELSE pcpi.insn.mask) : ghost.owed[e] = 0

\* mat_wait tells the truth: STATUS says done without an error code only when
\* all four commands of the job have completed.
JobTrue == leg.done /\ leg.code = "none" => ghost.job = 0

\* "The sequencer fences first" (docs/custom_isa_encoding.md): a job passes
\* L_FENCE only when the commands the core issued before it have completed (a
\* command that failed never does; a list is not waited for: L_FENCE looks at
\* sched_idle, which is true between two commands of a running list).
FencesFirst ==
    NothingFails /\ leg.state \notin {"IDLE", "FENCE"} => \A e \in Eng : ghost.prior[e] = 0

\* A failed job leaves no error behind: where jobs are all that can fail, the
\* sticky error is clear when the sequencer is idle again (no engine of the job
\* sets it after an early clear).
ErrorContained == OnlyJobsFail /\ leg.state = "IDLE" /\ ~clear_error => ~err

\* Every instruction ends: the core never blocks on a halted queue, a job, a
\* fence or mat_reset.  One does: mat_cfg of a BASE or PARAM register waits for
\* the list, and a list that failed ends only with the mat_reset behind it.
InsnEnds ==
    pcpi.state = "EXEC"
    ~> pcpi.state = "DONE" \/ (pcpi.insn.op = "base" /\ fetch.state = "ERR")

=============================================================================
