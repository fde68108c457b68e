------------------------------- MODULE SaSched -------------------------------
(***************************************************************************)
(* The command scheduler of the accelerator, rtl/sysarray/sa_sched.v.      *)
(*                                                                         *)
(* Commands enter an input FIFO in program order and move one per clock    *)
(* edge through two pipeline stages, d1 and d2, to the dispatch point.     *)
(* There the command waits until no OTHER engine has an in-flight command  *)
(* with a conflicting bank access, then it enters its engine's queue and   *)
(* its bank sets enter the engine's mask queue, where they stay until the  *)
(* engine reports done.  An invalid command, a bus error of LD / ST or a   *)
(* fetch error sets the sticky error, which stops dispatch until           *)
(* clear_error.                                                            *)
(*                                                                         *)
(* The unit is synchronous: one step of this module is one posedge clk,    *)
(* the lower-case state functions are the wires the edge samples.  The     *)
(* pointers of the queues are abstracted to sequences (Bounded is what     *)
(* makes that abstraction exact), and a command packet to the facts the    *)
(* scheduler derives from its fields at d1 -> d2: its engine, whether it   *)
(* is valid (and else the error code), the banks it reads and writes.      *)
(***************************************************************************)
EXTENDS Naturals, Sequences, FiniteSets

CONSTANTS
    QIN,        \* depth of the input FIFO (8)
    QENG,       \* depth of an engine queue (4)
    QMSK,       \* depth of an in-flight mask queue (8)
    Bank,       \* the local memory banks (SPAD_A, SPAD_B, ACC x 2)
    Cmd,        \* the command packets software may issue
    NoCmd       \* no command (a valid bit that is 0)

Eng == {"LD", "ST", "EX", "VE"}
Code == {"none", "SHAPE", "RANGE", "RRESP", "BRESP"}

CmdType ==
    [eng : Eng, ok : BOOLEAN, code : Code, r : SUBSET Bank, w : SUBSET Bank]

ASSUME SchedAssumption ==
    /\ QIN \in Nat \ {0}
    /\ QENG \in Nat \ {0}
    /\ QMSK \in Nat
    /\ Cmd \subseteq CmdType
    /\ NoCmd \notin Cmd

VARIABLES
    inq,            \* input FIFO, oldest first
    d1,             \* stage d1: a command or NoCmd (d1_v = 0)
    d2,             \* stage d2, the command at dispatch, or NoCmd
    eq,             \* [Eng -> commands dispatched, not yet taken by the engine]
    mk,             \* [Eng -> commands whose masks are in flight (not yet done)]
    err,            \* sticky error
    err_code,       \* what the extended status reports for it
    err_eng,
    clear_error     \* registered pulse of the legacy block (mat_reset)

schedVars == <<inq, d1, d2, eq, mk, err, err_code, err_eng>>
vars == <<schedVars, clear_error>>

SchedInit ==
    /\ inq = <<>>
    /\ d1 = NoCmd
    /\ d2 = NoCmd
    /\ eq = [e \in Eng |-> <<>>]
    /\ mk = [e \in Eng |-> <<>>]
    /\ err = FALSE
    /\ err_code = "none"
    /\ err_eng = "LD"

-----------------------------------------------------------------------------
(***************************************************************************)
(* Bank conflicts.                                                         *)
(***************************************************************************)

\* EX and VE share the ports of SPAD side B / ACC side A, LD and ST those of
\* SPAD side A / ACC side B.
SharesPorts(e, o) == {e, o} \in {{"EX", "VE"}, {"LD", "ST"}}

\* The banks read and written by the in-flight commands of engine e.
eng_r(e) == UNION {mk[e][i].r : i \in 1 .. Len(mk[e])}
eng_w(e) == UNION {mk[e][i].w : i \in 1 .. Len(mk[e])}

\* (mutant of hazard: write-after-read is forgotten)
hazard_NoWAR(c) ==
    \E o \in Eng \ {c.eng} :
        \/ c.r \cap eng_w(o) # {}
        \/ c.w \cap eng_w(o) # {}

\* The command c may not be dispatched now: some other engine has an
\* in-flight access that is RAW, WAR or WAW with it, or uses the same bank
\* through the same ports.
hazard(c) ==
    \E o \in Eng \ {c.eng} :
        \/ c.r \cap eng_w(o) # {}
        \/ c.w \cap eng_r(o) # {}
        \/ c.w \cap eng_w(o) # {}
        \/ /\ SharesPorts(c.eng, o)
           /\ (c.r \cup c.w) \cap (eng_r(o) \cup eng_w(o)) # {}

-----------------------------------------------------------------------------
(***************************************************************************)
(* Wires of one clock cycle.                                               *)
(***************************************************************************)

\* (mutant of in_ready: one more than the memory holds)
in_ready_Over == Len(inq) <= QIN
in_ready == Len(inq) # QIN
e_full(e) == Len(eq[e]) = QENG
m_full(e) == Len(mk[e]) = QMSK

\* (mutant of dispatch: the sticky error is not looked at)
dispatch_NoErr ==
    /\ d2 # NoCmd
    /\ d2.ok
    /\ ~hazard(d2)
    /\ ~e_full(d2.eng)
    /\ ~m_full(d2.eng)

dispatch ==
    /\ d2 # NoCmd
    /\ ~err
    /\ d2.ok
    /\ ~hazard(d2)
    /\ ~e_full(d2.eng)
    /\ ~m_full(d2.eng)

reject == d2 # NoCmd /\ ~err /\ ~d2.ok

d2_free == d2 = NoCmd \/ dispatch \/ reject
d1_move == d1 # NoCmd /\ d2_free /\ ~err
d1_free == d1 = NoCmd \/ d1_move
fifo_pop == inq # <<>> /\ d1_free /\ ~err

\* (mutant of pipe_empty: stage d1 is forgotten)
pipe_empty_NoD1 == inq = <<>> /\ d2 = NoCmd
pipe_empty == inq = <<>> /\ d1 = NoCmd /\ d2 = NoCmd
eng_busy(e) == mk[e] # <<>>
eng_idle == \A e \in Eng : ~eng_busy(e)
idle == pipe_empty /\ eng_idle

\* mask: the engines a fence waits for; the empty mask means all of them.
fence_ok(mask) ==
    /\ pipe_empty
    /\ \A e \in (IF mask = {} THEN Eng ELSE mask) : ~eng_busy(e)

-----------------------------------------------------------------------------
(***************************************************************************)
(* The engines as the scheduler sees them.  An engine raises cmd_ready     *)
(* only when it has finished with what it took before (LD, ST, VE: one     *)
(* command; EX: one streaming and one draining), takes the head of its     *)
(* queue when both agree, and pulses done once per command, in order.      *)
(***************************************************************************)

EngCap(e) == IF e = "EX" THEN 2 ELSE 1

\* Commands taken by engine e and not yet done.
Running(e) == Len(mk[e]) - Len(eq[e])

\* The engines that may pulse done, and those that may take the head of their
\* queue in a cycle in which the engines in dn are done (cmd_ready of an engine
\* with an empty queue changes nothing).
CanFinish == {e \in Eng : Running(e) > 0}
CanTake(dn) ==
    {e \in Eng : /\ eq[e] # <<>>
                 /\ Running(e) < EngCap(e) + (IF e \in dn THEN 1 ELSE 0)}

-----------------------------------------------------------------------------
(***************************************************************************)
(* One clock edge.                                                         *)
(*   in    the packet offered on in_pkt (NoCmd: in_valid = 0)              *)
(*   rdy   the engines with cmd_ready                                      *)
(*   dn    the engines with done;  bad \subseteq dn: those with err        *)
(*   ferr  fetch_err with its code ("none": no pulse)                      *)
(***************************************************************************)

\* clear_error sets in_rp to in_wp plus the push of this cycle.  The comment at
\* this line (441) is "(keep a push of this cycle)", but in_wp counts that push
\* too: the packet is passed over with the rest.
inq_next(in) ==
    IF clear_error
    THEN <<>>
    ELSE (IF fifo_pop THEN Tail(inq) ELSE inq)
            \o (IF in # NoCmd /\ in_ready THEN <<in>> ELSE <<>>)

d1_next ==
    CASE clear_error -> NoCmd
      [] ~clear_error /\ ~d1_free -> d1
      [] ~clear_error /\ d1_free -> IF fifo_pop THEN Head(inq) ELSE NoCmd

d2_next ==
    CASE clear_error -> NoCmd
      [] ~clear_error /\ ~d2_free -> d2
      [] ~clear_error /\ d2_free -> IF d1_move THEN d1 ELSE NoCmd

\* A queue after a pop (or not) and a push (or not) in the same cycle.
Shifted(q, popped, pushed) ==
    (IF popped THEN Tail(q) ELSE q) \o (IF pushed THEN <<d2>> ELSE <<>>)

eq_next(rdy) ==
    LET go == dispatch
    IN  [e \in Eng |-> Shifted(eq[e], e \in rdy /\ eq[e] # <<>>, go /\ d2.eng = e)]

\* (mutant of mk_next: a release hides the push of the same edge)
mk_next_LostPush(dn) ==
    LET go == dispatch
    IN  [e \in Eng |-> Shifted(mk[e], e \in dn, go /\ d2.eng = e /\ e \notin dn)]

mk_next(dn) ==
    LET go == dispatch
    IN  [e \in Eng |-> Shifted(mk[e], e \in dn, go /\ d2.eng = e)]

\* (mutant of NewError: engine and code of a rejected command swapped)
NewError_Swapped(bad, ferr) ==
    CASE ferr # "none" -> [code |-> ferr, eng |-> "FETCH"]
      [] ferr = "none" /\ "ST" \in bad -> [code |-> "BRESP", eng |-> "ST"]
      [] ferr = "none" /\ "ST" \notin bad /\ "LD" \in bad ->
            [code |-> "RRESP", eng |-> "LD"]
      [] OTHER -> [code |-> d2.eng, eng |-> d2.code]

\* The error an edge reports: of several in one cycle the last assignment of
\* the always block wins (fetch over ST over LD over reject).
NewError(bad, ferr) ==
    CASE ferr # "none" -> [code |-> ferr, eng |-> "FETCH"]
      [] ferr = "none" /\ "ST" \in bad -> [code |-> "BRESP", eng |-> "ST"]
      [] ferr = "none" /\ "ST" \notin bad /\ "LD" \in bad ->
            [code |-> "RRESP", eng |-> "LD"]
      [] OTHER -> [code |-> d2.code, eng |-> d2.eng]

SchedError(bad, ferr) ==
    LET raised == ~err /\ (reject \/ bad # {} \/ ferr # "none")
        new    == NewError(bad, ferr)
    IN  /\ err' = IF clear_error THEN FALSE ELSE err \/ raised
        /\ err_code' = IF raised THEN new.code ELSE err_code
        /\ err_eng' = IF raised THEN new.eng ELSE err_eng

SchedEdge(in, rdy, dn, bad, ferr) ==
    /\ inq' = inq_next(in)
    /\ d1' = d1_next
    /\ d2' = d2_next
    /\ eq' = eq_next(rdy)
    /\ mk' = mk_next(dn)
    /\ SchedError(bad, ferr)

-----------------------------------------------------------------------------
(***************************************************************************)
(* The scheduler in its environment: any packet or none on the input, the  *)
(* engines' timing and errors, a fetch error pulse, and clear_error, which *)
(* the legacy block registers in a cycle in which it sees the engines idle.*)
(***************************************************************************)

ClearPulse == clear_error' \in (IF eng_idle THEN BOOLEAN ELSE {FALSE})

Init == SchedInit /\ clear_error = FALSE

Tick(in, rdy, dn, bad, ferr) == SchedEdge(in, rdy, dn, bad, ferr) /\ ClearPulse

\* One cycle: engines finish and take commands, a packet or none arrives, an
\* error is reported.  (An offer to a full FIFO waits, and an error reported
\* while the sticky error is set is ignored: neither needs to be tried.)
Next ==
    \E dn \in SUBSET CanFinish :
    \E rdy \in SUBSET CanTake(dn),
       bad \in SUBSET (IF err THEN {} ELSE dn \cap {"LD", "ST"}),
       in \in (IF in_ready THEN Cmd ELSE {}) \cup {NoCmd},
       ferr \in (IF err THEN {} ELSE {"SHAPE"}) \cup {"none"} :
            Tick(in, rdy, dn, bad, ferr)

Spec == Init /\ [][Next]_vars

-----------------------------------------------------------------------------
(***************************************************************************)
(* Properties.                                                             *)
(***************************************************************************)

\* Every register holds a value of its type (sa_sched.v's declarations).
TypeOK ==
    /\ inq \in Seq(Cmd)
    /\ d1 \in Cmd \cup {NoCmd}
    /\ d2 \in Cmd \cup {NoCmd}
    /\ eq \in [Eng -> Seq(Cmd)]
    /\ mk \in [Eng -> Seq(Cmd)]
    /\ err \in BOOLEAN
    /\ err_code \in Code
    /\ err_eng \in Eng \cup {"FETCH"}
    /\ clear_error \in BOOLEAN

\* No queue ever holds more than its memory: a push never overwrites a live
\* entry and "used" never wraps, whatever the engines' timing.
Bounded ==
    /\ Len(inq) <= QIN
    /\ \A e \in Eng : Len(eq[e]) <= QENG /\ Len(mk[e]) <= QMSK

\* The scoreboard covers everything an engine may touch: the commands still in
\* the engine queue are the youngest entries of the mask queue, what the engine
\* has taken (at most EngCap) is still registered there, and no command is in
\* another engine's queue.
MasksCoverQueue ==
    \A e \in Eng :
        /\ Len(eq[e]) <= Len(mk[e])
        /\ Running(e) <= EngCap(e)
        /\ \A i \in 1 .. Len(eq[e]) : mk[e][Running(e) + i] = eq[e][i]
        /\ \A i \in 1 .. Len(mk[e]) : mk[e][i].eng = e

\* Two commands may not be in flight together.
Conflict(c, d) ==
    \/ c.r \cap d.w # {}
    \/ c.w \cap d.r # {}
    \/ c.w \cap d.w # {}
    \/ SharesPorts(c.eng, d.eng) /\ (c.r \cup c.w) \cap (d.r \cup d.w) # {}

\* The scoreboard's promise: commands of two different engines that are in
\* flight at the same time never conflict on a bank (RAW, WAR, WAW) nor use
\* one bank through the same memory ports.
BankExclusion ==
    \A e, o \in Eng :
        e # o =>
            \A i \in 1 .. Len(mk[e]), j \in 1 .. Len(mk[o]) :
                ~Conflict(mk[e][i], mk[o][j])

=============================================================================
