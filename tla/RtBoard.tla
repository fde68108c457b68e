------------------------------ MODULE RtBoard -------------------------------
(***************************************************************************)
(* The board transport of the C runtime, sa_transport_board.c, with the    *)
(* firmware: one entry at a time, polled, given up after a timeout.        *)
(*                                                                         *)
(* run, run_sched and run_call differ in the buffer an entry points at and *)
(* in the length of the timeout; the callers hold the context's mutex and  *)
(* have written the buffer (list, batch, step table, argument block) just  *)
(* before.  An entry that timed out stays in the ring and the firmware     *)
(* gets to it later, whatever the transport does meanwhile.                *)
(*                                                                         *)
(* A transport lives as long as its process, which may end at any moment:  *)
(* half way through an entry, waiting, or after a timeout with entries not *)
(* completed.  The next process opens the transport on the running         *)
(* firmware, which may be at the entries of the one before.                *)
(***************************************************************************)
EXTENDS RtFw

CONSTANTS
    MaxJobs,    \* runs a behaviour makes
    MaxEarly,   \* processes that come too early in a behaviour
    MaxLate     \* entries given up and not yet completed (2^31 in the code)

Job == 0 .. MaxJobs - 1

ASSUME BoardAssumption ==
    /\ MaxJobs \in Nat
    /\ MaxEarly \in Nat
    /\ MaxLate \in Nat
    /\ 2 * (MaxLate + 1) < Modulus

VARIABLES
    b,          \* the transport: its tail, the run in progress
    answer,     \* what the last run returned
    jobs,       \* runs made
    early       \* (history) processes that opened the transport before the
                \* entries of the one before them were completed

vars == <<ring, cpl, mem, mbox, fw, b, answer, jobs, early>>

NoProcess == [pc |-> "off", tail |-> 0, job |-> NoJob, addr |-> SomeAddr]
NoAnswer == [kind |-> "none", job |-> NoJob, record |-> NoJob]

BoardInit ==
    /\ FwInit
    /\ b = NoProcess
    /\ answer = NoAnswer
    /\ jobs = 0
    /\ early = 0

\* RING_HEAD - tail as int32_t: below 0?
Outstanding(tail) == (tail - mbox.head) % Modulus
Late == Outstanding(b.tail) \in 1 .. Modulus \div 2

\* "continue after whatever ran before"
Open ==
    /\ b.pc = "off"
    /\ fw.pc # "off"
    /\ b' = [b EXCEPT !.pc = "idle", !.tail = mbox.head]
    /\ IF mbox.head = mbox.tail THEN UNCHANGED early
       ELSE early < MaxEarly /\ early' = early + 1
    /\ UNCHANGED <<fwVars, answer, jobs>>

\* The caller fills a buffer and calls run.
Run ==
    /\ b.pc = "idle"
    /\ jobs < MaxJobs
    /\ Outstanding(mbox.tail) <= MaxLate
    /\ \E a \in Addr :
           /\ mem' = [mem EXCEPT ![a] = jobs]
           /\ b' = [b EXCEPT !.pc = "entry", !.job = jobs, !.addr = a]
    /\ jobs' = jobs + 1
    /\ UNCHANGED <<ring, cpl, mbox, fw, answer, early>>

\* e[0], then the other words.
WriteType ==
    /\ b.pc = "entry"
    /\ ring' = [ring EXCEPT ![Slot(b.tail)].type = "run",
                            ![Slot(b.tail)].seq = b.tail]
    /\ b' = [b EXCEPT !.pc = "words"]
    /\ UNCHANGED <<cpl, mem, mbox, fw, answer, jobs, early>>

WriteWords ==
    /\ b.pc = "words"
    /\ ring' = [ring EXCEPT ![Slot(b.tail)].addr = b.addr]
    /\ b' = [b EXCEPT !.pc = "doorbell"]
    /\ UNCHANGED <<cpl, mem, mbox, fw, answer, jobs, early>>

Doorbell ==
    /\ b.pc = "doorbell"
    /\ mbox' = [mbox EXCEPT !.tail = Next1(b.tail)]
    /\ b' = [b EXCEPT !.tail = Next1(b.tail), !.pc = "wait"]
    /\ UNCHANGED <<ring, cpl, mem, fw, answer, jobs, early>>

Answer(kind) ==
    answer' = [kind |-> kind, job |-> b.job, record |-> cpl[Slot(b.tail - 1)].job]

\* (mutant) The wait for RING_HEAD stops one entry early.
Done_Early ==
    /\ b.pc = "wait"
    /\ ~(Outstanding(b.tail - 1) \in 1 .. Modulus \div 2)
    /\ IF Next1(cpl[Slot(b.tail - 1)].seq) # b.tail THEN Answer("loss") ELSE Answer("ok")
    /\ b' = [b EXCEPT !.pc = "idle"]
    /\ UNCHANGED <<fwVars, jobs, early>>

\* RING_HEAD has reached tail: the record of the slot, if it is this entry's.
Done ==
    /\ b.pc = "wait"
    /\ ~Late
    /\ IF Next1(cpl[Slot(b.tail - 1)].seq) # b.tail THEN Answer("loss") ELSE Answer("ok")
    /\ b' = [b EXCEPT !.pc = "idle"]
    /\ UNCHANGED <<fwVars, jobs, early>>

Timeout ==
    /\ b.pc = "wait"
    /\ Late
    /\ answer' = [NoAnswer EXCEPT !.kind = "deadline", !.job = b.job]
    /\ b' = [b EXCEPT !.pc = "idle"]
    /\ UNCHANGED <<fwVars, jobs, early>>

\* The process ends, at rest or in the middle of a run, whatever it leaves.
End ==
    /\ b.pc # "off"
    /\ b' = NoProcess
    /\ answer' = NoAnswer
    /\ UNCHANGED <<fwVars, jobs, early>>

BoardNext ==
    \/ FwNext /\ UNCHANGED <<b, answer, jobs, early>>
    \/ Open \/ Run \/ WriteType \/ WriteWords \/ Doorbell
    \/ Done \/ Timeout \/ End

Spec == BoardInit /\ [][BoardNext]_vars
-----------------------------------------------------------------------------
\* "c[0] != seq" in board_wait: an OK answer carries the record of a run of this
\* very list, whatever was given up before.
OkIsOwn == answer.kind = "ok" => answer.record = answer.job

\* So it is as long as every process found the ring done when it opened the
\* transport: processes may time out, give up, exit or be killed with entries in
\* the ring, if the firmware gets to them before the next process comes.
OkIsOwnAlone == early = 0 => OkIsOwn
=============================================================================
