-------------------------------- MODULE RtFw --------------------------------
(***************************************************************************)
(* The resident runtime firmware, firmware/rt/rt_fw.c, and the memory it   *)
(* shares with the host: the submission ring and the completion ring in    *)
(* DDR, the buffers (descriptor lists, schedules, argument blocks) the     *)
(* entries point at, and the doorbell words of the mailbox.                *)
(*                                                                         *)
(* The firmware is one loop.  A step of this module is what it does        *)
(* between two accesses to memory that a host may race with; its stores    *)
(* complete in order.  The host is another module: RtDevice (the Python    *)
(* driver) or RtBoard (the C transport).                                   *)
(*                                                                         *)
(* A buffer's content is a job, the number of the submission that wrote    *)
(* it, so a completion record tells which submission's list it is about.   *)
(***************************************************************************)
EXTENDS Integers, Sequences

CONSTANTS
    Size,       \* entries of the rings, a power of 2
    Modulus,    \* of the free-running 32-bit counters, a multiple of Size
    Addr        \* the buffers

ASSUME RingAssumption ==
    /\ Size \in Nat \ {0}
    /\ Modulus \in Nat \ {0}
    /\ Modulus % Size = 0
    /\ Addr # {}

\* RUN_LIST, RUN_SCHED and CALL run what a buffer holds; NOP and RESET run
\* nothing; EXIT ends the loop once it is completed.
Type == {"run", "nop", "exit"}
Status == {"ok", "err"}
NoJob == -1
Counter == 0 .. Modulus - 1

Slot(n) == n % Size
Next1(n) == (n + 1) % Modulus

VARIABLES
    ring,       \* the submission ring: slot -> entry
    cpl,        \* the completion ring: slot -> record
    mem,        \* the buffers: address -> job
    mbox,       \* RING_TAIL, RING_HEAD
    fw          \* the firmware's locals

fwVars == <<ring, cpl, mem, mbox, fw>>

(***************************************************************************)
(* The host zeroes the rings and the mailbox and releases the core; the    *)
(* model starts where the firmware reports RT_READY.                       *)
(***************************************************************************)
SomeAddr == CHOOSE a \in Addr : TRUE

FwInit ==
    /\ ring = [s \in 0 .. Size - 1 |->
                 [type |-> "nop", seq |-> 0, addr |-> SomeAddr]]
    /\ cpl = [s \in 0 .. Size - 1 |->
                [seq |-> 0, job |-> NoJob, status |-> "ok"]]
    /\ mem = [a \in Addr |-> NoJob]
    /\ mbox = [tail |-> 0, head |-> 0]
    /\ fw = [pc |-> "poll", head |-> 0, type |-> "nop", seq |-> 0,
             addr |-> SomeAddr, job |-> NoJob, status |-> "ok"]

\* Any difference of the two counters is work, as in the code.
FwPoll ==
    /\ fw.pc = "poll"
    /\ mbox.tail # fw.head
    /\ fw' = [fw EXCEPT !.pc = "read"]
    /\ UNCHANGED <<ring, cpl, mem, mbox>>

FwRead ==
    LET e == ring[Slot(fw.head)] IN
    /\ fw.pc = "read"
    /\ fw' = [fw EXCEPT !.type = e.type, !.seq = e.seq,
                        !.job = NoJob, !.status = "ok",
                        !.pc = IF e.type = "run" THEN "addr" ELSE "result"]
    /\ UNCHANGED <<ring, cpl, mem, mbox>>

\* w1 and the following words, after BASE and PARAM have been loaded.
FwAddr ==
    /\ fw.pc = "addr"
    /\ fw' = [fw EXCEPT !.addr = ring[Slot(fw.head)].addr, !.pc = "run"]
    /\ UNCHANGED <<ring, cpl, mem, mbox>>

\* (mutant) The progress counter advanced before the record is written.
FwRun_HeadFirst ==
    /\ fw.pc = "run"
    /\ \E st \in Status :
           fw' = [fw EXCEPT !.job = mem[fw.addr], !.status = st, !.pc = "result"]
    /\ mbox' = [mbox EXCEPT !.head = Next1(fw.head)]
    /\ UNCHANGED <<ring, cpl, mem>>

\* mat_submit .. mat_fence (and mat_reset after an error): the run reads the
\* buffer as it is now, however long after the entry was read.
FwRun ==
    /\ fw.pc = "run"
    /\ \E st \in Status :
           fw' = [fw EXCEPT !.job = mem[fw.addr], !.status = st, !.pc = "result"]
    /\ UNCHANGED <<ring, cpl, mem, mbox>>

FwResult ==
    /\ fw.pc = "result"
    /\ cpl' = [cpl EXCEPT ![Slot(fw.head)].job = fw.job,
                          ![Slot(fw.head)].status = fw.status]
    /\ fw' = [fw EXCEPT !.pc = "seq"]
    /\ UNCHANGED <<ring, mem, mbox>>

FwSeq ==
    /\ fw.pc = "seq"
    /\ cpl' = [cpl EXCEPT ![Slot(fw.head)].seq = fw.seq]
    /\ fw' = [fw EXCEPT !.pc = "head"]
    /\ UNCHANGED <<ring, mem, mbox>>

\* mat_notify and the end of the loop follow.
FwHead ==
    /\ fw.pc = "head"
    /\ mbox' = [mbox EXCEPT !.head = Next1(fw.head)]
    /\ fw' = [fw EXCEPT !.head = Next1(fw.head),
                        !.pc = IF fw.type = "exit" THEN "off" ELSE "poll"]
    /\ UNCHANGED <<ring, cpl, mem>>

FwNext ==
    FwPoll \/ FwRead \/ FwAddr \/ FwRun \/ FwResult \/ FwSeq \/ FwHead
=============================================================================
