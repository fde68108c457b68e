------------------------------ MODULE RtDevice ------------------------------
(***************************************************************************)
(* The host driver of the resident firmware with several submissions in    *)
(* flight, class Device of driver/pynq_matmul.py, with the firmware.       *)
(*                                                                         *)
(* submit() queues an entry and returns its sequence number; wait()        *)
(* returns the record of an entry.  Both collect finished records first.   *)
(* A slot of the rings, and the buffer of an entry's list, are used again  *)
(* only after the record has been collected.  Both may time out.           *)
(*                                                                         *)
(* The client is one thread: it may call submit and wait in any order, for *)
(* any entry it has not yet waited for, and close at any time.  The        *)
(* counters of the driver are Python integers; the model stops at          *)
(* MaxEntries of them.  The job of an entry is its sequence number.        *)
(***************************************************************************)
EXTENDS RtFw, FiniteSets, FiniteSetsExt, Functions

CONSTANT MaxEntries     \* submissions a behaviour makes (EXIT included)

Seq0 == 0 .. MaxEntries - 1

ASSUME DeviceAssumption ==
    /\ MaxEntries \in Nat
    /\ MaxEntries < Modulus
    /\ Cardinality(Addr) >= Size

VARIABLES
    dev,        \* tail, head: submitted, collected; the call in progress
    done,       \* records collected and not returned: seq -> record
    keep        \* buffers alive until completion: seq -> its buffers

vars == <<ring, cpl, mem, mbox, fw, dev, done, keep>>

Call == {"idle", "submit", "ring", "wait", "reset", "closed", "broken"}

DeviceInit ==
    /\ FwInit
    /\ dev = [tail |-> 0, head |-> 0, call |-> "idle", type |-> "nop",
              seq |-> 0, closing |-> FALSE]
    /\ done = <<>>
    /\ keep = <<>>

(***************************************************************************)
(* _collect(): the records from head up to RING_HEAD, stopping with an     *)
(* exception at one that has not the sequence number of its slot.          *)
(***************************************************************************)
Finished == dev.head .. mbox.head - 1

Wrong == {s \in Finished : cpl[Slot(s)].seq # s % Modulus}

Collected == IF Wrong = {} THEN Finished ELSE {s \in Finished : s < Min(Wrong)}

\* done' after _collect and the removal of the entries in drop.
Collect(drop) ==
    /\ done' = [s \in (DOMAIN done \cup Collected) \ drop |->
                    IF s \in Collected THEN cpl[Slot(s)] ELSE done[s]]
    /\ keep' = Restrict(keep, DOMAIN keep \ Collected)

headAfter == dev.head + Cardinality(Collected)

\* The call after a _collect: its exception leaves the call, and the client
\* gives up.
After(call) == IF Wrong # {} THEN "broken" ELSE call

\* Where a call that is over leaves the driver: close() goes on to the reset.
returned == IF dev.closing THEN "reset" ELSE "idle"

\* submit(kind) and, from close(), submit(EXIT).
SubmitCall ==
    /\ dev.call = "idle"
    /\ dev.tail < MaxEntries
    /\ \E t \in Type :
           dev' = [dev EXCEPT !.call = "submit", !.type = t,
                              !.closing = (t = "exit")]
    /\ UNCHANGED <<fwVars, done, keep>>

\* (mutants) The driver as it first was on the board: RING_HEAD alone frees a
\* slot.  A driver that waits for room without collecting.
SubmitPoll_HeadOnly ==
    /\ dev.call = "submit"
    /\ dev' = [dev EXCEPT !.call = IF dev.tail - mbox.head >= Size
                                     THEN "submit" ELSE "ring"]
    /\ UNCHANGED <<fwVars, done, keep>>

SubmitPoll_NoCollect ==
    /\ dev.call = "submit"
    /\ dev' = [dev EXCEPT !.call = IF dev.tail - dev.head >= Size
                                     THEN "submit" ELSE "ring"]
    /\ UNCHANGED <<fwVars, done, keep>>

\* _collect(), and again while the ring is full.
SubmitPoll ==
    /\ dev.call = "submit"
    /\ Collect({})
    /\ dev' = [dev EXCEPT !.head = headAfter,
                          !.call = After(IF dev.tail - headAfter >= Size
                                           THEN "submit" ELSE "ring")]
    /\ UNCHANGED fwVars

SubmitTimeout ==
    /\ dev.call = "submit"
    /\ dev.tail - dev.head >= Size
    /\ dev' = [dev EXCEPT !.call = returned]
    /\ UNCHANGED <<fwVars, done, keep>>

\* A buffer for the list, then the entry, then the doorbell.  An entry that
\* runs nothing carries no buffer (address 0: here the one in the slot).
\* One step: the buffer is not in use, the slot is free until the doorbell, so the
\* firmware looks at neither before RING_TAIL moves.
Buffers == UNION {keep[s] : s \in DOMAIN keep}

WriteEntry ==
    /\ dev.call = "ring"
    /\ LET s == dev.tail
           Write(bufs, a) ==
               /\ keep' = [x \in DOMAIN keep \cup {s} |->
                               IF x = s THEN bufs ELSE keep[x]]
               /\ ring' = [ring EXCEPT ![Slot(s)] =
                              [type |-> dev.type, seq |-> s % Modulus, addr |-> a]]
       IN  \/ /\ dev.type = "run"
              /\ \E a \in Addr \ Buffers :
                     Write({a}, a) /\ mem' = [mem EXCEPT ![a] = s]
           \/ /\ dev.type # "run"
              /\ Write({}, ring[Slot(s)].addr)
              /\ UNCHANGED mem
    /\ mbox' = [mbox EXCEPT !.tail = Next1(dev.tail)]
    /\ dev' = [dev EXCEPT !.tail = dev.tail + 1, !.seq = dev.tail,
                          !.call = IF dev.closing THEN "wait" ELSE "idle"]
    /\ UNCHANGED <<cpl, fw, done>>

\* wait(seq): of an entry submitted and not yet returned.
WaitCall ==
    /\ dev.call = "idle"
    /\ \E s \in 0 .. dev.tail - 1 :
           /\ s >= dev.head \/ s \in DOMAIN done
           /\ dev' = [dev EXCEPT !.call = "wait", !.seq = s]
    /\ UNCHANGED <<fwVars, done, keep>>

WaitPoll ==
    /\ dev.call = "wait"
    /\ LET found == Wrong = {} /\ dev.seq \in DOMAIN done \cup Collected
       IN  /\ Collect(IF found THEN {dev.seq} ELSE {})
           /\ dev' = [dev EXCEPT
                        !.head = headAfter,
                        !.call = After(IF found THEN returned ELSE "wait")]
    /\ UNCHANGED fwVars

\* (mutant) A driver that frees the buffers of the entry it gives up on.
WaitTimeout_Frees ==
    /\ dev.call = "wait"
    /\ dev.seq \notin DOMAIN done
    /\ keep' = Restrict(keep, DOMAIN keep \ {dev.seq})
    /\ dev' = [dev EXCEPT !.call = returned]
    /\ UNCHANGED <<fwVars, done>>

WaitTimeout ==
    /\ dev.call = "wait"
    /\ dev.seq \notin DOMAIN done
    /\ dev' = [dev EXCEPT !.call = returned]
    /\ UNCHANGED <<fwVars, done, keep>>

\* The end of close(): the core is held in reset, every buffer is freed.
Reset ==
    /\ dev.call = "reset"
    /\ fw' = [fw EXCEPT !.pc = "off"]
    /\ keep' = <<>>
    /\ dev' = [dev EXCEPT !.call = "closed"]
    /\ UNCHANGED <<ring, cpl, mem, mbox, done>>

Polls == SubmitPoll \/ WaitPoll

DeviceNext ==
    \/ FwNext /\ UNCHANGED <<dev, done, keep>>
    \/ SubmitCall \/ SubmitPoll \/ SubmitTimeout \/ WriteEntry
    \/ WaitCall \/ WaitPoll \/ WaitTimeout
    \/ Reset

Spec == DeviceInit /\ [][DeviceNext]_vars

\* The firmware runs; a call of the driver goes on as long as it is not over.
FairSpec ==
    /\ Spec
    /\ WF_vars(FwNext /\ UNCHANGED <<dev, done, keep>>)
    /\ WF_vars(Polls)
    /\ WF_vars(WriteEntry)
-----------------------------------------------------------------------------

(***************************************************************************)
(* What an entry runs is the list that was submitted with it: neither its  *)
(* slot nor its buffer is written again while the firmware may read it.    *)
(***************************************************************************)
RunsOwnList ==
    fw.pc \in {"result", "seq", "head"} /\ fw.type = "run" => fw.job = fw.seq

(***************************************************************************)
(* The driver and the firmware are a queue: entries complete once, in      *)
(* order; a record collected late or waited for out of order is the one    *)
(* the entry's own run wrote.                                              *)
(***************************************************************************)
RecordOf(s) ==
    LET r == IF s \in DOMAIN done THEN done[s] ELSE cpl[Slot(s)]
    IN  [job |-> IF r.job = NoJob THEN r.seq ELSE r.job, status |-> r.status]

isOpen == dev.call # "closed"

Queue == INSTANCE RtQueue WITH
    Job <- Seq0,
    pending <- IF isOpen THEN [i \in 1 .. dev.tail - mbox.head |-> mbox.head + i - 1]
                         ELSE <<>>,
    ready <- {RecordOf(s) : s \in DOMAIN done \cup (dev.head .. mbox.head - 1)},
    open <- isOpen

QueueSemantics == Queue!Spec

(***************************************************************************)
(* A submit waiting for room gets it without the client waiting for any    *)
(* entry, unless the driver gives up: its own collecting frees the slots.  *)
(***************************************************************************)
SubmitEnds == dev.call = "submit" ~> dev.call # "submit"
=============================================================================
