--------------------------- MODULE RtDeviceProofs ----------------------------
(***************************************************************************)
(* Theorems about the Python driver and the firmware for every size of the *)
(* rings, every number of submissions and every set of buffers: what they  *)
(* run and collect (DeviceInv), and that they implement the queue of       *)
(* RtQueue (QueueInv).                                                     *)
(***************************************************************************)
EXTENDS RtDevice, FiniteSetTheorems, SequenceTheorems, TLAPS

-----------------------------------------------------------------------------
(* Slots of free-running counters. *)

LEMMA DivMod ==
    ASSUME NEW n \in Nat
    PROVE  Slot(n) = n - Size * (n \div Size) /\ n \div Size \in Nat /\ Slot(n) \in 0 .. Size - 1
BY RingAssumption DEF Slot

\* Two entries less than a ring apart have different slots.
LEMMA SlotsApart ==
    ASSUME NEW a \in Nat, NEW b \in Nat, a < b, b - a < Size
    PROVE  Slot(a) # Slot(b)
<1> DEFINE p == a \div Size
           q == b \div Size
<1>1. /\ Slot(a) = a - Size * p /\ p \in Nat
      /\ Slot(b) = b - Size * q /\ q \in Nat
  BY DivMod
<1> HIDE DEF p, q
<1>2. ASSUME Slot(a) = Slot(b)
      PROVE  FALSE
  <2>0. Size \in Nat \ {0}
    BY RingAssumption
  <2>1. b - a = Size * q - Size * p
    BY <1>1, <1>2, <2>0
  <2>2. Size * q - Size * p = Size * (q - p) /\ q - p \in Int
    BY <1>1, <2>0
  <2> DEFINE d == b - a
             r == q - p
  <2>3. d = Size * r /\ r \in Int /\ d \in Int /\ 0 < d /\ d < Size
    BY <2>1, <2>2
  <2> HIDE DEF d, r
  <2> QED BY <2>0, <2>3
<1> QED BY <1>2

\* The 32-bit counters do not wrap within the submissions of a behaviour.
LEMMA NoWrap ==
    ASSUME NEW n \in Nat, n <= MaxEntries
    PROVE  n % Modulus = n
BY RingAssumption, DeviceAssumption

-----------------------------------------------------------------------------
(***************************************************************************)
(* The inductive invariant.  RunsOwnList is about the entry the firmware   *)
(* works on; that nobody writes its slot or its buffer meanwhile follows   *)
(* from the window of the driver: head .. tail - 1 are the entries whose   *)
(* records it has not collected, at most Size of them, and each keeps its  *)
(* buffer.  That the window moves only over completed entries needs the    *)
(* completed records to be where _collect looks for them.                  *)
(***************************************************************************)
Slots == 0 .. Size - 1
Busy == {"read", "addr", "run", "result", "seq", "head"}

DeviceTypes ==
    /\ ring \in [Slots -> [type : Type, seq : Int, addr : Addr]]
    /\ cpl \in [Slots -> [seq : Int, job : Int, status : Status]]
    /\ mem \in [Addr -> Int]
    /\ mbox \in [tail : Nat, head : Nat]
    /\ fw \in [pc : Busy \cup {"poll", "off"}, head : Nat, type : Type, seq : Int,
               addr : Addr, job : Int, status : Status]
    /\ dev \in [tail : Nat, head : Nat, call : Call, type : Type, seq : Int,
                closing : BOOLEAN]

\* Submitted, completed and collected entries: the counters and the window.
Window ==
    /\ dev.head <= mbox.head /\ mbox.head <= dev.tail /\ dev.tail <= MaxEntries
    /\ mbox.tail = dev.tail /\ fw.head = mbox.head
    /\ dev.tail - dev.head <= Size
    /\ dev.call \in {"submit", "ring"} => dev.tail < MaxEntries
    /\ dev.call = "ring" => dev.tail - dev.head < Size
    /\ dev.call = "closed" => fw.pc = "off"
    /\ dev.call # "closed" => DOMAIN keep = dev.head .. dev.tail - 1

\* The records of the completed entries not collected are in their slots.
Records == \A s \in dev.head .. mbox.head - 1 : cpl[Slot(s)].seq = s

\* So are the entries not completed, with their lists in their buffers.
Entry(s) ==
    /\ ring[Slot(s)].seq = s
    /\ ring[Slot(s)].type = "run" => /\ ring[Slot(s)].addr \in keep[s]
                                     /\ mem[ring[Slot(s)].addr] = s
Entries == dev.call # "closed" => \A s \in mbox.head .. dev.tail - 1 : Entry(s)

\* What the firmware holds of the entry it works on.
Working ==
    /\ fw.pc \in Busy => fw.head < dev.tail
    /\ fw.pc \in Busy \ {"read"} => fw.seq = fw.head /\ fw.type = ring[Slot(fw.head)].type
    /\ fw.pc \in {"addr", "run"} => fw.type = "run"
    /\ fw.pc = "run" => fw.addr = ring[Slot(fw.head)].addr
    /\ fw.pc \in {"result", "seq", "head"} /\ fw.type = "run" => fw.job = fw.seq
    /\ fw.pc = "head" => cpl[Slot(fw.head)].seq = fw.seq

DeviceInv ==
    /\ DeviceTypes /\ Window /\ Records /\ Entries /\ Working
    /\ dev.call # "broken"

\* The driver of pynq_matmul.py and the firmware start with empty rings.
LEMMA InitInv ==
    ASSUME DeviceInit
    PROVE  DeviceInv
<1> USE DEF DeviceInit, FwInit
<1>0. SomeAddr \in Addr /\ Size \in Nat \ {0} /\ MaxEntries \in Nat
  BY RingAssumption, DeviceAssumption DEF SomeAddr
<1>1. DeviceTypes
  <2>1. ring \in [Slots -> [type : Type, seq : Int, addr : Addr]]
    BY <1>0 DEF Slots, Type
  <2>2. cpl \in [Slots -> [seq : Int, job : Int, status : Status]]
    BY DEF Slots, Status, NoJob
  <2>3. mem \in [Addr -> Int] /\ mbox \in [tail : Nat, head : Nat]
    BY DEF NoJob
  <2>4. fw \in [pc : Busy \cup {"poll", "off"}, head : Nat, type : Type, seq : Int,
                addr : Addr, job : Int, status : Status]
    BY <1>0 DEF Busy, Type, NoJob, Status
  <2>5. dev \in [tail : Nat, head : Nat, call : Call, type : Type, seq : Int,
                 closing : BOOLEAN]
    BY DEF Call, Type
  <2> QED BY <2>1, <2>2, <2>3, <2>4, <2>5 DEF DeviceTypes
<1>2. Window
  <2>1. DOMAIN keep = 0 .. 0 - 1
    OBVIOUS
  <2> QED BY <1>0, <2>1 DEF Window
<1>3. Records /\ Entries
  BY DEF Records, Entries
<1>4. Working /\ dev.call # "broken"
  BY DEF Working, Busy
<1> QED BY <1>1, <1>2, <1>3, <1>4 DEF DeviceInv

-----------------------------------------------------------------------------
(* The firmware. *)

\* Facts of a state in which the firmware works on an entry.
LEMMA AtWork ==
    ASSUME DeviceInv, fw.pc \in Busy
    PROVE  /\ fw.head \in Nat /\ fw.head = mbox.head /\ fw.head + 1 <= MaxEntries
           /\ Slot(fw.head) \in Slots
           /\ dev.call # "closed" /\ Entry(fw.head)
           /\ \A s \in dev.head .. mbox.head - 1 : s \in Nat /\ Slot(s) # Slot(fw.head)
<1>1. /\ dev.head \in Nat /\ dev.tail \in Nat /\ mbox.head \in Nat /\ fw.head \in Nat
      /\ Size \in Nat /\ MaxEntries \in Nat
  BY RingAssumption, DeviceAssumption DEF DeviceInv, DeviceTypes
<1>2. /\ fw.head = mbox.head /\ fw.head < dev.tail /\ dev.tail <= MaxEntries
      /\ dev.head <= mbox.head /\ dev.tail - dev.head <= Size
  BY DEF DeviceInv, Working, Window
<1>3. dev.call # "closed"
  BY DEF DeviceInv, Window, Busy
<1>4. Entry(fw.head)
  BY <1>1, <1>2, <1>3 DEF DeviceInv, Entries
<1>5. ASSUME NEW s \in dev.head .. mbox.head - 1
      PROVE  s \in Nat /\ Slot(s) # Slot(fw.head)
  <2>1. s \in Nat /\ s < fw.head /\ fw.head - s < Size
    BY <1>1, <1>2
  <2> QED BY <1>1, <2>1, SlotsApart
<1>6. Slot(fw.head) \in Slots
  BY <1>1, DivMod DEF Slots
<1> QED BY <1>1, <1>2, <1>3, <1>4, <1>5, <1>6

\* Steps that write only the firmware's locals and leave its head.
LEMMA LocalStep ==
    ASSUME DeviceInv, UNCHANGED <<ring, cpl, mem, mbox, dev, done, keep>>,
           fw'.head = fw.head, dev.call = "closed" => fw'.pc = "off",
           fw' \in [pc : Busy \cup {"poll", "off"}, head : Nat, type : Type, seq : Int,
                    addr : Addr, job : Int, status : Status],
           Working'
    PROVE  DeviceInv'
<1>1. DeviceTypes'
  BY DEF DeviceInv, DeviceTypes
<1>2. Window'
  BY DEF DeviceInv, Window
<1>3. Records' /\ Entries'
  BY DEF DeviceInv, Records, Entries, Entry
<1> QED BY <1>1, <1>2, <1>3 DEF DeviceInv

\* rt_fw.c's loop sees RING_TAIL move, reads the entry, runs its list.
LEMMA PollStep ==
    ASSUME DeviceInv, FwPoll, UNCHANGED <<dev, done, keep>>
    PROVE  DeviceInv'
<1> USE DEF FwPoll
<1>1. fw' = [fw EXCEPT !.pc = "read"] /\ fw.pc = "poll"
  OBVIOUS
<1>2. fw.head < dev.tail
  BY DEF DeviceInv, DeviceTypes, Window
<1>3. Working'
  BY <1>1, <1>2 DEF Working, DeviceInv, DeviceTypes, Busy
<1>4. dev.call # "closed"
  BY <1>1 DEF DeviceInv, Window
<1>5. fw' \in [pc : Busy \cup {"poll", "off"}, head : Nat, type : Type, seq : Int,
               addr : Addr, job : Int, status : Status]
  BY <1>1 DEF DeviceInv, DeviceTypes, Busy
<1>6. fw'.head = fw.head
  BY <1>1 DEF DeviceInv, DeviceTypes
<1> QED BY <1>3, <1>4, <1>5, <1>6, LocalStep

LEMMA ReadStep ==
    ASSUME DeviceInv, FwRead, UNCHANGED <<dev, done, keep>>
    PROVE  DeviceInv'
<1> DEFINE e == ring[Slot(fw.head)]
       next == IF e.type = "run" THEN "addr" ELSE "result"
<1>1. /\ fw' = [fw EXCEPT !.type = e.type, !.seq = e.seq, !.job = NoJob, !.status = "ok",
                          !.pc = next]
      /\ fw.pc = "read" /\ UNCHANGED <<ring, cpl, mem, mbox>>
  BY DEF FwRead
<1>2. /\ Slot(fw.head) \in Slots /\ Entry(fw.head) /\ dev.call # "closed"
      /\ fw.head \in Nat
  BY <1>1, AtWork DEF Busy
<1>3. e.type \in Type /\ e.seq = fw.head /\ e.seq \in Int
  BY <1>2 DEF DeviceInv, DeviceTypes, Entry
<1>4. fw.head < dev.tail
  BY <1>1 DEF DeviceInv, Working, Busy
<1>5. next \in Busy /\ NoJob \in Int /\ "ok" \in Status
  BY DEF Busy, NoJob, Status
<1> HIDE DEF e, next
<1>6. /\ fw' \in [pc : Busy \cup {"poll", "off"}, head : Nat, type : Type, seq : Int,
                  addr : Addr, job : Int, status : Status]
      /\ fw'.head = fw.head /\ fw'.type = e.type /\ fw'.seq = e.seq /\ fw'.pc = next
  BY <1>1, <1>3, <1>5 DEF DeviceInv, DeviceTypes
<1>7. Working'
  BY <1>1, <1>3, <1>4, <1>6 DEF Working, Busy, e, next
<1> QED BY <1>1, <1>2, <1>6, <1>7, LocalStep

LEMMA AddrStep ==
    ASSUME DeviceInv, FwAddr, UNCHANGED <<dev, done, keep>>
    PROVE  DeviceInv'
<1> DEFINE e == ring[Slot(fw.head)]
<1>1. /\ fw' = [fw EXCEPT !.addr = e.addr, !.pc = "run"]
      /\ fw.pc = "addr" /\ UNCHANGED <<ring, cpl, mem, mbox>>
  BY DEF FwAddr
<1>2. Slot(fw.head) \in Slots /\ dev.call # "closed"
  BY <1>1, AtWork DEF Busy
<1>3. e.addr \in Addr
  BY <1>2 DEF DeviceInv, DeviceTypes
<1>4. fw.head < dev.tail /\ fw.seq = fw.head /\ fw.type = e.type /\ fw.type = "run"
  BY <1>1 DEF DeviceInv, Working, Busy
<1> HIDE DEF e
<1>5. /\ fw' \in [pc : Busy \cup {"poll", "off"}, head : Nat, type : Type, seq : Int,
                  addr : Addr, job : Int, status : Status]
      /\ fw'.head = fw.head /\ fw'.type = fw.type /\ fw'.seq = fw.seq
      /\ fw'.pc = "run" /\ fw'.addr = e.addr
  BY <1>1, <1>3 DEF DeviceInv, DeviceTypes, Busy
<1>6. Working'
  BY <1>1, <1>4, <1>5 DEF Working, Busy, e
<1> QED BY <1>1, <1>2, <1>5, <1>6, LocalStep

\* The run reads the buffer the entry points at: it holds the entry's own list.
LEMMA RunStep ==
    ASSUME DeviceInv, FwRun, UNCHANGED <<dev, done, keep>>
    PROVE  DeviceInv'
<1>1. fw.pc = "run" /\ UNCHANGED <<ring, cpl, mem, mbox>>
  BY DEF FwRun
<1>2. PICK st \in Status : fw' = [fw EXCEPT !.job = mem[fw.addr], !.status = st, !.pc = "result"]
  BY DEF FwRun
<1>3. Slot(fw.head) \in Slots /\ dev.call # "closed" /\ Entry(fw.head) /\ fw.head \in Nat
  BY <1>1, AtWork DEF Busy
<1>4. /\ fw.head < dev.tail /\ fw.seq = fw.head /\ fw.type = "run"
      /\ fw.type = ring[Slot(fw.head)].type /\ fw.addr = ring[Slot(fw.head)].addr
  BY <1>1 DEF DeviceInv, Working, Busy
<1>5. mem[fw.addr] = fw.seq /\ mem[fw.addr] \in Int
  BY <1>3, <1>4 DEF Entry
<1>6. /\ fw' \in [pc : Busy \cup {"poll", "off"}, head : Nat, type : Type, seq : Int,
                  addr : Addr, job : Int, status : Status]
      /\ fw'.head = fw.head /\ fw'.type = fw.type /\ fw'.seq = fw.seq
      /\ fw'.pc = "result" /\ fw'.job = mem[fw.addr]
  BY <1>2, <1>5 DEF DeviceInv, DeviceTypes, Busy
<1>7. Working'
  BY <1>1, <1>4, <1>5, <1>6 DEF Working, Busy
<1> QED BY <1>1, <1>3, <1>6, <1>7, LocalStep

\* The result words, then the sequence number, into the slot of the entry: no
\* record the driver has not collected is there.
LEMMA RecordStep ==
    ASSUME DeviceInv, FwResult \/ FwSeq, UNCHANGED <<dev, done, keep>>
    PROVE  DeviceInv'
<1> DEFINE k == Slot(fw.head)
<1>1. fw.pc \in {"result", "seq"} /\ UNCHANGED <<ring, mem, mbox>>
  BY DEF FwResult, FwSeq
<1>2. /\ k \in Slots /\ dev.call # "closed" /\ fw.head \in Nat
      /\ \A s \in dev.head .. mbox.head - 1 : s \in Nat /\ Slot(s) # k
  BY <1>1, AtWork DEF Busy
<1>3. /\ cpl' \in [Slots -> [seq : Int, job : Int, status : Status]]
      /\ \A j \in Slots : j # k => cpl'[j] = cpl[j]
      /\ fw.pc = "seq" => cpl'[k].seq = fw.seq
  <2>1. CASE FwResult
    BY <1>2, <2>1 DEF FwResult, DeviceInv, DeviceTypes
  <2>2. CASE FwSeq
    BY <1>2, <2>2 DEF FwSeq, DeviceInv, DeviceTypes
  <2> QED BY <2>1, <2>2
<1>4. /\ fw' \in [pc : Busy \cup {"poll", "off"}, head : Nat, type : Type, seq : Int,
                  addr : Addr, job : Int, status : Status]
      /\ fw'.head = fw.head /\ fw'.type = fw.type /\ fw'.seq = fw.seq /\ fw'.job = fw.job
      /\ fw'.pc = IF fw.pc = "result" THEN "seq" ELSE "head"
  BY DEF FwResult, FwSeq, DeviceInv, DeviceTypes, Busy
<1>5. DeviceTypes'
  BY <1>1, <1>3, <1>4 DEF DeviceInv, DeviceTypes
<1>6. Window'
  BY <1>1, <1>2, <1>4 DEF DeviceInv, Window
<1>7. Records'
  <2> SUFFICES ASSUME NEW s \in dev.head .. mbox.head - 1
               PROVE  cpl'[Slot(s)].seq = s
    BY <1>1 DEF Records
  <2>1. s \in Nat /\ Slot(s) # k
    BY <1>2
  <2>2. Slot(s) \in Slots
    BY <2>1, DivMod DEF Slots
  <2> QED BY <1>3, <2>1, <2>2 DEF DeviceInv, Records
<1>8. Entries'
  BY <1>1 DEF DeviceInv, Entries, Entry
<1>9. Working'
  BY <1>1, <1>3, <1>4 DEF DeviceInv, Working, Busy
<1> QED BY <1>5, <1>6, <1>7, <1>8, <1>9 DEF DeviceInv

\* RING_HEAD moves over an entry whose record is written.
LEMMA HeadStep ==
    ASSUME DeviceInv, FwHead, UNCHANGED <<dev, done, keep>>
    PROVE  DeviceInv'
<1>1. /\ fw.pc = "head" /\ UNCHANGED <<ring, cpl, mem>>
      /\ mbox' = [mbox EXCEPT !.head = Next1(fw.head)]
      /\ fw' = [fw EXCEPT !.head = Next1(fw.head),
                          !.pc = IF fw.type = "exit" THEN "off" ELSE "poll"]
  BY DEF FwHead
<1>2. /\ fw.head \in Nat /\ fw.head = mbox.head /\ fw.head + 1 <= MaxEntries
      /\ dev.call # "closed"
  BY <1>1, AtWork DEF Busy
<1>3. Next1(fw.head) = fw.head + 1
  BY <1>2, NoWrap DEF Next1
<1>4. fw.head < dev.tail /\ cpl[Slot(fw.head)].seq = fw.head
  BY <1>1 DEF DeviceInv, Working, Busy
<1> DEFINE n == fw.head + 1
           pc == IF fw.type = "exit" THEN "off" ELSE "poll"
<1>5. n \in Nat /\ pc \in {"off", "poll"} /\ Next1(fw.head) = n
  BY <1>2, <1>3
<1> HIDE DEF n, pc
<1>6. fw' = [fw EXCEPT !.head = n, !.pc = pc] /\ mbox' = [mbox EXCEPT !.head = n]
  BY <1>1, <1>5 DEF pc
<1>7. /\ fw' \in [pc : Busy \cup {"poll", "off"}, head : Nat, type : Type, seq : Int,
                  addr : Addr, job : Int, status : Status]
      /\ fw'.head = fw.head + 1 /\ fw'.pc \in {"off", "poll"}
      /\ mbox' \in [tail : Nat, head : Nat]
      /\ mbox'.head = fw.head + 1 /\ mbox'.tail = mbox.tail
  BY <1>5, <1>6 DEF DeviceInv, DeviceTypes, n
<1>8. DeviceTypes'
  BY <1>1, <1>7 DEF DeviceInv, DeviceTypes
<1>9. /\ dev.head \in Nat /\ dev.tail \in Nat /\ dev.head <= mbox.head
  BY DEF DeviceInv, DeviceTypes, Window
<1>10. Window'
  BY <1>2, <1>4, <1>7, <1>9 DEF DeviceInv, Window
<1>11. Records'
  BY <1>1, <1>2, <1>4, <1>7, <1>9 DEF DeviceInv, Records
<1>12. Entries'
  BY <1>1, <1>2, <1>7, <1>9 DEF DeviceInv, Entries, Entry
<1>13. Working'
  BY <1>7 DEF Working, Busy
<1> QED BY <1>8, <1>10, <1>11, <1>12, <1>13 DEF DeviceInv

-----------------------------------------------------------------------------
(* The driver. *)

DevType == [tail : Nat, head : Nat, call : Call, type : Type, seq : Int, closing : BOOLEAN]

\* Steps of a call that touch neither the rings nor the window.
LEMMA CallStep ==
    ASSUME DeviceInv, UNCHANGED <<fwVars, keep>>, dev.call # "closed",
           dev' \in DevType, dev'.head = dev.head, dev'.tail = dev.tail,
           dev'.call \notin {"closed", "broken"},
           dev'.call \in {"submit", "ring"} => dev.tail < MaxEntries,
           dev'.call = "ring" => dev.tail - dev.head < Size
    PROVE  DeviceInv'
<1> USE DEF fwVars
<1>1. DeviceTypes'
  BY DEF DeviceInv, DeviceTypes, DevType
<1>2. Window'
  BY DEF DeviceInv, Window
<1>3. Records' /\ Entries' /\ Working'
  BY DEF DeviceInv, Records, Entries, Entry, Working
<1> QED BY <1>1, <1>2, <1>3 DEF DeviceInv

\* Calls begin, and end with a timeout.
LEMMA BeginStep ==
    ASSUME DeviceInv, SubmitCall \/ WaitCall \/ SubmitTimeout \/ WaitTimeout
    PROVE  DeviceInv'
<1>0. dev \in DevType
  BY DEF DeviceInv, DeviceTypes, DevType
<1>1. returned \in {"idle", "reset"}
  BY DEF returned
<1>2. CASE SubmitCall
  <2>1. PICK t \in Type : dev' = [dev EXCEPT !.call = "submit", !.type = t, !.closing = (t = "exit")]
    BY <1>2 DEF SubmitCall
  <2>2. dev' \in DevType /\ dev'.head = dev.head /\ dev'.tail = dev.tail /\ dev'.call = "submit"
    BY <1>0, <2>1 DEF DevType, Call
  <2> QED BY <1>2, <2>2, CallStep DEF SubmitCall
<1>3. CASE WaitCall
  <2>1. PICK s \in 0 .. dev.tail - 1 : dev' = [dev EXCEPT !.call = "wait", !.seq = s]
    BY <1>3 DEF WaitCall
  <2>0. s \in Int /\ dev.tail \in Nat
    BY <1>0 DEF DevType
  <2>2. dev' \in DevType /\ dev'.head = dev.head /\ dev'.tail = dev.tail /\ dev'.call = "wait"
    BY <1>0, <2>0, <2>1 DEF DevType, Call
  <2> QED BY <1>3, <2>2, CallStep DEF WaitCall
<1>4. CASE SubmitTimeout \/ WaitTimeout
  <2>1. /\ dev' = [dev EXCEPT !.call = returned] /\ UNCHANGED <<fwVars, keep>>
        /\ dev.call # "closed"
    BY <1>4 DEF SubmitTimeout, WaitTimeout
  <2>2. /\ dev' \in DevType /\ dev'.head = dev.head /\ dev'.tail = dev.tail
        /\ dev'.call \in {"idle", "reset"}
    BY <1>0, <1>1, <2>1 DEF DevType, Call
  <2> QED BY <2>1, <2>2, CallStep
<1> QED BY <1>2, <1>3, <1>4

\* What _collect finds: every record up to RING_HEAD is the entry's own.
LEMMA CollectsAll ==
    ASSUME DeviceInv
    PROVE  /\ Wrong = {} /\ Collected = dev.head .. mbox.head - 1
           /\ headAfter = mbox.head
<1>1. /\ dev.head \in Nat /\ mbox.head \in Nat /\ dev.head <= mbox.head
      /\ mbox.head <= MaxEntries /\ MaxEntries \in Nat
  BY DeviceAssumption DEF DeviceInv, DeviceTypes, Window
<1>2. ASSUME NEW s \in Finished
      PROVE  cpl[Slot(s)].seq = s % Modulus
  <2>1. s \in Nat /\ s <= MaxEntries
    BY <1>1 DEF Finished
  <2>2. s % Modulus = s
    BY <2>1, NoWrap
  <2> QED BY <2>2 DEF DeviceInv, Records, Finished
<1>3. Wrong = {}
  BY <1>2 DEF Wrong
<1>4. Collected = dev.head .. mbox.head - 1
  BY <1>3 DEF Collected, Finished
<1>5. Cardinality(dev.head .. mbox.head - 1) = mbox.head - dev.head
  <2> DEFINE a == dev.head
             b == mbox.head - 1
  <2>1. a \in Int /\ b \in Int
    BY <1>1
  <2> HIDE DEF a, b
  <2>2. Cardinality(a .. b) = IF a > b THEN 0 ELSE b - a + 1
    BY <2>1, FS_Interval
  <2> QED BY <1>1, <2>2 DEF a, b
<1>6. headAfter = mbox.head
  BY <1>1, <1>4, <1>5 DEF headAfter
<1> QED BY <1>3, <1>4, <1>6

\* The window moves to RING_HEAD, and the buffers of the entries before it go.
LEMMA CollectStep ==
    ASSUME DeviceInv, UNCHANGED fwVars, dev.call # "closed",
           keep' = Restrict(keep, DOMAIN keep \ Collected),
           dev' \in DevType, dev'.head = headAfter, dev'.tail = dev.tail,
           dev'.call \notin {"closed", "broken"},
           dev'.call \in {"submit", "ring"} => dev.tail < MaxEntries,
           dev'.call = "ring" => dev.tail - headAfter < Size
    PROVE  DeviceInv'
<1> USE DEF fwVars
<1>1. Collected = dev.head .. mbox.head - 1 /\ headAfter = mbox.head
  BY CollectsAll
<1>2. /\ dev.head \in Nat /\ dev.tail \in Nat /\ mbox.head \in Nat /\ Size \in Nat
      /\ dev.head <= mbox.head /\ mbox.head <= dev.tail /\ dev.tail - dev.head <= Size
  BY RingAssumption DEF DeviceInv, DeviceTypes, Window
<1>3. DOMAIN keep = dev.head .. dev.tail - 1
  BY DEF DeviceInv, Window
<1>4. /\ DOMAIN keep' = mbox.head .. dev.tail - 1
      /\ \A s \in mbox.head .. dev.tail - 1 : keep'[s] = keep[s]
  BY <1>1, <1>2, <1>3 DEF Restrict
<1>5. DeviceTypes'
  BY DEF DeviceInv, DeviceTypes, DevType
<1>6. Window'
  BY <1>1, <1>2, <1>4 DEF DeviceInv, Window
<1>7. Records'
  BY <1>1, <1>2 DEF DeviceInv, Records
<1>8. Entries'
  <2> SUFFICES ASSUME NEW s \in mbox.head .. dev.tail - 1
               PROVE  Entry(s)'
    BY DEF Entries
  <2> QED BY <1>4 DEF DeviceInv, Entries, Entry
<1>9. Working'
  BY DEF DeviceInv, Working
<1> QED BY <1>5, <1>6, <1>7, <1>8, <1>9 DEF DeviceInv

\* submit polls for room, wait for its record.
LEMMA PollsStep ==
    ASSUME DeviceInv, Polls
    PROVE  DeviceInv'
<1>0. dev \in DevType /\ headAfter \in Nat /\ Wrong = {}
  BY CollectsAll DEF DeviceInv, DeviceTypes, DevType
<1>1. CASE SubmitPoll
  <2> DEFINE h == headAfter
             c == IF dev.tail - headAfter >= Size THEN "submit" ELSE "ring"
  <2>1. /\ dev.call = "submit" /\ UNCHANGED fwVars
        /\ keep' = Restrict(keep, DOMAIN keep \ Collected)
        /\ dev' = [dev EXCEPT !.head = h, !.call = c]
    BY <1>0, <1>1, Zenon DEF SubmitPoll, Collect, After
  <2>2. c \in {"submit", "ring"} /\ (c = "ring" => ~(dev.tail - headAfter >= Size))
    OBVIOUS
  <2>3. h \in Nat
    BY <1>0
  <2> HIDE DEF h, c
  <2>4. dev' \in DevType /\ dev'.head = h /\ dev'.tail = dev.tail /\ dev'.call = c
    BY <1>0, <2>1, <2>2, <2>3 DEF DevType, Call
  <2>5. dev.tail < MaxEntries
    BY <2>1 DEF DeviceInv, Window
  <2>6. c = "ring" => dev.tail - headAfter < Size
    BY <1>0, <2>2, RingAssumption DEF DevType
  <2> QED BY <2>1, <2>2, <2>4, <2>5, <2>6, CollectStep DEF h
<1>2. CASE WaitPoll
  <2> DEFINE h == headAfter
             found == Wrong = {} /\ dev.seq \in DOMAIN done \cup Collected
             c == IF found THEN returned ELSE "wait"
  <2>1. /\ dev.call = "wait" /\ UNCHANGED fwVars
        /\ keep' = Restrict(keep, DOMAIN keep \ Collected)
        /\ dev' = [dev EXCEPT !.head = h, !.call = c]
    BY <1>0, <1>2, Zenon DEF WaitPoll, Collect, After
  <2>2. c \in {"idle", "reset", "wait"}
    BY DEF returned
  <2>3. h \in Nat
    BY <1>0
  <2> HIDE DEF h, c
  <2>4. dev' \in DevType /\ dev'.head = h /\ dev'.tail = dev.tail /\ dev'.call = c
    BY <1>0, <2>1, <2>2, <2>3 DEF DevType, Call
  <2> QED BY <2>1, <2>2, <2>4, CollectStep DEF h
<1> QED BY <1>1, <1>2 DEF Polls

\* submit writes the slot behind the window, which no entry of it has, and a
\* buffer that none of them keeps.
LEMMA WriteStep ==
    ASSUME DeviceInv, WriteEntry
    PROVE  DeviceInv'
<1> DEFINE n == dev.tail
           k == Slot(n)
           next == IF dev.closing THEN "wait" ELSE "idle"
<1>1. /\ dev.call = "ring" /\ UNCHANGED <<cpl, fw>>
      /\ mbox' = [mbox EXCEPT !.tail = Next1(n)]
      /\ dev' = [dev EXCEPT !.tail = n + 1, !.seq = n, !.call = next]
  BY Zenon DEF WriteEntry
<1>2. /\ n \in Nat /\ dev.head \in Nat /\ mbox.head \in Nat /\ Size \in Nat
      /\ dev.head <= mbox.head /\ mbox.head <= n /\ n < MaxEntries /\ n - dev.head < Size
      /\ DOMAIN keep = dev.head .. n - 1 /\ MaxEntries \in Nat /\ fw.head = mbox.head
  BY <1>1, RingAssumption, DeviceAssumption DEF DeviceInv, DeviceTypes, Window
<1>3. /\ k \in Slots
      /\ \A x \in dev.head .. n - 1 : x \in Nat /\ Slot(x) \in Slots /\ Slot(x) # k
  <2>1. ASSUME NEW x \in Nat
        PROVE  Slot(x) \in Slots
    BY <2>1, DivMod DEF Slots
  <2>2. ASSUME NEW x \in dev.head .. n - 1
        PROVE  x \in Nat /\ Slot(x) # k
    <3>1. x \in Nat /\ x < n /\ n - x < Size
      BY <1>2, <2>2
    <3> QED BY <1>2, <3>1, SlotsApart
  <2> QED BY <1>2, <2>1, <2>2
<1>4. n % Modulus = n /\ Next1(n) = n + 1
  BY <1>2, NoWrap DEF Next1
<1>5. PICK bufs, a :
          /\ a \in Addr
          /\ keep' = [x \in DOMAIN keep \cup {n} |-> IF x = n THEN bufs ELSE keep[x]]
          /\ ring' = [ring EXCEPT ![k] = [type |-> dev.type, seq |-> n % Modulus, addr |-> a]]
          /\ dev.type = "run" => a \in bufs /\ a \notin Buffers /\ mem' = [mem EXCEPT ![a] = n]
          /\ dev.type # "run" => mem' = mem
  <2>1. CASE dev.type = "run"
    <3>1. PICK a \in Addr \ Buffers :
              /\ keep' = [x \in DOMAIN keep \cup {n} |-> IF x = n THEN {a} ELSE keep[x]]
              /\ ring' = [ring EXCEPT ![k] = [type |-> dev.type, seq |-> n % Modulus, addr |-> a]]
              /\ mem' = [mem EXCEPT ![a] = n]
      BY <2>1, Zenon DEF WriteEntry
    <3> QED BY <2>1, <3>1, Zenon
  <2>2. CASE dev.type # "run"
    <3>1. /\ keep' = [x \in DOMAIN keep \cup {n} |-> IF x = n THEN {} ELSE keep[x]]
          /\ ring' = [ring EXCEPT ![k] = [type |-> dev.type, seq |-> n % Modulus,
                                          addr |-> ring[k].addr]]
          /\ mem' = mem
      BY <2>2, Zenon DEF WriteEntry
    <3>2. ring[k].addr \in Addr
      BY <1>3 DEF DeviceInv, DeviceTypes
    <3> QED BY <2>2, <3>1, <3>2, Zenon
  <2> QED BY <2>1, <2>2
<1>6. next \in {"wait", "idle"} /\ dev.type \in Type
  BY DEF DeviceInv, DeviceTypes
<1> DEFINE e == [type |-> dev.type, seq |-> n, addr |-> a]
<1>7. ring' = [ring EXCEPT ![k] = e] /\ e \in [type : Type, seq : Int, addr : Addr]
  <2>1. n % Modulus = n /\ n \in Int /\ a \in Addr /\ dev.type \in Type
    BY <1>2, <1>4, <1>5, <1>6
  <2>2. ring' = [ring EXCEPT ![k] = [type |-> dev.type, seq |-> n % Modulus, addr |-> a]]
    BY <1>5
  <2> HIDE DEF n, k
  <2> QED BY <2>1, <2>2
<1>8. e.type = dev.type /\ e.seq = n /\ e.addr = a
  OBVIOUS
<1> HIDE DEF next, e
<1>9. ring' \in [Slots -> [type : Type, seq : Int, addr : Addr]]
  BY <1>7 DEF DeviceInv, DeviceTypes
<1>10. ring'[k] = e /\ \A j \in Slots : j # k => ring'[j] = ring[j]
  BY <1>3, <1>7 DEF DeviceInv, DeviceTypes
<1>11. mem' \in [Addr -> Int] /\ \A b \in Addr : b \in Buffers => mem'[b] = mem[b]
  <2>1. mem \in [Addr -> Int] /\ n \in Int
    BY <1>2 DEF DeviceInv, DeviceTypes
  <2> HIDE DEF n
  <2> QED BY <1>5, <2>1
<1>12. /\ mbox' \in [tail : Nat, head : Nat] /\ mbox'.tail = n + 1 /\ mbox'.head = mbox.head
  <2>1. mbox \in [tail : Nat, head : Nat]
    BY DEF DeviceInv, DeviceTypes
  <2>2. Next1(n) = n + 1 /\ n + 1 \in Nat /\ mbox' = [mbox EXCEPT !.tail = Next1(n)]
    BY <1>1, <1>2, <1>4
  <2> HIDE DEF n
  <2> QED BY <2>1, <2>2
<1>13. /\ dev' \in DevType /\ dev'.tail = n + 1 /\ dev'.head = dev.head
       /\ dev'.call \in {"wait", "idle"}
  <2>1. dev \in DevType /\ n + 1 \in Nat /\ n \in Int
    BY <1>2 DEF DeviceInv, DeviceTypes, DevType
  <2> QED BY <1>1, <1>6, <2>1 DEF DevType, Call
<1>14. DeviceTypes'
  BY <1>1, <1>9, <1>11, <1>12, <1>13 DEF DeviceInv, DeviceTypes, DevType
<1>15. /\ DOMAIN keep' = dev.head .. n /\ keep'[n] = bufs
       /\ \A x \in dev.head .. n - 1 : keep'[x] = keep[x]
  BY <1>2, <1>5
<1>16. Window'
  BY <1>1, <1>2, <1>12, <1>13, <1>15 DEF DeviceInv, Window
<1>17. Records'
  BY <1>1, <1>12, <1>13 DEF DeviceInv, Records
<1>18. ASSUME NEW s \in mbox.head .. n - 1
       PROVE  Entry(s)' /\ ring'[Slot(s)] = ring[Slot(s)]
  <2>1. s \in dev.head .. n - 1
    BY <1>2
  <2>2. ring'[Slot(s)] = ring[Slot(s)] /\ keep'[s] = keep[s]
    BY <1>3, <1>10, <1>15, <2>1
  <2>3. Entry(s)
    BY <1>1 DEF DeviceInv, Entries
  <2>4. ASSUME ring[Slot(s)].type = "run"
        PROVE  mem'[ring[Slot(s)].addr] = s
    <3>1. ring[Slot(s)].addr \in Buffers
      BY <1>2, <2>1, <2>3, <2>4 DEF Entry, Buffers
    <3>2. ring[Slot(s)].addr \in Addr
      BY <1>3, <2>1 DEF DeviceInv, DeviceTypes
    <3> QED BY <1>11, <2>3, <2>4, <3>1, <3>2 DEF Entry
  <2> QED BY <2>2, <2>3, <2>4 DEF Entry
<1>19. ASSUME NEW s, s = n
       PROVE  Entry(s)'
  <2>1. dev.type = "run" => mem'[a] = n
    BY <1>5 DEF DeviceInv, DeviceTypes
  <2>2. ring'[Slot(s)] = e /\ keep'[s] = bufs
    BY <1>10, <1>15, <1>19
  <2>3. dev.type = "run" => a \in bufs /\ mem'[a] = s
    BY <1>5, <1>19, <2>1
  <2> QED BY <1>8, <1>19, <2>2, <2>3 DEF Entry
<1>20. Entries'
  <2>1. ASSUME NEW s \in mbox.head .. n
        PROVE  Entry(s)'
    <3>1. s = n \/ s \in mbox.head .. n - 1
      BY <1>2
    <3> QED BY <1>18, <1>19, <3>1
  <2>2. (n + 1) - 1 = n
    BY <1>2
  <2>3. mbox'.head .. dev'.tail - 1 = mbox.head .. n
    BY <1>12, <1>13, <2>2
  <2> QED BY <2>1, <2>3 DEF Entries
<1>21. Working'
  <2>1. fw.pc \in Busy => ring'[Slot(fw.head)] = ring[Slot(fw.head)]
    BY <1>2, <1>18, SMTT(30) DEF DeviceInv, Working
  <2> QED BY <1>1, <1>2, <1>13, <2>1 DEF DeviceInv, Working, Busy
<1> QED BY <1>13, <1>14, <1>16, <1>17, <1>20, <1>21 DEF DeviceInv

\* close() ends with the core held in reset.
LEMMA ResetStep ==
    ASSUME DeviceInv, Reset
    PROVE  DeviceInv'
<1>1. /\ fw' = [fw EXCEPT !.pc = "off"] /\ dev' = [dev EXCEPT !.call = "closed"]
      /\ UNCHANGED <<ring, cpl, mem, mbox>>
  BY DEF Reset
<1>2. DeviceTypes' /\ fw'.pc = "off" /\ fw'.head = fw.head
      /\ dev'.call = "closed" /\ dev'.head = dev.head /\ dev'.tail = dev.tail
  BY <1>1 DEF DeviceInv, DeviceTypes, Call
<1>3. Window'
  BY <1>1, <1>2 DEF DeviceInv, Window
<1>4. Records' /\ Entries' /\ Working'
  BY <1>1, <1>2 DEF DeviceInv, Records, Entries, Working, Busy
<1> QED BY <1>2, <1>3, <1>4 DEF DeviceInv

-----------------------------------------------------------------------------
(* The theorems. *)

\* Every step of the firmware of rt_fw.c and of the driver of pynq_matmul.py
\* keeps the invariant.
LEMMA StepInv ==
    ASSUME DeviceInv, [DeviceNext]_vars
    PROVE  DeviceInv'
<1>1. CASE FwNext /\ UNCHANGED <<dev, done, keep>>
  BY <1>1, PollStep, ReadStep, AddrStep, RunStep, RecordStep, HeadStep DEF FwNext
<1>2. CASE SubmitCall \/ WaitCall \/ SubmitTimeout \/ WaitTimeout
  BY <1>2, BeginStep
<1>3. CASE SubmitPoll \/ WaitPoll
  BY <1>3, PollsStep DEF Polls
<1>4. CASE WriteEntry
  BY <1>4, WriteStep
<1>5. CASE Reset
  BY <1>5, ResetStep
<1>6. CASE UNCHANGED vars
  BY <1>6 DEF vars, DeviceInv, DeviceTypes, Window, Records, Entries, Entry, Working
<1> QED BY <1>1, <1>2, <1>3, <1>4, <1>5, <1>6 DEF DeviceNext

\* The window, the records and the buffers of the driver stay as its _collect
\* and its submit rely on.
THEOREM DeviceInductive == Spec => []DeviceInv
<1>1. DeviceInit => DeviceInv
  BY InitInv
<1>2. DeviceInv /\ [DeviceNext]_vars => DeviceInv'
  BY StepInv
<1> QED BY <1>1, <1>2, PTL DEF Spec

\* What the firmware completes is a run of the list submitted with the entry:
\* submit never writes a slot or a buffer the firmware may still read.
THEOREM RunsOwn == Spec => []RunsOwnList
<1>1. DeviceInv => RunsOwnList
  BY DEF DeviceInv, Working, RunsOwnList
<1> QED BY <1>1, DeviceInductive, PTL

\* _collect never meets a record with another sequence number than its slot's,
\* so its exception is never raised.
THEOREM CollectNeverFails == Spec => [](dev.call # "broken" /\ Wrong = {})
<1>1. DeviceInv => dev.call # "broken" /\ Wrong = {}
  BY CollectsAll DEF DeviceInv
<1> QED BY <1>1, DeviceInductive, PTL

-----------------------------------------------------------------------------
(* The queue *)

(***************************************************************************)
(* What DeviceInv does not say and the queue needs:                        *)
(* a record names the entry it is about, from the run that wrote it until  *)
(* the client gets it, in whichever of its places it is; and the client    *)
(* gets it once, for what has been collected is older than the window.     *)
(***************************************************************************)
Record == [seq : Int, job : Int, status : Status]

\* The record r is about entry s.
About(r, s) == r.seq = s /\ r.job \in {NoJob, s}

\* In the driver's dictionary and in the slots of the window...
Kept ==
    /\ \A s \in DOMAIN done :
            s \in 0 .. dev.head - 1 /\ done[s] \in Record /\ About(done[s], s)
    /\ \A s \in dev.head .. mbox.head - 1 : About(cpl[Slot(s)], s)

\* ... in the firmware's locals, and in the slot it is writing.
Held ==
    /\ fw.pc \in Busy \ {"read"} => fw.job \in {NoJob, fw.head}
    /\ fw.pc \in {"seq", "head"} => cpl[Slot(fw.head)].job = fw.job

QueueInv == DeviceInv /\ Kept /\ Held

\* The numbers of the window, and the slots of its records.
LEMMA WindowFacts ==
    ASSUME DeviceInv
    PROVE  /\ dev.head \in Nat /\ dev.tail \in Nat /\ mbox.head \in Nat /\ MaxEntries \in Nat
           /\ dev.head <= mbox.head /\ mbox.head <= dev.tail /\ dev.tail <= MaxEntries
           /\ fw.head = mbox.head
           /\ \A s \in dev.head .. mbox.head - 1 : s \in Nat /\ Slot(s) \in Slots
<1>1. /\ dev.head \in Nat /\ dev.tail \in Nat /\ mbox.head \in Nat /\ MaxEntries \in Nat
      /\ dev.head <= mbox.head /\ mbox.head <= dev.tail /\ dev.tail <= MaxEntries
      /\ fw.head = mbox.head
  BY DeviceAssumption DEF DeviceInv, DeviceTypes, Window
<1>2. ASSUME NEW s \in dev.head .. mbox.head - 1
      PROVE  s \in Nat /\ Slot(s) \in Slots
  <2>1. s \in Nat
    BY <1>1
  <2> QED BY <2>1, DivMod DEF Slots
<1> QED BY <1>1, <1>2

-----------------------------------------------------------------------------
(* The records. *)

\* Nothing has been collected, and nothing is to be.
LEMMA InitQueueInv ==
    ASSUME DeviceInit
    PROVE  QueueInv
<1>1. DeviceInv
  BY InitInv
<1>2. DOMAIN done = {} /\ dev.head = 0 /\ mbox.head = 0 /\ fw.pc = "poll"
  BY DEF DeviceInit, FwInit
<1>3. Kept
  BY <1>2 DEF Kept
<1>4. Held
  BY <1>2 DEF Held, Busy
<1> QED BY <1>1, <1>3, <1>4 DEF QueueInv

\* Steps of the firmware that write only its locals: what FwRun read is the
\* entry's own list, an entry that runs nothing has no job.
LEMMA LocalKeeps ==
    ASSUME QueueInv, FwPoll \/ FwRead \/ FwAddr \/ FwRun, UNCHANGED <<dev, done, keep>>
    PROVE  Kept' /\ Held'
<1>1. /\ UNCHANGED <<cpl, mbox, dev, done>>
  BY DEF FwPoll, FwRead, FwAddr, FwRun
<1>2. Kept'
  BY <1>1 DEF QueueInv, Kept, About
<1>3. fw \in [pc : Busy \cup {"poll", "off"}, head : Nat, type : Type, seq : Int,
              addr : Addr, job : Int, status : Status]
  BY DEF QueueInv, DeviceInv, DeviceTypes
<1>4. CASE FwPoll
  <2>1. fw'.pc = "read"
    BY <1>3, <1>4 DEF FwPoll
  <2> QED BY <1>2, <2>1 DEF Held
<1>5. CASE FwRead
  <2>1. fw'.pc \in {"addr", "result"} /\ fw'.job = NoJob
    BY <1>3, <1>5 DEF FwRead
  <2> QED BY <1>2, <2>1 DEF Held
<1>6. CASE FwAddr
  <2>1. fw.pc = "addr" /\ fw'.pc = "run" /\ fw'.job = fw.job /\ fw'.head = fw.head
    BY <1>3, <1>6 DEF FwAddr
  <2> QED BY <1>2, <2>1 DEF Held, QueueInv, Busy
<1>7. CASE FwRun
  <2>1. fw.pc = "run"
    BY <1>7 DEF FwRun
  <2>2. fw'.pc = "result" /\ fw'.job = mem[fw.addr] /\ fw'.head = fw.head
    BY <1>3, <1>7 DEF FwRun
  <2>3. Entry(fw.head)
    BY <2>1, AtWork DEF QueueInv, Busy
  <2>4. fw.type = "run" /\ fw.type = ring[Slot(fw.head)].type /\ fw.addr = ring[Slot(fw.head)].addr
    BY <2>1 DEF QueueInv, DeviceInv, Working, Busy
  <2>5. mem[fw.addr] = fw.head
    BY <2>3, <2>4 DEF Entry
  <2> QED BY <1>2, <2>2, <2>5 DEF Held
<1> QED BY <1>4, <1>5, <1>6, <1>7

\* The record goes to the slot of the entry, which is not in the window.
LEMMA RecordKeeps ==
    ASSUME QueueInv, FwResult \/ FwSeq, UNCHANGED <<dev, done, keep>>
    PROVE  /\ Kept' /\ Held'
           /\ \A s \in dev.head .. mbox.head - 1 : cpl'[Slot(s)] = cpl[Slot(s)]
<1> DEFINE k == Slot(fw.head)
<1>0. fw.pc \in {"result", "seq"} /\ UNCHANGED <<mbox, dev, done>>
  BY DEF FwResult, FwSeq
<1>1. /\ k \in Slots
      /\ \A s \in dev.head .. mbox.head - 1 : Slot(s) # k
  BY <1>0, AtWork DEF QueueInv, Busy
<1>2. cpl \in [Slots -> Record]
  BY DEF QueueInv, DeviceInv, DeviceTypes, Record
<1>3. /\ \A j \in Slots : j # k => cpl'[j] = cpl[j]
      /\ cpl'[k].job = fw.job
  <2>1. CASE FwResult
    BY <1>1, <1>2, <2>1 DEF FwResult, Record
  <2>2. CASE FwSeq
    <3>1. cpl[k].job = fw.job
      BY <2>2 DEF FwSeq, QueueInv, Held
    <3> QED BY <1>1, <1>2, <2>2, <3>1 DEF FwSeq, Record
  <2> QED BY <2>1, <2>2
<1>4. \A s \in dev.head .. mbox.head - 1 : cpl'[Slot(s)] = cpl[Slot(s)]
  BY <1>1, <1>3, WindowFacts DEF QueueInv
<1>5. Kept'
  BY <1>0, <1>4 DEF QueueInv, Kept, About
<1>6. fw'.head = fw.head /\ fw'.job = fw.job /\ fw'.pc \in {"seq", "head"}
  BY DEF FwResult, FwSeq, QueueInv, DeviceInv, DeviceTypes
<1>7. Held'
  BY <1>0, <1>3, <1>6 DEF Held, QueueInv, Busy
<1> QED BY <1>4, <1>5, <1>7

\* RING_HEAD moves over a record that is written completely.
LEMMA HeadKeeps ==
    ASSUME QueueInv, FwHead, UNCHANGED <<dev, done, keep>>
    PROVE  /\ Kept' /\ Held'
           /\ mbox'.head = mbox.head + 1 /\ cpl' = cpl
           /\ About(cpl[Slot(mbox.head)], mbox.head)
<1>1. /\ fw.pc = "head" /\ cpl' = cpl
      /\ mbox' = [mbox EXCEPT !.head = Next1(fw.head)]
      /\ fw' = [fw EXCEPT !.head = Next1(fw.head),
                          !.pc = IF fw.type = "exit" THEN "off" ELSE "poll"]
  BY DEF FwHead
<1>2. fw.head \in Nat /\ fw.head = mbox.head /\ fw.head + 1 <= MaxEntries
  BY <1>1, AtWork DEF QueueInv, Busy
<1>3. Next1(fw.head) = fw.head + 1
  BY <1>2, NoWrap DEF Next1
<1>4. cpl[Slot(fw.head)].seq = fw.head /\ cpl[Slot(fw.head)].job \in {NoJob, fw.head}
  BY <1>1 DEF QueueInv, DeviceInv, Working, Held, Busy
<1>5. About(cpl[Slot(mbox.head)], mbox.head)
  BY <1>2, <1>4 DEF About
<1>6. mbox'.head = mbox.head + 1
  BY <1>1, <1>2, <1>3 DEF QueueInv, DeviceInv, DeviceTypes
<1>7. dev.head .. (mbox.head + 1) - 1 = (dev.head .. mbox.head - 1) \cup {mbox.head}
  BY WindowFacts DEF QueueInv
<1>8. Kept'
  <2>1. ASSUME NEW s \in dev'.head .. mbox'.head - 1
        PROVE  About(cpl'[Slot(s)], s)
    BY <1>1, <1>5, <1>6, <1>7 DEF QueueInv, Kept
  <2> QED BY <2>1 DEF QueueInv, Kept, About
<1>9. fw'.pc \in {"off", "poll"}
  BY <1>1 DEF QueueInv, DeviceInv, DeviceTypes
<1>10. Held'
  BY <1>9 DEF Held, Busy
<1> QED BY <1>1, <1>5, <1>6, <1>8, <1>10

\* _collect moves the records of the window to the dictionary; what the client
\* gets (drop) leaves it.
LEMMA CollectKeeps ==
    ASSUME QueueInv, NEW drop, Collect(drop), UNCHANGED fwVars, dev'.head = headAfter
    PROVE  /\ Kept' /\ Held'
           /\ DOMAIN done' = (DOMAIN done \cup (dev.head .. mbox.head - 1)) \ drop
           /\ \A s \in DOMAIN done' :
                done'[s] = IF s \in dev.head .. mbox.head - 1 THEN cpl[Slot(s)] ELSE done[s]
           /\ dev'.head = mbox.head
<1> DEFINE W == dev.head .. mbox.head - 1
<1>1. Collected = W /\ headAfter = mbox.head
  BY CollectsAll DEF QueueInv
<1>2. done' = [s \in (DOMAIN done \cup W) \ drop |->
                   IF s \in W THEN cpl[Slot(s)] ELSE done[s]]
  BY <1>1, Zenon DEF Collect
<1>3. /\ dev.head \in Nat /\ mbox.head \in Nat /\ dev.head <= mbox.head
      /\ \A s \in W : s \in Nat /\ Slot(s) \in Slots
  BY WindowFacts DEF QueueInv
<1>4. cpl \in [Slots -> Record]
  BY DEF QueueInv, DeviceInv, DeviceTypes, Record
<1>5. \A s \in W : s \in 0 .. mbox.head - 1 /\ cpl[Slot(s)] \in Record /\ About(cpl[Slot(s)], s)
  BY <1>3, <1>4 DEF QueueInv, Kept
<1>6. \A s \in DOMAIN done :
        s \in 0 .. mbox.head - 1 /\ done[s] \in Record /\ About(done[s], s)
  BY <1>3 DEF QueueInv, Kept
<1>7. dev'.head = mbox.head /\ mbox' = mbox
  BY <1>1 DEF fwVars
<1>8. mbox.head .. mbox.head - 1 = {}
  BY <1>3
<1> HIDE DEF W
<1>9. ASSUME NEW s \in DOMAIN done'
      PROVE  s \in 0 .. mbox.head - 1 /\ done'[s] \in Record /\ About(done'[s], s)
  <2>1. s \in DOMAIN done \cup W /\ done'[s] = IF s \in W THEN cpl[Slot(s)] ELSE done[s]
    BY <1>2
  <2>2. CASE s \in W
    BY <1>5, <2>1, <2>2
  <2>3. CASE s \notin W
    BY <1>6, <2>1, <2>3
  <2> QED BY <2>2, <2>3
<1>10. Kept'
  BY <1>7, <1>8, <1>9 DEF Kept, About
<1>11. Held'
  BY DEF Held, fwVars, QueueInv
<1> QED BY <1>2, <1>7, <1>10, <1>11 DEF W

\* Steps of the driver that collect nothing.
LEMMA CallKeeps ==
    ASSUME QueueInv, SubmitCall \/ SubmitTimeout \/ WaitCall \/ WaitTimeout \/ WriteEntry \/ Reset
    PROVE  /\ Kept' /\ Held'
           /\ cpl' = cpl /\ done' = done /\ dev'.head = dev.head /\ mbox'.head = mbox.head
<1>0. /\ dev \in DevType /\ mbox \in [tail : Nat, head : Nat]
      /\ fw \in [pc : Busy \cup {"poll", "off"}, head : Nat, type : Type, seq : Int,
                 addr : Addr, job : Int, status : Status]
  BY DEF QueueInv, DeviceInv, DeviceTypes, DevType
<1>1. cpl' = cpl /\ done' = done
  BY DEF SubmitCall, SubmitTimeout, WaitCall, WaitTimeout, WriteEntry, Reset, fwVars
<1>2. dev'.head = dev.head
  BY <1>0, Zenon DEF DevType, SubmitCall, SubmitTimeout, WaitCall, WaitTimeout, WriteEntry, Reset
<1>3. mbox'.head = mbox.head
  BY <1>0, Zenon DEF SubmitCall, SubmitTimeout, WaitCall, WaitTimeout, WriteEntry, Reset, fwVars
<1>4. fw' = fw \/ fw'.pc = "off"
  BY <1>0, Zenon DEF SubmitCall, SubmitTimeout, WaitCall, WaitTimeout, WriteEntry, Reset, fwVars
<1>5. Kept'
  BY <1>1, <1>2, <1>3 DEF QueueInv, Kept, About
<1>6. Held'
  BY <1>1, <1>4 DEF QueueInv, Held, Busy
<1> QED BY <1>1, <1>2, <1>3, <1>5, <1>6

-----------------------------------------------------------------------------
(* The refinement mapping. *)

\* The entries h .. n - 1, in order.
Entries0(h, n) == [i \in 1 .. n - h |-> h + i - 1]

\* One is completed, one is submitted.
LEMMA EntriesQueue ==
    ASSUME NEW h \in Nat, NEW n \in Nat, h <= n
    PROVE  /\ Entries0(h, n) \in Seq(Nat) /\ Len(Entries0(h, n)) = n - h
           /\ \A i \in 1 .. n - h : Entries0(h, n)[i] = h + i - 1
           /\ h < n => /\ Entries0(h, n) # <<>>
                       /\ Head(Entries0(h, n)) = h
                       /\ Tail(Entries0(h, n)) = Entries0(h + 1, n)
           /\ Append(Entries0(h, n), n) = Entries0(h, n + 1)
<1>1. ASSUME NEW a \in Nat, NEW b \in Nat, a <= b
      PROVE  /\ Entries0(a, b) \in Seq(Nat) /\ Len(Entries0(a, b)) = b - a
             /\ \A i \in 1 .. b - a : Entries0(a, b)[i] = a + i - 1
  BY <1>1 DEF Entries0
<1> DEFINE s == Entries0(h, n)
           m == n - h
<1>2. /\ s \in Seq(Nat) /\ Len(s) = m /\ m \in Nat
      /\ \A i \in 1 .. m : s[i] = h + i - 1
  BY <1>1
<1> HIDE DEF s
<1>3. ASSUME h < n
      PROVE  s # <<>> /\ Head(s) = h /\ Tail(s) = Entries0(h + 1, n)
  <2> DEFINE t == Entries0(h + 1, n)
  <2>1. /\ t \in Seq(Nat) /\ Len(t) = m - 1
        /\ \A i \in 1 .. m - 1 : t[i] = (h + 1) + i - 1
    BY <1>1, <1>3
  <2> HIDE DEF t
  <2>2. m > 0 /\ s # <<>> /\ Head(s) = h
    BY <1>2, <1>3
  <2>3. /\ Tail(s) \in Seq(Nat) /\ Len(Tail(s)) = m - 1
        /\ \A i \in 1 .. m - 1 : Tail(s)[i] = s[i + 1]
    BY <1>2, <2>2, HeadTailProperties
  <2>4. ASSUME NEW i \in 1 .. m - 1
        PROVE  Tail(s)[i] = t[i]
    <3>1. i + 1 \in 1 .. m /\ i \in Int
      BY <1>2
    <3>2. s[i + 1] = h + (i + 1) - 1 /\ t[i] = (h + 1) + i - 1
      BY <1>2, <2>1, <3>1
    <3>3. h + (i + 1) - 1 = (h + 1) + i - 1
      BY <3>1
    <3> QED BY <2>3, <3>2, <3>3
  <2>5. Tail(s) = t
    BY <2>1, <2>3, <2>4, SeqEqual
  <2> QED BY <2>2, <2>5 DEF t
<1>4. Append(s, n) = Entries0(h, n + 1)
  <2> DEFINE t == Entries0(h, n + 1)
             u == Append(s, n)
  <2>1. /\ t \in Seq(Nat) /\ Len(t) = m + 1
        /\ \A i \in 1 .. m + 1 : t[i] = h + i - 1
    BY <1>1
  <2> HIDE DEF t
  <2>2. /\ u \in Seq(Nat) /\ Len(u) = m + 1
        /\ \A i \in 1 .. m : u[i] = s[i]
        /\ u[m + 1] = n
    BY <1>2
  <2> HIDE DEF u
  <2>3. ASSUME NEW i \in 1 .. m + 1
        PROVE  u[i] = t[i]
    <3>1. i \in 1 .. m \/ i = m + 1
      BY <1>2
    <3>2. h + (m + 1) - 1 = n
      BY <1>2
    <3> QED BY <1>2, <2>1, <2>2, <3>1, <3>2
  <2>4. u = t
    BY <2>1, <2>2, <2>3, SeqEqual
  <2> QED BY <2>4 DEF t, u
<1> QED BY <1>2, <1>3, <1>4 DEF s

\* The entries whose records the client has not got, and their records.
Available == DOMAIN done \cup (dev.head .. mbox.head - 1)

\* A record of the queue is the one the entry's own run wrote.
LEMMA RecordIsOwn ==
    ASSUME QueueInv, NEW s \in Available
    PROVE  RecordOf(s).job = s /\ RecordOf(s).status \in Status /\ s < mbox.head /\ s \in Nat
<1> DEFINE r == IF s \in DOMAIN done THEN done[s] ELSE cpl[Slot(s)]
<1>1. r \in Record /\ About(r, s) /\ s < mbox.head /\ s \in Nat
  <2>1. CASE s \in DOMAIN done
    <3>1. s \in 0 .. dev.head - 1 /\ done[s] \in Record /\ About(done[s], s)
      BY <2>1 DEF QueueInv, Kept
    <3> QED BY <2>1, <3>1, WindowFacts DEF QueueInv
  <2>2. CASE s \notin DOMAIN done
    <3>1. s \in dev.head .. mbox.head - 1
      BY <2>2 DEF Available
    <3>2. About(cpl[Slot(s)], s) /\ Slot(s) \in Slots /\ s \in Nat
      BY <3>1, WindowFacts DEF QueueInv, Kept
    <3>3. cpl[Slot(s)] \in Record
      BY <3>2 DEF QueueInv, DeviceInv, DeviceTypes, Record
    <3> QED BY <2>2, <3>1, <3>2, <3>3, WindowFacts DEF QueueInv
  <2> QED BY <2>1, <2>2
<1>2. RecordOf(s) = [job |-> IF r.job = NoJob THEN r.seq ELSE r.job, status |-> r.status]
  BY DEF RecordOf
<1> HIDE DEF r
<1> QED BY <1>1, <1>2 DEF Record, About

\* What the queue's variables stand for.
Pending == IF isOpen THEN [i \in 1 .. dev.tail - mbox.head |-> mbox.head + i - 1] ELSE <<>>
Ready == {RecordOf(s) : s \in Available}

LEMMA PendingIs ==
    Pending = IF isOpen THEN Entries0(mbox.head, dev.tail) ELSE <<>>
BY DEF Pending, Entries0

\* Nothing the queue's user sees changes.
LEMMA Stutters ==
    ASSUME Pending' = Pending, Ready' = Ready, isOpen' = isOpen
    PROVE  UNCHANGED Queue!queueVars
BY Zenon DEF Queue!queueVars, Pending, Ready, Available

\* A step that moves or rewrites no record the client can still get.
LEMMA SameReady ==
    ASSUME Available' = Available, \A s \in Available : RecordOf(s)' = RecordOf(s)
    PROVE  Ready' = Ready
BY DEF Ready

\* The firmware before it moves RING_HEAD, and the driver's calls before and
\* after they write an entry or end in a reset.
LEMMA QuietSteps ==
    ASSUME QueueInv,
           \/ /\ FwPoll \/ FwRead \/ FwAddr \/ FwRun \/ FwResult \/ FwSeq
              /\ UNCHANGED <<dev, done, keep>>
           \/ SubmitCall \/ SubmitTimeout \/ WaitCall \/ WaitTimeout
    PROVE  UNCHANGED Queue!queueVars
<1>1. /\ dev'.tail = dev.tail /\ dev'.head = dev.head /\ done' = done /\ mbox' = mbox
      /\ isOpen' = isOpen
  <2>1. CASE /\ FwPoll \/ FwRead \/ FwAddr \/ FwRun \/ FwResult \/ FwSeq
             /\ UNCHANGED <<dev, done, keep>>
    BY <2>1 DEF FwPoll, FwRead, FwAddr, FwRun, FwResult, FwSeq, isOpen
  <2>2. CASE SubmitCall \/ SubmitTimeout \/ WaitCall \/ WaitTimeout
    <3>1. dev \in DevType
      BY DEF QueueInv, DeviceInv, DeviceTypes, DevType
    <3>2. dev'.tail = dev.tail /\ dev'.head = dev.head
      BY <2>2, <3>1, Zenon DEF DevType, SubmitCall, SubmitTimeout, WaitCall, WaitTimeout
    <3>3. done' = done /\ mbox' = mbox
      BY <2>2 DEF SubmitCall, SubmitTimeout, WaitCall, WaitTimeout, fwVars
    <3>4. dev.call # "closed"
      BY <2>2 DEF SubmitCall, SubmitTimeout, WaitCall, WaitTimeout
    <3>5. dev'.call # "closed"
      <4>1. returned # "closed"
        BY DEF returned
      <4> QED BY <2>2, <3>1, <4>1 DEF DevType, SubmitCall, SubmitTimeout, WaitCall, WaitTimeout
    <3> QED BY <3>2, <3>3, <3>4, <3>5 DEF isOpen
  <2> QED BY <2>1, <2>2
<1>2. \A s \in dev.head .. mbox.head - 1 : cpl'[Slot(s)] = cpl[Slot(s)]
  <2>1. CASE (FwResult \/ FwSeq) /\ UNCHANGED <<dev, done, keep>>
    BY <2>1, RecordKeeps
  <2>2. CASE ~((FwResult \/ FwSeq) /\ UNCHANGED <<dev, done, keep>>)
    BY <2>2 DEF FwPoll, FwRead, FwAddr, FwRun, SubmitCall, SubmitTimeout, WaitCall, WaitTimeout,
                fwVars
  <2> QED BY <2>1, <2>2
<1>3. Available' = Available
  BY <1>1 DEF Available
<1>4. ASSUME NEW s \in Available
      PROVE  RecordOf(s)' = RecordOf(s)
  <2>1. s \in DOMAIN done \/ cpl'[Slot(s)] = cpl[Slot(s)]
    BY <1>2 DEF Available
  <2> QED BY <1>1, <2>1 DEF RecordOf
<1>5. Pending' = Pending
  BY <1>1 DEF Pending
<1> QED BY <1>1, <1>3, <1>4, <1>5, SameReady, Stutters

\* RING_HEAD moves: the oldest entry is completed, with its record.
LEMMA HeadCompletes ==
    ASSUME QueueInv, FwHead, UNCHANGED <<dev, done, keep>>
    PROVE  Queue!Complete
<1> SUFFICES ASSUME NEW h, h = mbox.head
             PROVE  Queue!Complete
  OBVIOUS
<1>0. fw.pc = "head"
  BY DEF FwHead
<1>1. isOpen /\ isOpen'
  BY <1>0, AtWork DEF QueueInv, Busy, isOpen
<1>2. /\ h \in Nat /\ dev.tail \in Nat /\ h < dev.tail /\ dev.head <= h /\ dev.head \in Nat
  BY <1>0, WindowFacts DEF QueueInv, DeviceInv, Working, Busy
<1>3. mbox'.head = h + 1 /\ cpl' = cpl
  BY HeadKeeps
<1>4. /\ Pending # <<>> /\ Head(Pending) = h /\ Pending' = Tail(Pending)
  <2>1. Pending = Entries0(h, dev.tail)
    BY <1>1, PendingIs
  <2>2. Pending' = Entries0(h + 1, dev.tail)
    BY <1>1, <1>3 DEF Pending, Entries0
  <2>3. /\ Entries0(h, dev.tail) # <<>> /\ Head(Entries0(h, dev.tail)) = h
        /\ Tail(Entries0(h, dev.tail)) = Entries0(h + 1, dev.tail)
    <3>1. h <= dev.tail
      BY <1>2
    <3> QED BY <1>2, <3>1, EntriesQueue, Zenon
  <2> QED BY <2>1, <2>2, <2>3
<1>5. Available' = Available \cup {h}
  BY <1>2, <1>3 DEF Available
<1>6. h \notin Available
  BY RecordIsOwn
<1>7. \A s \in Available : RecordOf(s)' = RecordOf(s)
  BY <1>3 DEF RecordOf
<1>8. h \in Available' /\ QueueInv'
  BY <1>5, HeadKeeps, HeadStep DEF QueueInv
<1>9. RecordOf(h)' = [job |-> h, status |-> cpl[Slot(h)].status] /\ cpl[Slot(h)].status \in Status
  <2>1. h \notin DOMAIN done'
    BY <1>6 DEF Available
  <2>2. About(cpl[Slot(h)], h)
    BY HeadKeeps
  <2>3. Slot(h) \in Slots
    BY <1>2, DivMod DEF Slots
  <2>4. cpl[Slot(h)].status \in Status
    BY <2>3 DEF QueueInv, DeviceInv, DeviceTypes
  <2> DEFINE r == cpl[Slot(h)]
  <2>5. RecordOf(h)' = [job |-> IF r.job = NoJob THEN r.seq ELSE r.job, status |-> r.status]
    BY <1>3, <2>1 DEF RecordOf
  <2>6. (IF r.job = NoJob THEN r.seq ELSE r.job) = h
    BY <2>2 DEF About
  <2> HIDE DEF r
  <2>7. RecordOf(h)' = [job |-> h, status |-> r.status]
    BY <2>5, <2>6
  <2> QED BY <2>4, <2>7 DEF r
<1>10. Ready' = Ready \cup {[job |-> h, status |-> cpl[Slot(h)].status]}
  <2> DEFINE new == [job |-> h, status |-> cpl[Slot(h)].status]
  <2>1. RecordOf(h)' = new
    BY <1>9
  <2> HIDE DEF new
  <2>2. Ready' = {RecordOf(s)' : s \in Available'}
    BY DEF Ready
  <2>3. {RecordOf(s)' : s \in Available'} = {RecordOf(s) : s \in Available} \cup {new}
    BY <1>5, <1>7, <2>1
  <2> QED BY <2>2, <2>3 DEF Ready, new
<1>11. /\ isOpen /\ Pending # <<>> /\ Pending' = Tail(Pending) /\ isOpen' = isOpen
       /\ \E stat \in Status : Ready' = Ready \cup {[job |-> Head(Pending), status |-> stat]}
  BY <1>1, <1>4, <1>9, <1>10
<1> QED BY <1>11, Zenon DEF Queue!Complete, Pending, Ready, Available

\* An entry is written: it is submitted, and no other has its number.
LEMMA WriteSubmits ==
    ASSUME QueueInv, WriteEntry
    PROVE  Queue!Submit
<1> DEFINE n == dev.tail
<1>1. dev.call = "ring" /\ dev' = [dev EXCEPT !.tail = n + 1, !.seq = n,
                                              !.call = IF dev.closing THEN "wait" ELSE "idle"]
  BY Zenon DEF WriteEntry
<1>2. /\ n \in Nat /\ mbox.head \in Nat /\ mbox.head <= n /\ n < MaxEntries /\ MaxEntries \in Nat
  BY <1>1, WindowFacts DEF QueueInv, DeviceInv, Window
<1>3. dev'.tail = n + 1 /\ isOpen /\ isOpen'
  <2>1. dev \in DevType
    BY DEF QueueInv, DeviceInv, DeviceTypes, DevType
  <2> QED BY <1>1, <2>1 DEF DevType, isOpen
<1>4. cpl' = cpl /\ done' = done /\ dev'.head = dev.head /\ mbox'.head = mbox.head
  BY CallKeeps
<1>5. Pending = Entries0(mbox.head, n) /\ Pending' = Append(Pending, n)
  <2>1. Pending = Entries0(mbox.head, n)
    BY <1>3, PendingIs
  <2>2. Pending' = Entries0(mbox.head, n + 1)
    BY <1>3, <1>4 DEF Pending, Entries0
  <2> QED BY <1>2, <2>1, <2>2, EntriesQueue
<1>6. Ready' = Ready
  <2>1. Available' = Available
    BY <1>4 DEF Available
  <2>2. \A s \in Available : RecordOf(s)' = RecordOf(s)
    BY <1>4 DEF RecordOf
  <2> QED BY <2>1, <2>2, SameReady
<1>7. n \in Seq0
  BY <1>2 DEF Seq0
<1>8. n \notin {Pending[i] : i \in 1 .. Len(Pending)} \cup {r.job : r \in Ready}
  <2>1. ASSUME NEW i \in 1 .. Len(Pending)
        PROVE  Pending[i] # n
    <3>1. /\ Len(Pending) = n - mbox.head
          /\ \A j \in 1 .. n - mbox.head : Pending[j] = mbox.head + j - 1
      BY <1>2, <1>5, EntriesQueue
    <3> QED BY <1>2, <3>1
  <2>2. ASSUME NEW r \in Ready
        PROVE  r.job # n
    <3>1. PICK s \in Available : r = RecordOf(s)
      BY DEF Ready
    <3> QED BY <1>2, <3>1, RecordIsOwn
  <2> QED BY <2>1, <2>2
<1> HIDE DEF n
<1>9. /\ isOpen
      /\ \E j \in Seq0 \ ({Pending[i] : i \in 1 .. Len(Pending)} \cup {r.job : r \in Ready}) :
             Pending' = Append(Pending, j)
      /\ Ready' = Ready /\ isOpen' = isOpen
  BY <1>3, <1>5, <1>6, <1>7, <1>8
<1> QED BY <1>9, Zenon DEF Queue!Submit, Queue!Known, Pending, Ready, Available

\* The last records the client will get stay as they are when close() resets
\* the core: what has not been completed never is.
LEMMA ResetCloses ==
    ASSUME QueueInv, Reset
    PROVE  Queue!Close
<1>1. isOpen /\ ~isOpen' /\ isOpen \in BOOLEAN
  <2>1. dev.call = "reset" /\ dev' = [dev EXCEPT !.call = "closed"] /\ dev \in DevType
    BY DEF Reset, QueueInv, DeviceInv, DeviceTypes, DevType
  <2> QED BY <2>1 DEF isOpen, DevType
<1>2. cpl' = cpl /\ done' = done /\ dev'.head = dev.head /\ mbox'.head = mbox.head
  BY CallKeeps
<1>3. Ready' = Ready
  <2>1. Available' = Available
    BY <1>2 DEF Available
  <2>2. \A s \in Available : RecordOf(s)' = RecordOf(s)
    BY <1>2 DEF RecordOf
  <2> QED BY <2>1, <2>2, SameReady
<1>4. Pending' = <<>>
  BY <1>1 DEF Pending
<1>5. isOpen' = FALSE
  BY <1>1 DEF isOpen
<1> QED BY <1>1, <1>3, <1>4, <1>5, Zenon DEF Queue!Close, Pending, Ready, Available

\* What a _collect leaves: the records it moved are those the slots held.
LEMMA CollectShows ==
    ASSUME QueueInv, NEW drop, drop \subseteq Available, Collect(drop), UNCHANGED fwVars,
           dev'.head = headAfter, dev'.tail = dev.tail, isOpen' = isOpen
    PROVE  /\ Pending' = Pending
           /\ Available' = Available \ drop
           /\ \A s \in Available \ drop : RecordOf(s)' = RecordOf(s)
<1> DEFINE W == dev.head .. mbox.head - 1
<1>1. /\ DOMAIN done' = (DOMAIN done \cup W) \ drop
      /\ \A s \in DOMAIN done' : done'[s] = IF s \in W THEN cpl[Slot(s)] ELSE done[s]
      /\ dev'.head = mbox.head
  BY CollectKeeps
<1>2. /\ dev.head \in Nat /\ mbox.head \in Nat /\ mbox' = mbox /\ cpl' = cpl
  BY WindowFacts DEF QueueInv, fwVars
<1>3. Available' = Available \ drop
  <2>1. dev'.head .. mbox'.head - 1 = {}
    BY <1>1, <1>2
  <2> QED BY <1>1, <2>1 DEF Available
<1>4. \A s \in DOMAIN done : s \notin W
  BY <1>2 DEF QueueInv, Kept
<1>5. ASSUME NEW s \in Available \ drop
      PROVE  RecordOf(s)' = RecordOf(s)
  <2>1. s \in DOMAIN done' /\ done'[s] = IF s \in DOMAIN done THEN done[s] ELSE cpl[Slot(s)]
    BY <1>1, <1>4 DEF Available
  <2> QED BY <2>1 DEF RecordOf
<1>6. Pending' = Pending
  BY <1>2 DEF Pending
<1> QED BY <1>3, <1>5, <1>6

\* submit's poll shows the client nothing.
LEMMA SubmitPollQuiet ==
    ASSUME QueueInv, SubmitPoll
    PROVE  UNCHANGED Queue!queueVars
<1>1. Wrong = {} /\ dev \in DevType
  BY CollectsAll DEF QueueInv, DeviceInv, DeviceTypes, DevType
<1> DEFINE c == IF dev.tail - headAfter >= Size THEN "submit" ELSE "ring"
<1>2. /\ dev.call = "submit" /\ UNCHANGED fwVars /\ Collect({})
      /\ dev' = [dev EXCEPT !.head = headAfter, !.call = c]
  BY <1>1, Zenon DEF SubmitPoll, After
<1>3. c # "closed"
  OBVIOUS
<1> HIDE DEF c
<1>4. dev'.head = headAfter /\ dev'.tail = dev.tail /\ isOpen' = isOpen
  BY <1>1, <1>2, <1>3 DEF DevType, isOpen
<1>5. /\ Pending' = Pending /\ Available' = Available
      /\ \A s \in Available : RecordOf(s)' = RecordOf(s)
  <2>1. {} \subseteq Available /\ Available \ {} = Available
    OBVIOUS
  <2> QED BY <1>2, <1>4, <2>1, CollectShows
<1> QED BY <1>4, <1>5, SameReady, Stutters

\* wait's poll either shows nothing or returns the record of the entry waited
\* for, which then is not there any more.
LEMMA WaitPollReturns ==
    ASSUME QueueInv, WaitPoll
    PROVE  Queue!Return \/ UNCHANGED Queue!queueVars
<1> DEFINE W == dev.head .. mbox.head - 1
           found == Wrong = {} /\ dev.seq \in DOMAIN done \cup Collected
           drop == IF found THEN {dev.seq} ELSE {}
           c == IF found THEN returned ELSE "wait"
<1>1. Wrong = {} /\ Collected = W /\ dev \in DevType
  BY CollectsAll DEF QueueInv, DeviceInv, DeviceTypes, DevType
<1>2. /\ dev.call = "wait" /\ UNCHANGED fwVars /\ Collect(drop)
      /\ dev' = [dev EXCEPT !.head = headAfter, !.call = c]
  BY <1>1, Zenon DEF WaitPoll, After
<1>3. c # "closed"
  BY DEF returned
<1>4. drop \subseteq Available /\ drop \in {{}, {dev.seq}}
  BY <1>1 DEF Available
<1> HIDE DEF c, drop, found
<1>5. dev'.head = headAfter /\ dev'.tail = dev.tail /\ isOpen' = isOpen
  BY <1>1, <1>2, <1>3 DEF DevType, isOpen
<1>6. /\ Pending' = Pending /\ Available' = Available \ drop
      /\ \A s \in Available \ drop : RecordOf(s)' = RecordOf(s)
  BY <1>2, <1>4, <1>5, CollectShows
<1>7. CASE drop = {}
  <2>1. Available \ {} = Available
    OBVIOUS
  <2> QED BY <1>5, <1>6, <1>7, <2>1, SameReady, Stutters
<1>8. CASE drop # {}
  <2> DEFINE n == dev.seq
             r == RecordOf(n)
  <2>1. drop = {n} /\ n \in Available
    BY <1>4, <1>8
  <2>2. \A s \in Available : RecordOf(s).job = s
    BY RecordIsOwn
  <2>3. \A s \in Available : s # n => RecordOf(s) # r
    BY <2>1, <2>2
  <2> HIDE DEF n, r
  <2>4. Ready' = {RecordOf(s) : s \in Available \ {n}}
    <3>1. Ready' = {RecordOf(s)' : s \in Available'}
      BY DEF Ready
    <3> QED BY <1>6, <2>1, <3>1
  <2>5. r \in Ready /\ Ready' = Ready \ {r}
    BY <2>1, <2>3, <2>4 DEF Ready, r
  <2>6. \E x \in Ready : Ready' = Ready \ {x}
    BY <2>5
  <2> QED BY <1>5, <1>6, <2>6, Zenon DEF Queue!Return, Pending, Ready, Available
<1> QED BY <1>7, <1>8

-----------------------------------------------------------------------------
(* The theorems. *)

\* The invariant is inductive.
LEMMA StepQueueInv ==
    ASSUME QueueInv, [DeviceNext]_vars
    PROVE  QueueInv'
<1>0. DeviceInv'
  BY StepInv DEF QueueInv
<1>1. CASE FwNext /\ UNCHANGED <<dev, done, keep>>
  BY <1>0, <1>1, LocalKeeps, RecordKeeps, HeadKeeps DEF FwNext, QueueInv
<1>2. CASE SubmitCall \/ SubmitTimeout \/ WaitCall \/ WaitTimeout \/ WriteEntry \/ Reset
  BY <1>0, <1>2, CallKeeps DEF QueueInv
<1>3. CASE SubmitPoll \/ WaitPoll
  <2>0. dev \in DevType
    BY DEF QueueInv, DeviceInv, DeviceTypes, DevType
  <2>1. PICK drop : Collect(drop)
    BY <1>3, Zenon DEF SubmitPoll, WaitPoll
  <2>2. UNCHANGED fwVars
    BY <1>3, Zenon DEF SubmitPoll, WaitPoll
  <2>3. dev'.head = headAfter
    BY <1>3, <2>0, Zenon DEF SubmitPoll, WaitPoll, DevType
  <2> QED BY <1>0, <2>1, <2>2, <2>3, CollectKeeps DEF QueueInv
<1>4. CASE UNCHANGED vars
  BY <1>0, <1>4 DEF vars, QueueInv, Kept, Held, About
<1> QED BY <1>1, <1>2, <1>3, <1>4 DEF DeviceNext

\* The records of the driver of pynq_matmul.py and of rt_fw.c are always about
\* the entry of their slot, from the run to the client.
THEOREM QueueInductive == Spec => []QueueInv
<1>1. DeviceInit => QueueInv
  BY InitQueueInv
<1>2. QueueInv /\ [DeviceNext]_vars => QueueInv'
  BY StepQueueInv
<1> QED BY <1>1, <1>2, PTL DEF Spec

\* A step of the driver or the firmware is a step of the queue, or none.
LEMMA StepIsQueue ==
    ASSUME QueueInv, [DeviceNext]_vars
    PROVE  [Queue!Next]_Queue!queueVars
<1>1. CASE FwNext /\ UNCHANGED <<dev, done, keep>>
  <2>1. CASE FwHead
    BY <1>1, <2>1, HeadCompletes DEF Queue!Next
  <2>2. CASE ~FwHead
    BY <1>1, <2>2, QuietSteps DEF FwNext
  <2> QED BY <2>1, <2>2
<1>2. CASE SubmitCall \/ SubmitTimeout \/ WaitCall \/ WaitTimeout
  BY <1>2, QuietSteps
<1>3. CASE SubmitPoll
  BY <1>3, SubmitPollQuiet
<1>4. CASE WaitPoll
  BY <1>4, WaitPollReturns DEF Queue!Next
<1>5. CASE WriteEntry
  BY <1>5, WriteSubmits DEF Queue!Next
<1>6. CASE Reset
  BY <1>6, ResetCloses DEF Queue!Next
<1>7. CASE UNCHANGED vars
  <2>1. Pending' = Pending /\ isOpen' = isOpen
    BY <1>7 DEF vars, Pending, isOpen
  <2>2. Available' = Available /\ \A s \in Available : RecordOf(s)' = RecordOf(s)
    BY <1>7 DEF vars, Available, RecordOf
  <2> QED BY <2>1, <2>2, SameReady, Stutters
<1> QED BY <1>1, <1>2, <1>3, <1>4, <1>5, <1>6, <1>7 DEF DeviceNext

\* The driver of pynq_matmul.py and the firmware of rt_fw.c are a queue:
\* entries complete once, in the order of their submission, and wait() returns
\* for each the record its own run wrote, late or out of order as it may be
\* asked for.
THEOREM QueueRefinement == Spec => QueueSemantics
<1>1. DeviceInit => Queue!Init
  <2> SUFFICES ASSUME DeviceInit
               PROVE  Queue!Init
    OBVIOUS
  <2>1. dev.tail = 0 /\ dev.head = 0 /\ mbox.head = 0 /\ DOMAIN done = {} /\ isOpen
    BY DEF DeviceInit, FwInit, isOpen
  <2>2. Pending = <<>>
    <3>1. Pending = Entries0(0, 0)
      BY <2>1, PendingIs
    <3>2. Entries0(0, 0) \in Seq(Nat) /\ Len(Entries0(0, 0)) = 0
      BY EntriesQueue
    <3> QED BY <3>1, <3>2, EmptySeq
  <2>3. Ready = {}
    <3>1. Available = {}
      BY <2>1 DEF Available
    <3> QED BY <3>1 DEF Ready
  <2>4. isOpen = TRUE
    BY <2>1 DEF isOpen
  <2> QED BY <2>2, <2>3, <2>4, Zenon DEF Queue!Init, Pending, Ready, Available
<1>2. QueueInv /\ [DeviceNext]_vars => [Queue!Next]_Queue!queueVars
  BY StepIsQueue
<1> QED BY <1>1, <1>2, QueueInductive, PTL DEF Spec, QueueSemantics, Queue!Spec
=============================================================================
