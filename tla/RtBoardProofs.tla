---------------------------- MODULE RtBoardProofs ----------------------------
(***************************************************************************)
(* Theorems about the board transport of the C runtime for every size of   *)
(* the rings, every width of the counters (they wrap), every number of     *)
(* runs and of entries given up, in any sequence of processes, which end   *)
(* when they like, up to the first that opens the transport before the     *)
(* firmware is done with the entries of the one before.                    *)
(***************************************************************************)
EXTENDS RtBoard, TLAPS

-----------------------------------------------------------------------------
(* Counters that wrap. *)

Slots == 0 .. Size - 1

\* The number of the entry before n, and how many lie from h up to n.
Prev1(n) == IF n = 0 THEN Modulus - 1 ELSE n - 1
Apart(h, n) == IF h <= n THEN n - h ELSE n - h + Modulus

LEMMA RingFacts ==
    /\ Size \in Nat \ {0} /\ Modulus \in Nat \ {0} /\ MaxLate \in Nat
    /\ 2 * (MaxLate + 1) < Modulus /\ Modulus > 2
    /\ 0 \in Counter /\ Slots # {} /\ SomeAddr \in Addr
<1>1. /\ Size \in Nat \ {0} /\ Modulus \in Nat \ {0} /\ MaxLate \in Nat
      /\ 2 * (MaxLate + 1) < Modulus
  BY RingAssumption, BoardAssumption
<1>2. SomeAddr \in Addr
  BY RingAssumption DEF SomeAddr
<1>3. 0 \in Counter /\ 0 \in Slots
  BY <1>1 DEF Counter, Slots
<1> QED BY <1>1, <1>2, <1>3

\* The remainder of a division is the only number below the divisor that
\* differs from the dividend by a multiple of it.
LEMMA ModIs ==
    ASSUME NEW m \in Nat \ {0}, NEW x \in Int, NEW q \in Int, NEW r \in 0 .. m - 1,
           x = m * q + r
    PROVE  x % m = r
<1> DEFINE s == x % m
           p == x \div m
<1>1. /\ s \in 0 .. m - 1 /\ p \in Int
      /\ x = m * p + s
  OBVIOUS
<1> HIDE DEF s, p
<1>2. m * (p - q) = r - s /\ p - q \in Int
  BY <1>1
<1> DEFINE d == p - q
           e == r - s
<1>3. m * d = e /\ d \in Int /\ e \in Int /\ -m < e /\ e < m
  BY <1>1, <1>2
<1> HIDE DEF d, e
<1>4. e = 0
  BY <1>3
<1> QED BY <1>1, <1>4 DEF e, s

LEMMA Turn ==
    ASSUME NEW n \in Counter
    PROVE  /\ Next1(n) = IF n + 1 = Modulus THEN 0 ELSE n + 1
           /\ Next1(n) \in Counter /\ Prev1(n) \in Counter
           /\ Prev1(Next1(n)) = n
<1>0. Modulus \in Nat \ {0} /\ n \in Nat /\ n < Modulus
  BY RingFacts DEF Counter
<1>1. CASE n + 1 = Modulus
  <2>1. (n + 1) % Modulus = 0
    BY <1>0, <1>1, ModIs
  <2> QED BY <1>0, <1>1, <2>1 DEF Next1, Prev1, Counter
<1>2. CASE n + 1 # Modulus
  <2>1. (n + 1) % Modulus = n + 1
    BY <1>0, <1>2
  <2> QED BY <1>0, <1>2, <2>1 DEF Next1, Prev1, Counter
<1> QED BY <1>1, <1>2

\* The difference the code computes counts the entries in between.
LEMMA Between ==
    ASSUME NEW h \in Counter, NEW n \in Counter
    PROVE  /\ (n - h) % Modulus = Apart(h, n)
           /\ Apart(h, n) \in 0 .. Modulus - 1
           /\ Apart(h, n) = 0 <=> h = n
           /\ Apart(h, n) = 1 => h = Prev1(n)
           /\ h # n => Apart(Next1(h), n) = Apart(h, n) - 1
           /\ Apart(h, n) < Modulus - 1 => Apart(h, Next1(n)) = Apart(h, n) + 1
<1>0. Modulus \in Nat \ {0} /\ n \in Nat /\ n < Modulus /\ h \in Nat /\ h < Modulus
  BY RingFacts DEF Counter
<1>1. Apart(h, n) \in 0 .. Modulus - 1 /\ (Apart(h, n) = 0 <=> h = n)
  BY <1>0 DEF Apart
<1>2. (n - h) % Modulus = Apart(h, n)
  <2>1. CASE h <= n
    <3>1. n - h = Modulus * 0 + Apart(h, n)
      BY <1>0, <2>1 DEF Apart
    <3> QED BY <1>0, <1>1, <3>1, ModIs
  <2>2. CASE ~(h <= n)
    <3>1. n - h = Modulus * (-1) + Apart(h, n)
      BY <1>0, <2>2 DEF Apart
    <3> QED BY <1>0, <1>1, <3>1, ModIs
  <2> QED BY <2>1, <2>2
<1>3. Apart(h, n) = 1 => h = Prev1(n)
  BY <1>0 DEF Apart, Prev1
<1>4. h # n => Apart(Next1(h), n) = Apart(h, n) - 1
  BY <1>0, Turn DEF Apart
<1>5. Apart(h, n) < Modulus - 1 => Apart(h, Next1(n)) = Apart(h, n) + 1
  BY <1>0, Turn DEF Apart
<1> QED BY <1>1, <1>2, <1>3, <1>4, <1>5

\* The slots go round with the counters: the code's tail - 1 at tail = 0.
LEMMA SlotBefore ==
    ASSUME NEW n \in Counter
    PROVE  /\ Slot(n) \in Slots
           /\ Slot(n - 1) = Slot(Prev1(n))
<1>0. Modulus \in Nat \ {0} /\ Size \in Nat \ {0} /\ n \in Nat /\ n < Modulus
  BY RingFacts DEF Counter
<1>1. Slot(n) \in Slots
  BY <1>0 DEF Slot, Slots
<1>2. CASE n = 0
  <2> DEFINE k == Modulus \div Size
  <2>1. Modulus = Size * k /\ k \in Int
    BY <1>0, RingAssumption
  <2> HIDE DEF k
  <2>2. -1 = Size * (-1) + (Size - 1) /\ Size - 1 \in 0 .. Size - 1
    BY <1>0
  <2>3. (-1) % Size = Size - 1
    BY <1>0, <2>2, ModIs
  <2>4. Modulus - 1 = Size * (k - 1) + (Size - 1) /\ k - 1 \in Int /\ Modulus - 1 \in Int
    BY <1>0, <2>1
  <2>5. (Modulus - 1) % Size = Size - 1
    BY <1>0, <2>2, <2>4, ModIs
  <2> QED BY <1>1, <1>2, <2>3, <2>5 DEF Slot, Prev1
<1>3. CASE n # 0
  BY <1>1, <1>3 DEF Prev1
<1> QED BY <1>2, <1>3

-----------------------------------------------------------------------------
(***************************************************************************)
(* The inductive invariant.  An answer is about the entry the transport    *)
(* wrote last.  While it waits, that entry's slot and buffer are as it     *)
(* wrote them, and the firmware reaches it from a poll, after whatever was *)
(* given up: what it then holds of an entry is what it has read of this    *)
(* one, even if an earlier run read the same slot half written.            *)
(***************************************************************************)
Busy == {"read", "addr", "run", "result", "seq", "head"}
Left == Apart(mbox.head, mbox.tail)

BoardTypes ==
    /\ ring \in [Slots -> [type : Type, seq : Int, addr : Addr]]
    /\ cpl \in [Slots -> [seq : Int, job : Int, status : Status]]
    /\ mem \in [Addr -> Int]
    /\ mbox \in [tail : Counter, head : Counter]
    /\ fw \in [pc : Busy \cup {"poll", "off"}, head : Counter, type : Type, seq : Int,
               addr : Addr, job : Int, status : Status]
    /\ b \in [pc : {"off", "idle", "entry", "words", "doorbell", "wait"}, tail : Counter,
              job : Int, addr : Addr]
    /\ jobs \in Nat

\* The two counters: what is left for the firmware, and who is at what.
Rings ==
    /\ fw.head = mbox.head
    /\ fw.pc \in Busy => mbox.head # mbox.tail
    /\ b.pc # "off" => b.tail = mbox.tail
    /\ Left <= MaxLate + 1
    /\ b.pc \in {"entry", "words", "doorbell"} => Left <= MaxLate

\* The entry being written, at its number n, and the list it points at.
Written(n) ==
    /\ b.pc \in {"entry", "words", "doorbell", "wait"} => mem[b.addr] = b.job
    /\ b.pc \in {"words", "doorbell", "wait"} => ring[Slot(n)].type = "run"
    /\ b.pc \in {"doorbell", "wait"} => ring[Slot(n)].addr = b.addr

\* What the firmware holds of the entry written last when it works on it, and
\* what it has left in its record.
Answered(n) ==
    /\ Left = 1 =>
        /\ fw.pc = "run" => fw.addr = b.addr
        /\ fw.pc = "result" => fw.job = b.job
        /\ fw.pc \in {"seq", "head"} => cpl[Slot(n)].job = b.job
    /\ Left = 0 => cpl[Slot(n)].job = b.job

\* The number of the entry the transport writes, or has written.
Number == IF b.pc = "wait" THEN Prev1(b.tail) ELSE b.tail

BoardInv ==
    /\ BoardTypes /\ Rings /\ OkIsOwn
    /\ Written(Number)
    /\ b.pc = "wait" => Answered(Prev1(b.tail))

\* What the invariant says of the counters, for the arithmetic.
LEMMA BoardFacts ==
    ASSUME BoardInv
    PROVE  /\ mbox.head \in Counter /\ mbox.tail \in Counter /\ b.tail \in Counter
           /\ fw.head = mbox.head /\ Slot(fw.head) \in Slots
           /\ Left \in 0 .. MaxLate + 1
           /\ Left = 0 <=> mbox.head = mbox.tail
           /\ fw.pc \in Busy => Left # 0
           /\ Left = 1 => fw.head = Prev1(mbox.tail)
           /\ b.pc # "off" => b.tail = mbox.tail /\ Outstanding(b.tail) = Left
<1>1. /\ mbox.head \in Counter /\ mbox.tail \in Counter /\ b.tail \in Counter
      /\ fw.head = mbox.head /\ Left <= MaxLate + 1
      /\ fw.pc \in Busy => mbox.head # mbox.tail
      /\ b.pc # "off" => b.tail = mbox.tail
  BY DEF BoardInv, BoardTypes, Rings
<1>2. /\ Left \in 0 .. Modulus - 1
      /\ Left = 0 <=> mbox.head = mbox.tail
      /\ Left = 1 => mbox.head = Prev1(mbox.tail)
      /\ Outstanding(mbox.tail) = Left
  BY <1>1, Between DEF Left, Outstanding
<1>3. Slot(fw.head) \in Slots
  BY <1>1, SlotBefore
<1>4. Left \in 0 .. MaxLate + 1
  BY <1>1, <1>2, RingFacts
<1> QED BY <1>1, <1>2, <1>3, <1>4

LEMMA InitBoardInv ==
    ASSUME BoardInit
    PROVE  BoardInv
<1> USE DEF BoardInit, FwInit, NoProcess, NoAnswer
<1>0. SomeAddr \in Addr /\ 0 \in Counter /\ MaxLate \in Nat /\ Modulus \in Nat
  BY RingFacts
<1>1. BoardTypes
  <2>1. ring \in [Slots -> [type : Type, seq : Int, addr : Addr]]
    BY <1>0 DEF Slots, Type
  <2>2. cpl \in [Slots -> [seq : Int, job : Int, status : Status]]
    BY DEF Slots, Status, NoJob
  <2>3. mem \in [Addr -> Int] /\ mbox \in [tail : Counter, head : Counter] /\ jobs \in Nat
    BY <1>0 DEF NoJob
  <2>4. fw \in [pc : Busy \cup {"poll", "off"}, head : Counter, type : Type, seq : Int,
                addr : Addr, job : Int, status : Status]
    BY <1>0 DEF Busy, Type, NoJob, Status
  <2>5. b \in [pc : {"off", "idle", "entry", "words", "doorbell", "wait"}, tail : Counter,
               job : Int, addr : Addr]
    BY <1>0 DEF NoJob
  <2> QED BY <2>1, <2>2, <2>3, <2>4, <2>5 DEF BoardTypes
<1>2. Left = 0
  BY <1>0 DEF Left, Apart
<1>3. Rings
  BY <1>0, <1>2 DEF Rings, Busy
<1>4. OkIsOwn /\ b.pc = "off"
  BY DEF OkIsOwn
<1>5. Written(b.tail)
  BY <1>4 DEF Written
<1> QED BY <1>1, <1>3, <1>4, <1>5 DEF BoardInv, Number

-----------------------------------------------------------------------------
(***************************************************************************)
(* The firmware.                                                           *)
(***************************************************************************)

\* A step of the firmware leaves what the transport wrote alone.
LEMMA FwLeaves ==
    ASSUME FwNext, UNCHANGED <<b, answer, jobs>>
    PROVE  /\ UNCHANGED <<ring, mem, b, answer, jobs>>
           /\ OkIsOwn => OkIsOwn'
           /\ \A n : Written(n) => Written(n)'
<1>1. UNCHANGED <<ring, mem, b, answer, jobs>>
  BY DEF FwNext, FwPoll, FwRead, FwAddr, FwRun, FwResult, FwSeq, FwHead
<1> QED BY <1>1 DEF OkIsOwn, Written

\* Its steps before the record: what it takes for its own entry is the
\* entry written last, whose slot and buffer are complete by now.
LEMMA LocalBoard ==
    ASSUME BoardInv, FwPoll \/ FwRead \/ FwAddr \/ FwRun, UNCHANGED <<b, answer, jobs>>
    PROVE  BoardInv'
<1> DEFINE n == Prev1(b.tail)
<1>0. /\ fw \in [pc : Busy \cup {"poll", "off"}, head : Counter, type : Type, seq : Int,
                  addr : Addr, job : Int, status : Status]
      /\ ring \in [Slots -> [type : Type, seq : Int, addr : Addr]]
      /\ mem \in [Addr -> Int]
      /\ BoardTypes /\ Rings
  BY DEF BoardInv, BoardTypes
<1>1. UNCHANGED <<ring, cpl, mem, mbox, b, answer, jobs>> /\ FwNext
  BY DEF FwPoll, FwRead, FwAddr, FwRun, FwNext
<1>2. /\ fw' \in [pc : Busy \cup {"poll", "off"}, head : Counter, type : Type, seq : Int,
                   addr : Addr, job : Int, status : Status]
      /\ fw'.pc \in Busy /\ fw'.head = fw.head
      /\ fw.pc = "poll" => fw'.pc = "read" /\ mbox.tail # fw.head
  <2>0. Slot(fw.head) \in Slots
    BY BoardFacts
  <2>1. CASE FwPoll
    BY <1>0, <2>1 DEF FwPoll, Busy
  <2>2. CASE FwRead
    <3>1. NoJob \in Int /\ "ok" \in Status
      BY DEF NoJob, Status
    <3> QED BY <1>0, <2>0, <2>2, <3>1 DEF FwRead, Busy
  <2>3. CASE FwAddr
    BY <1>0, <2>0, <2>3 DEF FwAddr, Busy
  <2>4. CASE FwRun
    BY <1>0, <2>4 DEF FwRun, Busy
  <2> QED BY <2>1, <2>2, <2>3, <2>4
<1>3. BoardTypes'
  BY <1>0, <1>1, <1>2 DEF BoardTypes
<1>4. fw.pc \in Busy \cup {"poll"}
  BY DEF FwPoll, FwRead, FwAddr, FwRun, Busy
<1>5. Rings'
  BY <1>0, <1>1, <1>2, <1>4 DEF Rings, Left
<1>6. OkIsOwn' /\ Written(Number)'
  BY <1>1, FwLeaves DEF BoardInv, Number
<1>7. ASSUME b.pc = "wait"
      PROVE  Answered(n)'
  <2>1. Left' = Left /\ Left # 0 /\ (Left = 1 => fw.head = n)
    <3>1. Left # 0
      BY <1>0, <1>2, <1>4, BoardFacts DEF Rings
    <3> QED BY <1>1, <1>7, <3>1, BoardFacts DEF Left
  <2>2. Written(n) /\ Answered(n)
    BY <1>7 DEF BoardInv, Number
  <2>3. fw'.pc \notin {"seq", "head"}
    BY <1>0 DEF FwPoll, FwRead, FwAddr, FwRun
  <2>4. ASSUME Left = 1, fw'.pc = "run"
        PROVE  fw'.addr = b.addr
    <3>1. FwAddr
      BY <1>0, <2>4 DEF FwPoll, FwRead, FwAddr, FwRun
    <3>2. fw'.addr = ring[Slot(n)].addr
      BY <1>0, <2>1, <2>4, <3>1 DEF FwAddr
    <3> QED BY <1>7, <2>2, <3>2 DEF Written
  <2>5. ASSUME Left = 1, fw'.pc = "result"
        PROVE  fw'.job = b.job
    <3>1. CASE FwRead
      <4>1. ring[Slot(n)].type = "run"
        BY <1>7, <2>2 DEF Written
      <4>2. fw'.pc = "addr"
        BY <1>0, <2>1, <2>5, <3>1, <4>1 DEF FwRead
      <4> QED BY <2>5, <4>2
    <3>2. CASE FwRun
      <4>1. fw'.job = mem[fw.addr] /\ fw.pc = "run"
        BY <1>0, <3>2 DEF FwRun
      <4>2. fw.addr = b.addr /\ mem[b.addr] = b.job
        BY <1>7, <2>2, <2>5, <4>1 DEF Written, Answered
      <4> QED BY <4>1, <4>2
    <3>3. FwRead \/ FwRun
      BY <1>0, <2>5 DEF FwPoll, FwRead, FwAddr, FwRun
    <3> QED BY <3>1, <3>2, <3>3
  <2> QED BY <1>1, <2>1, <2>3, <2>4, <2>5 DEF Answered
<1> QED BY <1>1, <1>3, <1>5, <1>6, <1>7 DEF BoardInv, Number

\* The record it writes for the entry written last is that entry's.
LEMMA RecordBoard ==
    ASSUME BoardInv, FwResult \/ FwSeq, UNCHANGED <<b, answer, jobs>>
    PROVE  BoardInv'
<1> DEFINE n == Prev1(b.tail)
           k == Slot(fw.head)
<1>0. /\ fw \in [pc : Busy \cup {"poll", "off"}, head : Counter, type : Type, seq : Int,
                  addr : Addr, job : Int, status : Status]
      /\ cpl \in [Slots -> [seq : Int, job : Int, status : Status]]
      /\ k \in Slots
      /\ BoardTypes /\ Rings
  BY BoardFacts DEF BoardInv, BoardTypes
<1>1. UNCHANGED <<ring, mem, mbox, b, answer, jobs>> /\ FwNext
  BY DEF FwResult, FwSeq, FwNext
<1> HIDE DEF k
<1>2. /\ cpl' \in [Slots -> [seq : Int, job : Int, status : Status]]
      /\ fw.pc = "result" => cpl'[k].job = fw.job
      /\ fw.pc = "seq" => cpl'[k].job = cpl[k].job
  <2>1. CASE FwResult
    <3> USE DEF k
    <3> QED BY <1>0, <2>1 DEF FwResult
  <2>2. CASE FwSeq
    <3> USE DEF k
    <3> QED BY <1>0, <2>2 DEF FwSeq
  <2> QED BY <2>1, <2>2
<1>3. /\ fw.pc \in {"result", "seq"} /\ fw'.pc \in {"seq", "head"}
      /\ fw' \in [pc : Busy \cup {"poll", "off"}, head : Counter, type : Type, seq : Int,
                   addr : Addr, job : Int, status : Status]
      /\ fw'.head = fw.head
  BY <1>0 DEF FwResult, FwSeq, Busy
<1>4. BoardTypes'
  BY <1>0, <1>1, <1>2, <1>3 DEF BoardTypes
<1>5. Rings'
  BY <1>0, <1>1, <1>3 DEF Rings, Left, Busy
<1>6. OkIsOwn' /\ Written(Number)'
  BY <1>1, FwLeaves DEF BoardInv, Number
<1>7. ASSUME b.pc = "wait"
      PROVE  Answered(n)'
  <2>1. Left' = Left /\ Left # 0 /\ (Left = 1 => fw.head = n)
    BY <1>1, <1>3, <1>7, BoardFacts DEF Left, Busy
  <2>2. Answered(n)
    BY <1>7 DEF BoardInv, Number
  <2>3. Left = 1 => cpl'[Slot(n)].job = b.job
    BY <1>2, <1>3, <2>1, <2>2 DEF Answered, k
  <2> QED BY <1>1, <1>3, <2>1, <2>3 DEF Answered
<1> QED BY <1>1, <1>4, <1>5, <1>6, <1>7 DEF BoardInv, Number

\* The firmware moves on to the next entry: one less is left.
LEMMA HeadBoard ==
    ASSUME BoardInv, FwHead, UNCHANGED <<b, answer, jobs>>
    PROVE  BoardInv'
<1> DEFINE n == Prev1(b.tail)
<1>0. /\ fw \in [pc : Busy \cup {"poll", "off"}, head : Counter, type : Type, seq : Int,
                  addr : Addr, job : Int, status : Status]
      /\ mbox \in [tail : Counter, head : Counter]
      /\ BoardTypes /\ Rings
  BY DEF BoardInv, BoardTypes
<1>1. UNCHANGED <<ring, cpl, mem, b, answer, jobs>> /\ FwNext
  BY DEF FwHead, FwNext
<1>2. /\ fw.pc = "head" /\ fw.head = mbox.head
      /\ mbox.head \in Counter /\ mbox.tail \in Counter /\ mbox.head # mbox.tail
      /\ Left \in 0 .. MaxLate + 1 /\ Left # 0
  BY BoardFacts DEF FwHead, Busy
<1>3. Next1(mbox.head) \in Counter
  BY <1>2, Turn
<1>4. /\ mbox'.head = Next1(mbox.head) /\ mbox'.tail = mbox.tail
      /\ mbox' \in [tail : Counter, head : Counter]
      /\ fw'.head = mbox'.head /\ fw'.pc \in {"poll", "off"}
      /\ fw' \in [pc : Busy \cup {"poll", "off"}, head : Counter, type : Type, seq : Int,
                   addr : Addr, job : Int, status : Status]
  BY <1>0, <1>2, <1>3 DEF FwHead
<1>5. Left' = Left - 1
  BY <1>2, <1>4, Between DEF Left
<1>6. BoardTypes'
  BY <1>0, <1>1, <1>4 DEF BoardTypes
<1>7. Rings'
  <2>1. fw'.pc \notin Busy
    BY <1>4 DEF Busy
  <2>2. Left' <= MaxLate + 1 /\ (Left <= MaxLate => Left' <= MaxLate)
    BY <1>2, <1>5, RingFacts
  <2> QED BY <1>0, <1>1, <1>4, <2>1, <2>2 DEF Rings
<1>8. OkIsOwn' /\ Written(Number)'
  BY <1>1, FwLeaves DEF BoardInv, Number
<1>9. ASSUME b.pc = "wait"
      PROVE  Answered(n)'
  <2>1. Answered(n)
    BY <1>9 DEF BoardInv, Number
  <2>2. Left' = 0 => cpl[Slot(n)].job = b.job
    BY <1>2, <1>5, <2>1 DEF Answered
  <2> QED BY <1>1, <1>4, <2>2 DEF Answered
<1> QED BY <1>1, <1>6, <1>7, <1>8, <1>9 DEF BoardInv, Number

-----------------------------------------------------------------------------
(***************************************************************************)
(* The transport.                                                          *)
(***************************************************************************)

\* A process comes, with the ring at rest.
LEMMA OpenBoard ==
    ASSUME BoardInv, Open, early \in Nat, early' = early
    PROVE  BoardInv'
<1>0. /\ b \in [pc : {"off", "idle", "entry", "words", "doorbell", "wait"}, tail : Counter,
                 job : Int, addr : Addr]
      /\ BoardTypes /\ Rings /\ mbox.head \in Counter
  BY DEF BoardInv, BoardTypes
<1>1. /\ UNCHANGED <<ring, cpl, mem, mbox, fw, answer, jobs>> /\ b.pc = "off"
      /\ mbox.head = mbox.tail
  <2>1. early' # early + 1
    OBVIOUS
  <2> QED BY <2>1 DEF Open, fwVars
<1>2. /\ b' \in [pc : {"off", "idle", "entry", "words", "doorbell", "wait"}, tail : Counter,
                  job : Int, addr : Addr]
      /\ b'.pc = "idle" /\ b'.tail = mbox.head
  BY <1>0 DEF Open
<1>3. BoardTypes'
  BY <1>0, <1>1, <1>2 DEF BoardTypes
<1>4. Rings'
  BY <1>0, <1>1, <1>2 DEF Rings, Left
<1>5. OkIsOwn'
  BY <1>1 DEF BoardInv, OkIsOwn
<1> QED BY <1>2, <1>3, <1>4, <1>5 DEF BoardInv, Written, Number

\* A process ends, and leaves its entries to the firmware.
LEMMA EndBoard ==
    ASSUME BoardInv, End
    PROVE  BoardInv'
<1>0. BoardTypes /\ Rings
  BY DEF BoardInv
<1>1. UNCHANGED <<ring, cpl, mem, mbox, fw, jobs>>
  BY DEF End, fwVars
<1>2. /\ b' \in [pc : {"off", "idle", "entry", "words", "doorbell", "wait"}, tail : Counter,
                  job : Int, addr : Addr]
      /\ b'.pc = "off"
  BY RingFacts DEF End, NoProcess, NoJob
<1>3. BoardTypes'
  BY <1>0, <1>1, <1>2 DEF BoardTypes
<1>4. Rings'
  BY <1>0, <1>1, <1>2 DEF Rings, Left
<1>5. OkIsOwn'
  BY DEF End, NoAnswer, OkIsOwn
<1> QED BY <1>2, <1>3, <1>4, <1>5 DEF BoardInv, Written, Number

\* A run that waited for its record, or gave up.  The progress counter at
\* tail means that nothing is left, for what was given up is less than half
\* of what the counters can tell apart.
LEMMA AnswerBoard ==
    ASSUME BoardInv, Done \/ Timeout
    PROVE  BoardInv'
<1> DEFINE n == Prev1(b.tail)
<1>0. /\ b \in [pc : {"off", "idle", "entry", "words", "doorbell", "wait"}, tail : Counter,
                 job : Int, addr : Addr]
      /\ BoardTypes /\ Rings
  BY DEF BoardInv, BoardTypes
<1>1. UNCHANGED <<ring, cpl, mem, mbox, fw, jobs>> /\ b.pc = "wait"
  BY DEF Done, Timeout, fwVars
<1>2. /\ b' \in [pc : {"off", "idle", "entry", "words", "doorbell", "wait"}, tail : Counter,
                  job : Int, addr : Addr]
      /\ b'.pc = "idle" /\ b'.tail = b.tail
  BY <1>0 DEF Done, Timeout
<1>3. BoardTypes'
  BY <1>0, <1>1, <1>2 DEF BoardTypes
<1>4. Rings'
  BY <1>0, <1>1, <1>2 DEF Rings, Left
<1>5. OkIsOwn'
  <2>1. CASE Timeout
    BY <2>1 DEF Timeout, NoAnswer, OkIsOwn
  <2>2. CASE Done
    <3>1. Outstanding(b.tail) = Left /\ Left \in 0 .. MaxLate + 1
      BY <1>1, BoardFacts
    <3>2. ~(Left \in 1 .. Modulus \div 2)
      BY <2>2, <3>1 DEF Done, Late
    <3>3. Left = 0
      BY <3>1, <3>2, RingFacts
    <3>4. cpl[Slot(n)].job = b.job
      BY <1>1, <3>3 DEF BoardInv, Number, Answered
    <3>5. Slot(b.tail - 1) = Slot(n)
      BY BoardFacts, SlotBefore
    <3>6. answer'.job = b.job /\ answer'.record = cpl[Slot(n)].job
      BY <2>2, <3>5 DEF Done, Answer
    <3> QED BY <3>4, <3>6 DEF OkIsOwn
  <2> QED BY <2>1, <2>2
<1> QED BY <1>2, <1>3, <1>4, <1>5 DEF BoardInv, Written, Number

\* The caller's list goes into a buffer; it may be one an entry given up
\* still points at, but not the one of an entry that is waited for.
LEMMA RunBoard ==
    ASSUME BoardInv, Run
    PROVE  BoardInv'
<1>0. /\ b \in [pc : {"off", "idle", "entry", "words", "doorbell", "wait"}, tail : Counter,
                 job : Int, addr : Addr]
      /\ BoardTypes /\ Rings /\ jobs \in Nat /\ mem \in [Addr -> Int]
      /\ b.tail = mbox.tail /\ Outstanding(b.tail) = Left
  BY BoardFacts DEF BoardInv, BoardTypes, Run
<1>1. UNCHANGED <<ring, cpl, mbox, fw, answer>> /\ b.pc = "idle" /\ jobs' = jobs + 1
  BY DEF Run
<1>2. PICK a \in Addr : /\ mem' = [mem EXCEPT ![a] = jobs]
                         /\ b' = [b EXCEPT !.pc = "entry", !.job = jobs, !.addr = a]
  BY DEF Run
<1>3. /\ mem' \in [Addr -> Int] /\ mem'[a] = jobs
      /\ b' \in [pc : {"off", "idle", "entry", "words", "doorbell", "wait"}, tail : Counter,
                  job : Int, addr : Addr]
      /\ b'.pc = "entry" /\ b'.tail = b.tail /\ b'.job = jobs /\ b'.addr = a
  <2>1. mem' \in [Addr -> Int] /\ mem'[a] = jobs
    <3>1. jobs \in Int
      BY <1>0
    <3> QED BY <1>0, <1>2, <3>1
  <2>2. b' = [b EXCEPT !.pc = "entry", !.job = jobs, !.addr = a] /\ jobs \in Int
    BY <1>0, <1>2
  <2> QED BY <1>0, <2>1, <2>2
<1>4. BoardTypes'
  BY <1>0, <1>1, <1>3 DEF BoardTypes
<1>5. Left <= MaxLate
  BY <1>0 DEF Run
<1>6. Rings'
  BY <1>0, <1>1, <1>3, <1>5 DEF Rings, Left
<1>7. OkIsOwn'
  BY <1>1 DEF BoardInv, OkIsOwn
<1>8. Written(b.tail)'
  BY <1>3 DEF Written
<1> QED BY <1>3, <1>4, <1>6, <1>7, <1>8 DEF BoardInv, Number

\* The transport fills the slot at its tail, which no entry is in: the word
\* that makes it a run, then the address.
LEMMA WriteBoard ==
    ASSUME BoardInv, WriteType \/ WriteWords
    PROVE  BoardInv'
<1> DEFINE k == Slot(b.tail)
<1>0. /\ b \in [pc : {"off", "idle", "entry", "words", "doorbell", "wait"}, tail : Counter,
                 job : Int, addr : Addr]
      /\ ring \in [Slots -> [type : Type, seq : Int, addr : Addr]]
      /\ BoardTypes /\ Rings
      /\ b.tail \in Counter /\ b.tail \in Int /\ k \in Slots
  BY BoardFacts, SlotBefore, RingFacts DEF BoardInv, BoardTypes, Counter
<1>1. /\ UNCHANGED <<cpl, mem, mbox, fw, answer, jobs>>
      /\ b.pc \in {"entry", "words"}
  BY DEF WriteType, WriteWords
<1> HIDE DEF k
<1>2. /\ ring' \in [Slots -> [type : Type, seq : Int, addr : Addr]]
      /\ ring'[k].type = "run"
      /\ b.pc = "words" => ring'[k].addr = b.addr
      /\ b'.pc = IF b.pc = "entry" THEN "words" ELSE "doorbell"
  <2>0. Written(b.tail)
    BY <1>1 DEF BoardInv, Number
  <2>1. CASE WriteType
    <3>1. "run" \in Type
      BY DEF Type
    <3>2. ring' = [ring EXCEPT ![k].type = "run", ![k].seq = b.tail]
      BY <2>1 DEF WriteType, k
    <3>3. b.pc = "entry" /\ b'.pc = "words"
      BY <1>0, <2>1 DEF WriteType
    <3> QED BY <1>0, <3>1, <3>2, <3>3
  <2>2. CASE WriteWords
    <3>1. ring[k].type = "run"
      BY <2>0, <2>2 DEF Written, WriteWords, k
    <3>2. ring' = [ring EXCEPT ![k].addr = b.addr]
      BY <2>2 DEF WriteWords, k
    <3>3. b.pc = "words" /\ b'.pc = "doorbell"
      BY <1>0, <2>2 DEF WriteWords
    <3> QED BY <1>0, <3>1, <3>2, <3>3
  <2> QED BY <2>1, <2>2
<1>3. /\ b' \in [pc : {"off", "idle", "entry", "words", "doorbell", "wait"}, tail : Counter,
                  job : Int, addr : Addr]
      /\ b'.tail = b.tail /\ b'.job = b.job /\ b'.addr = b.addr
      /\ b'.pc \in {"words", "doorbell"}
  BY <1>0 DEF WriteType, WriteWords
<1>4. BoardTypes'
  BY <1>0, <1>1, <1>2, <1>3 DEF BoardTypes
<1>5. Rings'
  BY <1>0, <1>1, <1>3 DEF Rings, Left
<1>6. OkIsOwn'
  BY <1>1 DEF BoardInv, OkIsOwn
<1>7. Written(b.tail)'
  <2>1. Written(b.tail)
    BY <1>1 DEF BoardInv, Number
  <2> QED BY <1>1, <1>2, <1>3, <2>1 DEF Written, k
<1> QED BY <1>3, <1>4, <1>5, <1>6, <1>7 DEF BoardInv, Number

\* The doorbell makes the entry the last one left.  With nothing before it
\* the firmware polls: nothing it holds is taken for the new entry.
LEMMA DoorbellBoard ==
    ASSUME BoardInv, Doorbell
    PROVE  BoardInv'
<1> DEFINE t == Next1(b.tail)
<1>0. /\ b \in [pc : {"off", "idle", "entry", "words", "doorbell", "wait"}, tail : Counter,
                 job : Int, addr : Addr]
      /\ mbox \in [tail : Counter, head : Counter]
      /\ BoardTypes /\ Rings
  BY DEF BoardInv, BoardTypes
<1>1. UNCHANGED <<ring, cpl, mem, fw, answer, jobs>> /\ b.pc = "doorbell"
  BY DEF Doorbell
<1>2. /\ b.tail = mbox.tail /\ b.tail \in Counter /\ mbox.head \in Counter
      /\ Left <= MaxLate /\ Left \in 0 .. MaxLate + 1
  BY <1>0, <1>1, BoardFacts DEF Rings
<1>3. t \in Counter /\ Prev1(t) = b.tail
  BY <1>2, Turn
<1>4. /\ mbox' \in [tail : Counter, head : Counter]
      /\ mbox'.tail = t /\ mbox'.head = mbox.head
      /\ b' \in [pc : {"off", "idle", "entry", "words", "doorbell", "wait"}, tail : Counter,
                  job : Int, addr : Addr]
      /\ b'.tail = t /\ b'.pc = "wait" /\ b'.job = b.job /\ b'.addr = b.addr
  BY <1>0, <1>3 DEF Doorbell
<1>5. Left' = Left + 1 /\ mbox'.head # mbox'.tail
  <2>1. Left < Modulus - 1
    BY <1>2, RingFacts
  <2>2. Left' = Left + 1
    BY <1>2, <1>4, <2>1, Between DEF Left
  <2>3. Left' # 0
    BY <1>2, <2>2
  <2> QED BY <1>2, <1>3, <1>4, <2>2, <2>3, Between DEF Left
<1>6. BoardTypes'
  BY <1>0, <1>1, <1>4 DEF BoardTypes
<1>7. Rings'
  <2>1. Left' <= MaxLate + 1
    BY <1>2, <1>5, RingFacts
  <2> QED BY <1>0, <1>1, <1>4, <1>5, <2>1 DEF Rings
<1>8. OkIsOwn'
  BY <1>1 DEF BoardInv, OkIsOwn
<1>9. Written(b.tail) /\ Number' = b.tail
  BY <1>1, <1>3, <1>4 DEF BoardInv, Number
<1>10. Written(Number)'
  BY <1>1, <1>4, <1>9 DEF Written
<1>11. Left' # 0 /\ (Left' = 1 => fw.pc \notin Busy)
  BY <1>2, <1>5, BoardFacts
<1>12. Answered(Prev1(b.tail))'
  BY <1>1, <1>11 DEF Answered, Busy
<1> QED BY <1>6, <1>7, <1>8, <1>10, <1>12 DEF BoardInv

-----------------------------------------------------------------------------
(* The theorems. *)

\* Processes that came too early are counted, and never forgotten.
LEMMA EarlyCounts ==
    ASSUME early \in Nat, [BoardNext]_vars
    PROVE  early' \in Nat /\ (early' = 0 => early' = early)
<1>1. early' = early \/ early' = early + 1
  BY DEF BoardNext, vars, Open, Run, WriteType, WriteWords, Doorbell, Done, Timeout, End
<1> QED BY <1>1

LEMMA StepBoardInv ==
    ASSUME BoardInv, [BoardNext]_vars, early \in Nat, early' = early
    PROVE  BoardInv'
<1>1. CASE FwNext /\ UNCHANGED <<b, answer, jobs, early>>
  BY <1>1, LocalBoard, RecordBoard, HeadBoard DEF FwNext
<1>2. CASE Open
  BY <1>2, OpenBoard
<1>3. CASE Run
  BY <1>3, RunBoard
<1>4. CASE WriteType \/ WriteWords
  BY <1>4, WriteBoard
<1>5. CASE Doorbell
  BY <1>5, DoorbellBoard
<1>6. CASE Done \/ Timeout
  BY <1>6, AnswerBoard
<1>7. CASE End
  BY <1>7, EndBoard
<1>8. CASE UNCHANGED vars
  BY <1>8 DEF vars, BoardInv, BoardTypes, Rings, Left, OkIsOwn, Written, Answered, Number
<1> QED BY <1>1, <1>2, <1>3, <1>4, <1>5, <1>6, <1>7, <1>8 DEF BoardNext

\* The C transport and the firmware keep the invariant until a process comes
\* that takes over entries of the one before it.
BoardInvAlone == early \in Nat /\ (early = 0 => BoardInv)

THEOREM BoardInductive == Spec => []BoardInvAlone
<1>1. BoardInit => BoardInvAlone
  BY InitBoardInv DEF BoardInit, BoardInvAlone
<1>2. BoardInvAlone /\ [BoardNext]_vars => BoardInvAlone'
  BY StepBoardInv, EarlyCounts DEF BoardInvAlone
<1> QED BY <1>1, <1>2, PTL DEF Spec

\* "c[0] != seq" in board_wait: an OK answer is about the run just made,
\* however many entries were given up before and however often the 32-bit
\* counters have wrapped, whatever earlier processes left in the ring when they
\* ended, as long as each process came after the firmware was done with it.
THEOREM OwnAnswer == Spec => []OkIsOwnAlone
<1>1. BoardInvAlone => OkIsOwnAlone
  BY DEF BoardInvAlone, BoardInv, OkIsOwnAlone
<1> QED BY <1>1, BoardInductive, PTL
=============================================================================
