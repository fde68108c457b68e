------------------------------- MODULE SaDma ---------------------------------
(***************************************************************************)
(* The load engine rtl/sysarray/sa_ld.v and the store engine sa_st.v.  A   *)
(* command of rows x row_bytes is cut into bursts that are dealt round     *)
(* robin to the AXI ports; each port remembers where its bursts lie in     *)
(* local memory, so that the ports may answer in any order.                *)
(*                                                                         *)
(* The engines share the burst generator; one instance is one of them      *)
(* (the commands of a program are all loads or all stores).  One step is   *)
(* one posedge clk.  Addresses and lengths count lanes of 8 bytes, as in   *)
(* the code; a beat holds BL lanes.  The AXI slave accepts, answers and    *)
(* fails as it likes, in order on each port.  Left out: the register       *)
(* behind the local write that exists with more than two ports, the bypass *)
(* of the R skid buffer with one port, and the performance events.         *)
(***************************************************************************)
EXTENDS Integers, Sequences, FiniteSets

CONSTANTS
    NPORTS,     \* AXI ports
    BL,         \* lanes of a beat (DMA_W / 64)
    QD,         \* queued bursts of a port (8)
    SD,         \* entries of a W skid FIFO (4)
    MaxBeats,   \* beats of a burst (16)
    Page,       \* lanes of 4 KB (512)
    Programs,   \* sequences of commands, see CmdType
    CanFail     \* may the slave answer with an error: subset of BOOLEAN

Port == 0 .. NPORTS - 1

\* lpw: lanes of a word of the memory (lpw_log2).  GEMV: rows are strips, and
\* its beats go to sa_gemv.
CmdType ==
    [eng : {"LD", "ST"}, mode : {"LINEAR", "INTERLEAVE", "GEMV"}, ddr : Nat, word : Nat,
     rows : Nat \ {0}, len : Nat \ {0}, pitch : Nat, lpw : Nat \ {0}]

ASSUME DmaAssumption ==
    /\ NPORTS \in Nat \ {0} /\ QD \in Nat \ {0} /\ SD \in Nat \ {0}
    /\ MaxBeats \in Nat \ {0} /\ BL \in {1, 2} /\ Page \in Nat \ {0} /\ Page % BL = 0
    /\ CanFail \subseteq BOOLEAN /\ FALSE \in CanFail
    /\ \A s \in Programs : s # <<>> /\ s \in Seq(CmdType)
    /\ \A s \in Programs : \A i \in 1 .. Len(s) :
            /\ s[i].eng = s[1].eng
            /\ s[i].eng = "ST" => s[i].mode = "LINEAR"
            /\ s[i].mode = "GEMV" => \A x \in {s[i].ddr, s[i].len, s[i].pitch} : x % BL = 0

VARIABLES
    todo,       \* commands the scheduler still offers
    cmd,        \* the command accepted last
    g,          \* generator: [active, gen, rows, len, r, off, row_ddr, row_word,
                \*   cur_word, cur_lane, issued, rr]
    ch,         \* port -> burst on its AR / AW channel, or NoBurst
    q,          \* port -> bursts whose beats are to come, oldest first
    bus,        \* port -> bursts the slave has accepted and not served
    beat,       \* port -> beats taken from the head of q
    sel,        \* beat selection: [rr, hold, port]
    completed, rerr, done, err,
    rx,         \* LD: port -> beats in the R skid buffer (two entries)
    rd,         \* ST: the local read in flight, or NoRead
    sk,         \* ST: port -> beats in the W skid FIFO
    cnt,        \* ST: port -> its entries and the beats being read
    owe,        \* ST: port -> bursts whose B response is to come
    moved,      \* history: <<DDR lane, word, lane>> moved for cmd
    lanes,      \* history: how many lanes were moved for cmd
    faulty      \* history: the slave answered cmd with an error

ldst == <<rx, rd, sk, cnt, owe>>
hist == <<moved, lanes, faulty>>
vars == <<todo, cmd, g, ch, q, bus, beat, sel, completed, rerr, done, err, ldst, hist>>

NoBurst == [beats |-> 0]
NoRead == [port |-> -1]

IsLoad == cmd.eng = "LD"
gmode == IsLoad /\ cmd.mode = "GEMV"

NextPort(p) == (p + 1) % NPORTS

\* The first port of s at or after p.
FirstFrom(s, p) == CHOOSE x \in s : \A y \in s : (x + NPORTS - p) % NPORTS <= (y + NPORTS - p) % NPORTS

-----------------------------------------------------------------------------
(***************************************************************************)
(* The burst generator.                                                    *)
(***************************************************************************)

Words(c) == (c.len + c.lpw - 1) \div c.lpw      \* wpr
Flat(c) == c.mode = "LINEAR" /\ c.pitch = c.len /\ c.len % c.lpw = 0
Stride == IF cmd.mode = "INTERLEAVE" THEN cmd.rows ELSE 1     \* step

Accepted(c) ==
    [g EXCEPT !.active = TRUE, !.gen = TRUE,
              !.rows = IF Flat(c) THEN 1 ELSE c.rows,
              !.len = IF Flat(c) THEN c.rows * c.len ELSE c.len,
              !.r = 0, !.off = 0, !.row_ddr = c.ddr, !.row_word = c.word,
              !.cur_word = c.word, !.cur_lane = 0, !.issued = 0]

addr == g.row_ddr + g.off
s0 == addr % BL                 \* the lower lane of the first beat is not ours
lanes_row == g.len - g.off
lanes_4k == Page - (addr % Page)
lanes_max == MaxBeats * BL - s0

\* (mutant of nl: bursts cross 4 KB)
nl_NoPage == IF lanes_row < lanes_max THEN lanes_row ELSE lanes_max

\* Lanes of the next burst.
nl == IF lanes_row < lanes_max /\ lanes_row <= lanes_4k THEN lanes_row
      ELSE IF lanes_4k < lanes_max THEN lanes_4k
      ELSE lanes_max

Burst ==
    [addr  |-> addr - s0,
     beats |-> (s0 + nl + BL - 1) \div BL,
     word  |-> g.cur_word, lane |-> g.cur_lane, s0 |-> s0,
     tf    |-> (s0 + nl) % BL = 0,                  \* last beat: upper lane ours
     s     |-> g.r, k |-> g.off \div BL]

\* A store's burst enters q after its AW handshake, a load's when it is issued.
q_full(p) == Len(q[p]) + (IF ~IsLoad /\ ch[p] # NoBurst THEN 1 ELSE 0) >= QD

issue_ok == g.gen /\ ch[g.rr] = NoBurst /\ ~q_full(g.rr)
tries == g.gen /\ ~issue_ok

NextRow ==
    LET word == g.row_word + (IF Stride = 1 THEN Words(cmd) ELSE 1)
    IN  [g EXCEPT !.off = 0, !.r = @ + 1, !.row_ddr = @ + cmd.pitch, !.cur_lane = 0,
                  !.row_word = word, !.cur_word = word, !.gen = g.r + 1 # g.rows]

InRow ==
    LET sum == g.cur_lane + nl
    IN  [g EXCEPT !.off = @ + nl, !.cur_word = @ + (sum \div cmd.lpw) * Stride,
                  !.cur_lane = sum % cmd.lpw]

Issued ==
    [(IF g.off + nl = g.len THEN NextRow ELSE InRow) EXCEPT
        !.issued = @ + 1, !.rr = NextPort(@)]

\* busy: g_busy, sa_gemv still writes its results.
finished(busy) == g.active /\ ~g.gen /\ completed = g.issued /\ ~busy

Generated ==
    IF issue_ok THEN Issued
    ELSE IF tries THEN [g EXCEPT !.rr = NextPort(@)]
    ELSE g

-----------------------------------------------------------------------------
(***************************************************************************)
(* The lanes of the beat at the head of a port.                            *)
(***************************************************************************)

Head1(p) == Head(q[p])

\* (mutant of sum0: the skipped lane of a first beat is counted)
sum0_NoSkip(p) == Head1(p).lane + beat[p] * BL

\* Position of a beat's lower lane in the words of the burst.
sum0(p) == Head1(p).lane + beat[p] * BL - Head1(p).s0

lower(p) == ~(beat[p] = 0 /\ Head1(p).s0 = 1)                   \* v0
above(p, last) == BL = 2 /\ ~(last /\ ~Head1(p).tf)             \* v1
two(p, last) == lower(p) /\ above(p, last)
merge(p, last) == two(p, last) /\ cmd.lpw # 1 /\ sum0(p) % 2 = 0
upper(p) == sel.hold \/ ~lower(p)

\* This cycle's access completes the beat.
whole(p, last) == ~(two(p, last) /\ ~merge(p, last) /\ ~sel.hold)

WordOf(p, n) == Head1(p).word + (n \div cmd.lpw) * Stride
LaneOf(n) == n % cmd.lpw

Selected(ready) == IF sel.hold THEN sel.port ELSE FirstFrom(ready, sel.rr)

\* After an access for port p.
SelNext(p, all) ==
    IF all THEN [rr |-> NextPort(p), hold |-> FALSE, port |-> sel.port]
    ELSE [sel EXCEPT !.hold = TRUE, !.port = p]

-----------------------------------------------------------------------------
(***************************************************************************)
(* One edge.  start: <<c>> when a command is accepted; rdy: ports whose    *)
(* AR / AW handshake happens.                                              *)
(***************************************************************************)

Pushed(p, rdy) ==
    IF IsLoad THEN IF issue_ok /\ p = g.rr THEN <<Burst>> ELSE <<>>
    ELSE IF p \in rdy THEN <<ch[p]>> ELSE <<>>

\* pops: ports whose head burst leaves q; served: what the slave has left of bus.
Issue(start, rdy, pops, served, busy) ==
    /\ todo' = IF start = <<>> THEN todo ELSE Tail(todo)
    /\ cmd' = IF start = <<>> THEN cmd ELSE start[1]
    /\ g' = IF start # <<>> THEN Accepted(start[1])
            ELSE IF finished(busy) THEN [g EXCEPT !.active = FALSE]
            ELSE Generated
    /\ ch' = [p \in Port |-> IF issue_ok /\ p = g.rr THEN Burst
                             ELSE IF p \in rdy THEN NoBurst ELSE ch[p]]
    /\ q' = [p \in Port |-> (IF p \in pops THEN Tail(q[p]) ELSE q[p]) \o Pushed(p, rdy)]
    /\ bus' = [p \in Port |-> served[p] \o
                IF p \in rdy
                THEN <<[addr |-> ch[p].addr, beats |-> ch[p].beats, n |-> 0]>> ELSE <<>>]
    /\ done' = finished(busy)
    /\ err' = IF finished(busy) THEN rerr ELSE err

\* (mutant of Counted: of the bursts that end in one cycle one is counted)
Counted_One(start, ends) == IF start # <<>> THEN 0 ELSE completed + IF ends = {} THEN 0 ELSE 1
Counted(start, ends) == IF start # <<>> THEN 0 ELSE completed + Cardinality(ends)

\* (mutant of Failed: the error of the last command is kept)
Failed_Kept(start, bad) == rerr \/ bad # {}
Failed(start, bad) == (start = <<>> /\ rerr) \/ bad # {}

Record(start, places, bad) ==
    /\ moved' = (IF start # <<>> THEN {} ELSE moved) \cup places
    /\ lanes' = (IF start # <<>> THEN 0 ELSE lanes) + Cardinality(places)
    /\ faulty' = ((start = <<>> /\ faulty) \/ bad # {})

-----------------------------------------------------------------------------
(***************************************************************************)
(* sa_ld.  come: ports on which a beat arrives, an error one if in bad.    *)
(***************************************************************************)

Ready == {p \in Port : rx[p] # <<>> /\ q[p] # <<>>}
Arrived(p, bad) ==
    LET b == Head(bus[p])
    IN  [addr |-> b.addr + b.n * BL, last |-> b.n + 1 = b.beats, ok |-> p \notin bad]

\* What the slave has left of s after one beat.
LessBeat(s) ==
    IF Head(s).n + 1 = Head(s).beats THEN Tail(s) ELSE <<[Head(s) EXCEPT !.n = @ + 1]>> \o Tail(s)

\* The lanes port p's beat b writes in this cycle.
Written(p, b) ==
    LET low  == <<b.addr, WordOf(p, sum0(p)), LaneOf(sum0(p))>>
        one  == sum0(p) + (IF upper(p) THEN 1 ELSE 0)
    IN  IF merge(p, b.last) THEN {low, <<b.addr + 1, low[2], low[3] + 1>>}
        ELSE {<<b.addr + (IF upper(p) THEN BL - 1 ELSE 0), WordOf(p, one), LaneOf(one)>>}

\* GEMV: every port hands its beat, with its strip and k, to its own lane.
Handed(p) == <<Head(rx[p]).addr, Head1(p).s, Head1(p).k + beat[p]>>

LoadEdge(start, rdy, come, bad, xready, busy) ==
    LET ready == IF gmode THEN {} ELSE Ready
        any   == sel.hold \/ ready # {}
        p     == Selected(ready)
        b     == Head(rx[p])
        given == IF gmode /\ g.active /\ xready THEN Ready ELSE {}
        taken == IF any /\ whole(p, b.last) THEN {p} ELSE given     \* r_take, g_take
        ends  == {x \in taken : Head(rx[x]).last}
        wrong == {x \in taken : ~Head(rx[x]).ok}
    IN  /\ Issue(start, rdy, ends,
                 [x \in Port |-> IF x \in come THEN LessBeat(bus[x]) ELSE bus[x]], busy)
        /\ rx' = [x \in Port |-> (IF x \in taken THEN Tail(rx[x]) ELSE rx[x])
                                    \o IF x \in come THEN <<Arrived(x, bad)>> ELSE <<>>]
        /\ beat' = [x \in Port |-> IF x \in ends THEN 0
                                   ELSE IF x \in taken THEN beat[x] + 1 ELSE beat[x]]
        /\ sel' = IF any THEN SelNext(p, taken = {p}) ELSE sel
        /\ completed' = Counted(start, ends)
        /\ rerr' = Failed(start, wrong)
        /\ Record(start, IF any THEN Written(p, b) ELSE {Handed(x) : x \in given}, bad)
        /\ UNCHANGED <<rd, sk, cnt, owe>>

-----------------------------------------------------------------------------
(***************************************************************************)
(* sa_st.  wrdy: ports whose W handshake happens; resp: ports with a B     *)
(* response, an error one if in bad.                                       *)
(***************************************************************************)

RoomFor(p) == q[p] # <<>> /\ cnt[p] < SD

LastBeat(p) == beat[p] + 1 = Head1(p).beats

\* The local read for port p; lo is asm_lo, the lower lane of a two-read beat.
Read(p) ==
    LET last == LastBeat(p)
        sum  == sum0(p) + (IF upper(p) THEN 1 ELSE 0)
    IN  [port |-> p, word |-> WordOf(p, sum), lane |-> LaneOf(sum), last |-> last,
         merge |-> merge(p, last), upper |-> sel.hold, all |-> whole(p, last),
         strb |-> (IF lower(p) THEN {0} ELSE {}) \cup (IF above(p, last) THEN {1} ELSE {}),
         lo |-> IF sel.hold THEN <<rd.word, rd.lane>> ELSE <<>>]

\* The local lane that feeds position i of the beat of read r.
Source(r, i) ==
    IF i = 1 /\ r.merge THEN <<r.word, (r.lane + 1) % cmd.lpw>>
    ELSE IF i = 0 /\ r.upper THEN r.lo
    ELSE <<r.word, r.lane>>

WBeat(r) == [from |-> [i \in r.strb |-> Source(r, i)], last |-> r.last]

\* The lanes the slave writes when it takes the head of port p's skid.
Stored(p) ==
    LET w == Head(sk[p])
        a == Head(bus[p]).addr + Head(bus[p]).n * BL
    IN  {<<a + i, w.from[i][1], w.from[i][2]>> : i \in DOMAIN w.from}

StoreEdge(start, rdy, wrdy, resp, bad) ==
    LET ready  == {p \in Port : RoomFor(p)}
        any    == sel.hold \/ ready # {}
        p      == Selected(ready)
        all    == any /\ whole(p, LastBeat(p))
        lasts  == {x \in wrdy : Head(sk[x]).last}
        served == [x \in Port |->
                    IF x \in lasts THEN Tail(bus[x])
                    ELSE IF x \in wrdy
                    THEN <<[Head(bus[x]) EXCEPT !.n = @ + 1]>> \o Tail(bus[x])
                    ELSE bus[x]]
    IN  /\ Issue(start, rdy, IF all /\ LastBeat(p) THEN {p} ELSE {}, served, FALSE)
        /\ rd' = IF any THEN Read(p) ELSE NoRead
        /\ sel' = IF any THEN SelNext(p, all) ELSE sel
        /\ beat' = [x \in Port |-> IF all /\ x = p
                                   THEN IF LastBeat(p) THEN 0 ELSE beat[x] + 1
                                   ELSE beat[x]]
        /\ sk' = [x \in Port |->
                    (IF x \in wrdy THEN Tail(sk[x]) ELSE sk[x])
                        \o IF rd # NoRead /\ rd.all /\ rd.port = x THEN <<WBeat(rd)>> ELSE <<>>]
        /\ cnt' = [x \in Port |-> cnt[x] + (IF any /\ ~sel.hold /\ x = p THEN 1 ELSE 0)
                                         - (IF x \in wrdy THEN 1 ELSE 0)]
        /\ owe' = [x \in Port |-> owe[x] + (IF x \in lasts THEN 1 ELSE 0)
                                         - (IF x \in resp THEN 1 ELSE 0)]
        /\ completed' = Counted(start, resp)
        /\ rerr' = Failed(start, bad)
        /\ Record(start, UNION {Stored(x) : x \in wrdy}, bad)
        /\ UNCHANGED rx

-----------------------------------------------------------------------------
DmaInit ==
    /\ todo \in Programs
    /\ cmd = todo[1]
    /\ g = [active |-> FALSE, gen |-> FALSE, rows |-> 0, len |-> 0, r |-> 0, off |-> 0,
            row_ddr |-> 0, row_word |-> 0, cur_word |-> 0, cur_lane |-> 0,
            issued |-> 0, rr |-> 0]
    /\ ch = [p \in Port |-> NoBurst]
    /\ q = [p \in Port |-> <<>>] /\ bus = q /\ rx = q /\ sk = q
    /\ beat = [p \in Port |-> 0] /\ cnt = beat /\ owe = beat
    /\ sel = [rr |-> 0, hold |-> FALSE, port |-> 0]
    /\ completed = 0 /\ rerr = FALSE /\ done = FALSE /\ err = FALSE
    /\ rd = NoRead
    /\ moved = {} /\ lanes = 0 /\ faulty = FALSE

DmaNext ==
    \E start \in {<<>>} \cup (IF ~g.active /\ todo # <<>> THEN {<<Head(todo)>>} ELSE {}),
       rdy \in SUBSET {p \in Port : ch[p] # NoBurst} :
        \/ /\ IsLoad
           /\ \E come \in SUBSET {p \in Port : bus[p] # <<>> /\ Len(rx[p]) < 2} :
              \E bad \in IF TRUE \in CanFail THEN SUBSET come ELSE {{}} :
              \E xready, busy \in IF gmode THEN BOOLEAN ELSE {FALSE} :
                LoadEdge(start, rdy, come, bad, xready, busy)
        \/ /\ ~IsLoad
           /\ \E wrdy \in SUBSET {p \in Port : sk[p] # <<>>},
                 resp \in SUBSET {p \in Port : owe[p] > 0} :
              \E bad \in IF TRUE \in CanFail THEN SUBSET resp ELSE {{}} :
                StoreEdge(start, rdy, wrdy, resp, bad)

DmaSpec == DmaInit /\ [][DmaNext]_vars

-----------------------------------------------------------------------------
(***************************************************************************)
(* Properties.                                                             *)
(***************************************************************************)

\* The lanes of a command, as sa_ld.v's header describes them: where row i,
\* lane k comes from or goes to, without bursts, ports or beats.
Wanted(c) ==
    CASE c.mode = "LINEAR" ->
            {<<c.ddr + i * c.pitch + k, c.word + i * Words(c) + k \div c.lpw, k % c.lpw>> :
                i \in 0 .. c.rows - 1, k \in 0 .. c.len - 1}
      [] c.mode = "INTERLEAVE" ->
            {<<c.ddr + i * c.pitch + k, c.word + (k \div c.lpw) * c.rows + i, k % c.lpw>> :
                i \in 0 .. c.rows - 1, k \in 0 .. c.len - 1}
      [] c.mode = "GEMV" ->
            {<<c.ddr + i * c.pitch + BL * k, i, k>> :
                i \in 0 .. c.rows - 1, k \in 0 .. (c.len \div BL) - 1}

\* No burst crosses 4 KB, none is longer than AXI's 16 beats.
BurstsLegal ==
    \A p \in Port : ch[p] # NoBurst =>
        ch[p].beats \in 1 .. MaxBeats /\ (ch[p].addr % Page) + ch[p].beats * BL <= Page

\* Whatever the order in which the ports answer, a lane goes where it belongs
\* and goes there once: alignment, skipped lanes, page and row ends included.
InPlace == moved \subseteq Wanted(cmd) /\ lanes = Cardinality(moved)

\* done comes when every lane is moved and, for a store, acknowledged, and err
\* reports an error response of this command and of no other.
DoneTrue == done => moved = Wanted(cmd) /\ err = faulty /\ \A p \in Port : owe[p] = 0

\* The bursts of port p that are issued and not ended: with a load until its
\* last beat is taken, with a store until its response.
Out(p) ==
    IF IsLoad THEN Len(q[p])
    ELSE Len(bus[p]) + owe[p] + (IF ch[p] = NoBurst THEN 0 ELSE 1)

\* n is the sum of out over the ports (sum: the partial sums).
Total(out, n) ==
    \E sum \in [0 .. NPORTS -> 0 .. n] :
        /\ sum[0] = 0 /\ sum[NPORTS] = n
        /\ \A p \in Port : sum[p + 1] = sum[p] + out[p]

\* The queues of a port keep in step.  None outgrows its memory: the bursts of q
\* (whose pointers are compared modulo 16) with those an AW still holds, and the
\* W skid with the beats that are still being read.  The W beat a port offers is
\* the last of its burst exactly when the AW of that burst says so.  Each burst
\* is counted once when issued and once when ended, several ports in one cycle
\* included: a count that is lost is a command that never ends, one too many is a
\* done too early.
InStep ==
    /\ \A p \in Port :
          /\ Len(q[p]) <= QD /\ Len(sk[p]) <= cnt[p] /\ cnt[p] <= SD
          /\ sk[p] # <<>> =>
                /\ bus[p] # <<>>
                /\ Head(sk[p]).last = (Head(bus[p]).n + 1 = Head(bus[p]).beats)
    /\ Total([p \in Port |-> Out(p)], g.issued - completed)

=============================================================================
