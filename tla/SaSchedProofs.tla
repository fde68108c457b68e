---------------------------- MODULE SaSchedProofs ----------------------------
(***************************************************************************)
(* Theorems about the scheduler for every queue depth, every set of banks  *)
(* and every set of commands: queues and exclusion, then the in-order      *)
(* program of SaInOrder it implements and the fence that means what it     *)
(* says.                                                                   *)
(***************************************************************************)
EXTENDS SaSchedOrder, SequenceTheorems, TLAPS

\* The queue r is q after p pops and g pushes of d2 (p, g = 0 or 1).
Came(q, r, p, g) ==
    /\ r \in Seq(Cmd)
    /\ Len(r) = Len(q) - p + g
    /\ \A i \in 1 .. Len(q) - p : r[i] = q[i + p]
    /\ g = 1 => r[Len(r)] = d2

Bit(b) == IF b THEN 1 ELSE 0

\* A queue after a pop and a push in one edge (sa_sched.v's eq / mr / mw
\* updates): its length, and where each entry comes from.
LEMMA ShiftedSeq ==
    ASSUME NEW q \in Seq(Cmd), NEW p \in {0, 1}, NEW g \in {0, 1},
           p = 1 => q # <<>>,
           g = 1 => d2 \in Cmd,
           NEW r, r = (IF p = 1 THEN Tail(q) ELSE q) \o (IF g = 1 THEN <<d2>> ELSE <<>>)
    PROVE  Came(q, r, p, g)
<1> DEFINE base == IF p = 1 THEN Tail(q) ELSE q
           tail == IF g = 1 THEN <<d2>> ELSE <<>>
<1>1. /\ base \in Seq(Cmd)
      /\ Len(base) = Len(q) - p
      /\ \A i \in 1 .. Len(q) - p : base[i] = q[i + p]
  <2>1. CASE p = 1
    BY <2>1, HeadTailProperties
  <2>2. CASE p = 0
    BY <2>2
  <2> QED BY <2>1, <2>2
<1>2. tail \in Seq(Cmd) /\ Len(tail) = g /\ (g = 1 => tail[1] = d2)
  <2>1. CASE g = 1
    BY <2>1
  <2>2. CASE g = 0
    BY <2>2, EmptySeq
  <2> QED BY <2>1, <2>2
<1>3. r = base \o tail
  OBVIOUS
<1>4. Len(base) \in Nat /\ Len(q) \in Nat
  BY <1>1
<1> HIDE DEF base, tail
<1>5. /\ base \o tail \in Seq(Cmd)
      /\ Len(base \o tail) = Len(base) + Len(tail)
      /\ \A i \in 1 .. Len(base) + Len(tail) :
            (base \o tail)[i] =
                IF i <= Len(base) THEN base[i] ELSE tail[i - Len(base)]
  BY <1>1, <1>2, ConcatProperties
<1>6. ASSUME NEW i \in 1 .. Len(q) - p
      PROVE  r[i] = q[i + p]
  <2>1. base[i] = q[i + p]
    BY <1>1
  <2>2. i \in 1 .. Len(base) + Len(tail) /\ i <= Len(base)
    BY <1>1, <1>2, <1>4
  <2>3. (base \o tail)[i] = base[i]
    BY <2>2, <1>5
  <2> QED BY <1>3, <2>1, <2>3
<1>7. ASSUME g = 1
      PROVE  r[Len(r)] = d2
  BY <1>1, <1>2, <1>3, <1>4, <1>5, <1>7
<1> QED BY <1>1, <1>2, <1>3, <1>4, <1>5, <1>6, <1>7 DEF Came

-----------------------------------------------------------------------------
\* The inputs of an edge that the environment can offer.
Inputs(in, rdy, dn, bad, ferr) ==
    /\ dn \subseteq CanFinish
    /\ rdy \subseteq CanTake(dn)
    /\ bad \subseteq {"LD", "ST"}
    /\ in \in Cmd \cup {NoCmd}
    /\ in # NoCmd => in_ready
    /\ ferr \in {"none", "SHAPE"}

\* A step of Next is an edge with such inputs.
LEMMA TickInputs ==
    ASSUME Next
    PROVE  \E dn, rdy, bad, in, ferr :
                /\ Inputs(in, rdy, dn, bad, ferr)
                /\ SchedEdge(in, rdy, dn, bad, ferr)
                /\ ClearPulse
<1>0. PICK dn \in SUBSET CanFinish :
        \E rdy \in SUBSET CanTake(dn),
           bad \in SUBSET (IF err THEN {} ELSE dn \cap {"LD", "ST"}),
           in \in (IF in_ready THEN Cmd ELSE {}) \cup {NoCmd},
           ferr \in (IF err THEN {} ELSE {"SHAPE"}) \cup {"none"} :
                Tick(in, rdy, dn, bad, ferr)
  BY Zenon DEF Next
<1>1. PICK rdy \in SUBSET CanTake(dn),
           bad \in SUBSET (IF err THEN {} ELSE dn \cap {"LD", "ST"}),
           in \in (IF in_ready THEN Cmd ELSE {}) \cup {NoCmd},
           ferr \in (IF err THEN {} ELSE {"SHAPE"}) \cup {"none"} :
                Tick(in, rdy, dn, bad, ferr)
  BY <1>0, Zenon
<1>2. Inputs(in, rdy, dn, bad, ferr)
  BY <1>0, <1>1 DEF Inputs
<1>3. SchedEdge(in, rdy, dn, bad, ferr) /\ ClearPulse
  BY <1>1, Zenon DEF Tick
<1> QED BY <1>2, <1>3, Zenon

-----------------------------------------------------------------------------
(***************************************************************************)
(* The inductive invariant.  BankExclusion needs the types, and that a     *)
(* mask queue only holds commands of its own engine (the port rule of      *)
(* hazard is stated on engines, that of Conflict on commands); the bounds  *)
(* and the queue alignment need one another: an engine takes a command     *)
(* only below its capacity, so masks and queues stay aligned.              *)
(***************************************************************************)
IInv == TypeOK /\ Bounded /\ MasksCoverQueue /\ BankExclusion

\* The reset state of sa_sched.v satisfies the invariant.
LEMMA InitIInv ==
    ASSUME Init
    PROVE  IInv
<1> USE DEF Init, SchedInit
<1>1. TypeOK
  <2>1. <<>> \in Seq(Cmd)
    BY EmptySeq
  <2>2. inq \in Seq(Cmd) /\ eq \in [Eng -> Seq(Cmd)] /\ mk \in [Eng -> Seq(Cmd)]
    BY <2>1
  <2>3. d1 \in Cmd \cup {NoCmd} /\ d2 \in Cmd \cup {NoCmd}
    OBVIOUS
  <2>4. err_code \in Code /\ err_eng \in Eng \cup {"FETCH"}
    BY DEF Code, Eng
  <2>5. err \in BOOLEAN /\ clear_error \in BOOLEAN
    BY Zenon
  <2> QED BY <2>2, <2>3, <2>4, <2>5 DEF TypeOK
<1>2. Bounded
  BY SchedAssumption DEF Bounded
<1>3. MasksCoverQueue
  BY DEF MasksCoverQueue, Running, EngCap
<1>4. BankExclusion
  BY DEF BankExclusion
<1> QED BY <1>1, <1>2, <1>3, <1>4 DEF IInv

\* The command at d2 has the fields of a command when it is dispatched.
LEMMA DispatchedCmd ==
    ASSUME TypeOK, dispatch
    PROVE  d2 \in Cmd /\ d2 \in CmdType /\ d2.eng \in Eng
BY SchedAssumption DEF TypeOK, dispatch, CmdType

\* One edge seen from a mask queue or an engine queue: at most one entry
\* leaves, and what enters is the command dispatched in that edge.
LEMMA QueueStep ==
    ASSUME TypeOK, NEW e \in Eng, NEW q \in Seq(Cmd), NEW out, out => q # <<>>,
           NEW r, r = Shifted(q, out, dispatch /\ d2.eng = e)
    PROVE  Came(q, r, Bit(out), Bit(dispatch /\ d2.eng = e))
<1>1. Bit(out) \in {0, 1} /\ (Bit(out) = 1 <=> out)
  BY DEF Bit
<1>2. /\ Bit(dispatch /\ d2.eng = e) \in {0, 1}
      /\ Bit(dispatch /\ d2.eng = e) = 1 <=> dispatch /\ d2.eng = e
  BY DEF Bit
<1>3. Bit(dispatch /\ d2.eng = e) = 1 => d2 \in Cmd
  BY <1>2, DispatchedCmd
<1>4. r = (IF Bit(out) = 1 THEN Tail(q) ELSE q)
            \o (IF Bit(dispatch /\ d2.eng = e) = 1 THEN <<d2>> ELSE <<>>)
  BY <1>1, <1>2 DEF Shifted
<1> HIDE DEF Bit
<1> QED BY <1>1, <1>2, <1>3, <1>4, ShiftedSeq

-----------------------------------------------------------------------------
\* What one edge does to the two queues of engine e: p and t are what leaves
\* the mask queue and the engine queue, g what is dispatched to both.
LEMMA EngineStep ==
    ASSUME IInv, NEW in, NEW rdy, NEW dn, NEW bad, NEW ferr,
           Inputs(in, rdy, dn, bad, ferr), SchedEdge(in, rdy, dn, bad, ferr),
           NEW e \in Eng
    PROVE  \E p, t, g \in {0, 1} :
              /\ Came(mk[e], mk'[e], p, g)
              /\ Came(eq[e], eq'[e], t, g)
              /\ p = 1 => Running(e) > 0
              /\ t = 1 => eq[e] # <<>> /\ Running(e) < EngCap(e) + p
              /\ g = 1 => /\ dispatch /\ d2.eng = e
                          /\ Len(eq[e]) # QENG /\ Len(mk[e]) # QMSK
<1> DEFINE out == e \in rdy /\ eq[e] # <<>>
           go == dispatch /\ d2.eng = e
<1>1. TypeOK /\ eq[e] \in Seq(Cmd) /\ mk[e] \in Seq(Cmd)
  BY DEF IInv, TypeOK
<1>2. e \in dn => Running(e) > 0
  BY DEF Inputs, CanFinish
<1>3. e \in dn => mk[e] # <<>>
  <2> DEFINE m == Len(mk[e])
             q == Len(eq[e])
  <2>1. m \in Nat /\ q \in Nat /\ Running(e) = m - q
    BY <1>1 DEF Running
  <2> HIDE DEF m, q
  <2>2. Running(e) > 0 => m > 0
    BY <2>1
  <2> QED BY <1>1, <1>2, <2>2, EmptySeq DEF m
<1>4. mk'[e] = Shifted(mk[e], e \in dn, go)
  BY Zenon DEF SchedEdge, mk_next
<1>5. eq'[e] = Shifted(eq[e], out, go)
  BY Zenon DEF SchedEdge, eq_next
<1>6. Came(mk[e], mk'[e], Bit(e \in dn), Bit(go))
  BY <1>1, <1>3, <1>4, QueueStep, Zenon
<1>7. Came(eq[e], eq'[e], Bit(out), Bit(go))
  BY <1>1, <1>5, QueueStep, Zenon
<1>8. /\ Bit(e \in dn) \in {0, 1} /\ (Bit(e \in dn) = 1 <=> e \in dn)
      /\ Bit(out) \in {0, 1} /\ (Bit(out) = 1 <=> out)
      /\ Bit(go) \in {0, 1} /\ (Bit(go) = 1 <=> go)
  BY DEF Bit
<1>9. out => Running(e) < EngCap(e) + Bit(e \in dn)
  <2>1. rdy \subseteq CanTake(dn)
    BY DEF Inputs
  <2> QED BY <2>1, <1>8 DEF CanTake, Bit
<1>10. go => Len(eq[e]) # QENG /\ Len(mk[e]) # QMSK
  BY DEF dispatch, e_full, m_full
<1> HIDE DEF out
<1>11. out => eq[e] # <<>>
  BY DEF out
<1> DEFINE pp == Bit(e \in dn)
           tt == Bit(out)
           gg == Bit(go)
<1>12. /\ pp \in {0, 1} /\ tt \in {0, 1} /\ gg \in {0, 1}
       /\ Came(mk[e], mk'[e], pp, gg) /\ Came(eq[e], eq'[e], tt, gg)
       /\ pp = 1 => Running(e) > 0
       /\ tt = 1 => eq[e] # <<>> /\ Running(e) < EngCap(e) + pp
       /\ gg = 1 => /\ dispatch /\ d2.eng = e
                    /\ Len(eq[e]) # QENG /\ Len(mk[e]) # QMSK
  BY <1>2, <1>6, <1>7, <1>8, <1>9, <1>10, <1>11, Zenon
<1> HIDE DEF pp, tt, gg
<1> QED BY <1>12, Zenon

\* No queue overflows in an edge: a dispatch checks both queues of its engine,
\* a push to the FIFO needs in_ready.
LEMMA StepBounded ==
    ASSUME IInv, NEW in, NEW rdy, NEW dn, NEW bad, NEW ferr,
           Inputs(in, rdy, dn, bad, ferr), SchedEdge(in, rdy, dn, bad, ferr)
    PROVE  Bounded'
<1>1. ASSUME NEW e \in Eng
      PROVE  Len(eq'[e]) <= QENG /\ Len(mk'[e]) <= QMSK
  <2>1. PICK p, t, g \in {0, 1} :
            /\ Came(mk[e], mk'[e], p, g)
            /\ Came(eq[e], eq'[e], t, g)
            /\ g = 1 => Len(eq[e]) # QENG /\ Len(mk[e]) # QMSK
    BY EngineStep
  <2>2. Len(eq[e]) \in Nat /\ Len(mk[e]) \in Nat
    BY DEF IInv, TypeOK
  <2>3. Len(eq[e]) <= QENG /\ Len(mk[e]) <= QMSK
    BY DEF IInv, Bounded
  <2> QED BY <2>1, <2>2, <2>3, SchedAssumption, SMTT(30) DEF Came
<1>2. Len(inq') <= QIN
  <2> DEFINE base == IF fifo_pop THEN Tail(inq) ELSE inq
             push == IF in # NoCmd /\ in_ready THEN <<in>> ELSE <<>>
  <2>1. inq \in Seq(Cmd) /\ Len(inq) <= QIN
    BY DEF IInv, TypeOK, Bounded
  <2>2. base \in Seq(Cmd) /\ Len(base) <= Len(inq)
    BY <2>1, HeadTailProperties DEF fifo_pop
  <2>3. /\ push \in Seq(Cmd) /\ Len(push) <= 1
        /\ Len(push) = 1 => Len(inq) # QIN
    <3>1. CASE in # NoCmd /\ in_ready
      BY <3>1 DEF in_ready, Inputs
    <3>2. CASE ~(in # NoCmd /\ in_ready)
      BY <3>2, EmptySeq
    <3> QED BY <3>1, <3>2
  <2>4. inq' = IF clear_error THEN <<>> ELSE base \o push
    BY Zenon DEF SchedEdge, inq_next
  <2> HIDE DEF base, push
  <2>5. base \o push \in Seq(Cmd) /\ Len(base \o push) = Len(base) + Len(push)
    BY <2>2, <2>3, ConcatProperties
  <2> DEFINE b == Len(base)
             n == Len(push)
             q == Len(inq)
  <2>6. /\ b \in Nat /\ n \in Nat /\ q \in Nat /\ QIN \in Nat
        /\ b <= q /\ n <= 1 /\ q <= QIN /\ (n = 1 => q # QIN)
        /\ Len(base \o push) = b + n
    BY <2>1, <2>2, <2>3, <2>5, SchedAssumption
  <2> HIDE DEF b, n, q
  <2>7. b + n <= QIN
    BY <2>6
  <2> QED BY <2>4, <2>6, <2>7, EmptySeq
<1> QED BY <1>1, <1>2 DEF Bounded

\* Masks and queues stay aligned: what a dispatch appends to both, and what an
\* engine takes or finishes, keep the queue the tail of the masks.
LEMMA StepMasks ==
    ASSUME IInv, NEW in, NEW rdy, NEW dn, NEW bad, NEW ferr,
           Inputs(in, rdy, dn, bad, ferr), SchedEdge(in, rdy, dn, bad, ferr)
    PROVE  MasksCoverQueue'
<1> SUFFICES ASSUME NEW e \in Eng
             PROVE  /\ Len(eq'[e]) <= Len(mk'[e])
                    /\ Running(e)' <= EngCap(e)
                    /\ \A i \in 1 .. Len(eq'[e]) : mk'[e][Running(e)' + i] = eq'[e][i]
                    /\ \A i \in 1 .. Len(mk'[e]) : mk'[e][i].eng = e
  BY DEF MasksCoverQueue
<1>1. PICK p, t, g \in {0, 1} :
          /\ Came(mk[e], mk'[e], p, g)
          /\ Came(eq[e], eq'[e], t, g)
          /\ p = 1 => Running(e) > 0
          /\ t = 1 => eq[e] # <<>> /\ Running(e) < EngCap(e) + p
          /\ g = 1 => dispatch /\ d2.eng = e
  BY EngineStep
<1> DEFINE m == Len(mk[e])
           q == Len(eq[e])
           m2 == Len(mk'[e])
           q2 == Len(eq'[e])
           cap == EngCap(e)
<1>2. /\ m \in Nat /\ q \in Nat /\ q <= m /\ m - q <= cap /\ cap \in Nat
      /\ \A i \in 1 .. q : mk[e][(m - q) + i] = eq[e][i]
      /\ \A i \in 1 .. m : mk[e][i].eng = e
  BY DEF IInv, TypeOK, MasksCoverQueue, Running, EngCap
<1>3. /\ m2 = m - p + g
      /\ q2 = q - t + g
      /\ \A i \in 1 .. m - p : mk'[e][i] = mk[e][i + p]
      /\ \A i \in 1 .. q - t : eq'[e][i] = eq[e][i + t]
      /\ g = 1 => mk'[e][m2] = d2 /\ eq'[e][q2] = d2
  BY <1>1 DEF Came
<1>4. /\ p = 1 => m - q > 0
      /\ t = 1 => m - q < cap + p /\ q > 0
  BY <1>1, <1>2, EmptySeq DEF Running, IInv, TypeOK
<1>5. Running(e)' = m2 - q2
  BY DEF Running, Eng
<1>6. g = 1 => d2.eng = e
  BY <1>1
<1> HIDE DEF m, q, m2, q2, cap
<1>7. q2 <= m2 /\ m2 - q2 <= cap /\ m2 \in Int /\ q2 \in Int
  BY <1>2, <1>3, <1>4
<1>8. ASSUME NEW i \in 1 .. q2
      PROVE  mk'[e][(m2 - q2) + i] = eq'[e][i]
  <2>1. CASE i <= q - t
    <3>1. i \in 1 .. q - t /\ i + t \in 1 .. q
      BY <2>1, <1>2, <1>3
    <3>2. eq'[e][i] = mk[e][(m - q) + (i + t)]
      BY <3>1, <1>2, <1>3
    <3>3. (m2 - q2) + i \in 1 .. m - p
      BY <3>1, <1>2, <1>3, <1>4
    <3>4. mk'[e][(m2 - q2) + i] = mk[e][(m2 - q2) + i + p]
      BY <3>3, <1>3
    <3>5. (m2 - q2) + i + p = (m - q) + (i + t)
      BY <3>1, <1>2, <1>3
    <3> QED BY <3>2, <3>4, <3>5
  <2>2. CASE ~(i <= q - t)
    <3>1. g = 1 /\ i = q2 /\ (m2 - q2) + i = m2
      BY <2>2, <1>2, <1>3, <1>7
    <3> QED BY <3>1, <1>3
  <2> QED BY <2>1, <2>2
<1>9. ASSUME NEW i \in 1 .. m2
      PROVE  mk'[e][i].eng = e
  <2>1. CASE i <= m - p
    <3>1. i \in 1 .. m - p /\ i + p \in 1 .. m
      BY <2>1, <1>2
    <3> QED BY <3>1, <1>2, <1>3
  <2>2. CASE ~(i <= m - p)
    <3>1. g = 1 /\ i = m2
      BY <2>2, <1>2, <1>3
    <3> QED BY <3>1, <1>3, <1>6
  <2> QED BY <2>1, <2>2
<1> QED BY <1>5, <1>7, <1>8, <1>9 DEF m2, q2, cap

\* Where a mask comes from: it was there before, or it is the command
\* dispatched in this edge.
LEMMA MaskOrigin ==
    ASSUME IInv, NEW in, NEW rdy, NEW dn, NEW bad, NEW ferr,
           Inputs(in, rdy, dn, bad, ferr), SchedEdge(in, rdy, dn, bad, ferr),
           NEW e \in Eng, NEW i \in 1 .. Len(mk'[e])
    PROVE  \/ \E k \in 1 .. Len(mk[e]) : mk'[e][i] = mk[e][k]
           \/ dispatch /\ d2.eng = e /\ mk'[e][i] = d2
<1>1. PICK p, t, g \in {0, 1} :
          /\ Came(mk[e], mk'[e], p, g)
          /\ g = 1 => dispatch /\ d2.eng = e
  BY EngineStep
<1> DEFINE m == Len(mk[e])
           m2 == Len(mk'[e])
<1>2. /\ m \in Nat /\ m2 = m - p + g /\ i \in 1 .. m2
      /\ \A j \in 1 .. m - p : mk'[e][j] = mk[e][j + p]
      /\ g = 1 => mk'[e][m2] = d2
  BY <1>1 DEF Came, IInv, TypeOK
<1> HIDE DEF m, m2
<1>3. CASE i <= m - p
  <2>1. i \in 1 .. m - p /\ i + p \in 1 .. m
    BY <1>2, <1>3
  <2>2. mk'[e][i] = mk[e][i + p]
    BY <2>1, <1>2
  <2> QED BY <2>1, <2>2 DEF m
<1>4. CASE ~(i <= m - p)
  <2>1. g = 1 /\ i = m2
    BY <1>2, <1>4
  <2> QED BY <2>1, <1>1, <1>2
<1> QED BY <1>3, <1>4

\* What the scoreboard checks at dispatch is Conflict with every command in
\* flight on another engine.
LEMMA DispatchSafe ==
    ASSUME IInv, dispatch, NEW o \in Eng, o # d2.eng, NEW k \in 1 .. Len(mk[o])
    PROVE  ~Conflict(d2, mk[o][k]) /\ ~Conflict(mk[o][k], d2)
<1> DEFINE c == mk[o][k]
<1>1. c \in Cmd /\ c.eng = o
  BY DEF IInv, TypeOK, MasksCoverQueue
<1>2. c.r \subseteq eng_r(o) /\ c.w \subseteq eng_w(o)
  BY DEF eng_r, eng_w
<1>3. o \in Eng \ {d2.eng} /\ ~hazard(d2)
  BY DEF dispatch
<1>4. /\ d2.r \cap eng_w(o) = {}
      /\ d2.w \cap eng_r(o) = {}
      /\ d2.w \cap eng_w(o) = {}
      /\ SharesPorts(d2.eng, o) =>
            (d2.r \cup d2.w) \cap (eng_r(o) \cup eng_w(o)) = {}
  BY <1>3, Zenon DEF hazard
<1>5. SharesPorts(d2.eng, c.eng) <=> SharesPorts(c.eng, d2.eng)
  BY DEF SharesPorts
<1> HIDE DEF c
<1>6. /\ d2.r \cap c.w = {} /\ d2.w \cap c.r = {} /\ d2.w \cap c.w = {}
  BY <1>2, <1>4
<1>7. SharesPorts(d2.eng, c.eng) => (d2.r \cup d2.w) \cap (c.r \cup c.w) = {}
  BY <1>1, <1>2, <1>4
<1>8. ~Conflict(d2, c)
  BY <1>6, <1>7, Zenon DEF Conflict
<1>9. c.r \cap d2.w = {} /\ c.w \cap d2.r = {} /\ c.w \cap d2.w = {}
  BY <1>6
<1>10. SharesPorts(c.eng, d2.eng) => (c.r \cup c.w) \cap (d2.r \cup d2.w) = {}
  BY <1>5, <1>7
<1>11. ~Conflict(c, d2)
  BY <1>9, <1>10, Zenon DEF Conflict
<1> QED BY <1>8, <1>11 DEF c

\* Exclusion survives an edge: of two entries on different engines at most one
\* is the command dispatched in this edge, and hazard compared it with the other.
LEMMA StepExclusion ==
    ASSUME IInv, NEW in, NEW rdy, NEW dn, NEW bad, NEW ferr,
           Inputs(in, rdy, dn, bad, ferr), SchedEdge(in, rdy, dn, bad, ferr)
    PROVE  BankExclusion'
<1> SUFFICES ASSUME NEW e \in Eng, NEW o \in Eng, e # o,
                    NEW i \in 1 .. Len(mk'[e]), NEW j \in 1 .. Len(mk'[o])
             PROVE  ~Conflict(mk'[e][i], mk'[o][j])
  BY DEF BankExclusion, Conflict, SharesPorts
<1> DEFINE c == mk'[e][i]
           d == mk'[o][j]
<1>1. \/ \E k \in 1 .. Len(mk[e]) : c = mk[e][k]
      \/ dispatch /\ d2.eng = e /\ c = d2
  BY MaskOrigin
<1>2. \/ \E k \in 1 .. Len(mk[o]) : d = mk[o][k]
      \/ dispatch /\ d2.eng = o /\ d = d2
  BY MaskOrigin
<1> HIDE DEF c, d
<1>3. ASSUME NEW k \in 1 .. Len(mk[e]), c = mk[e][k],
             NEW l \in 1 .. Len(mk[o]), d = mk[o][l]
      PROVE  ~Conflict(c, d)
  BY <1>3, Zenon DEF IInv, BankExclusion
<1>4. ASSUME NEW k \in 1 .. Len(mk[e]), c = mk[e][k],
             dispatch, d2.eng = o, d = d2
      PROVE  ~Conflict(c, d)
  BY <1>4, DispatchSafe, Zenon
<1>5. ASSUME dispatch, d2.eng = e, c = d2,
             NEW l \in 1 .. Len(mk[o]), d = mk[o][l]
      PROVE  ~Conflict(c, d)
  BY <1>5, DispatchSafe, Zenon
<1>6. ~Conflict(c, d)
  BY <1>1, <1>2, <1>3, <1>4, <1>5, Zenon
<1> QED BY <1>6, Zenon DEF c, d

\* Types survive an edge.
LEMMA StepTypes ==
    ASSUME IInv, NEW in, NEW rdy, NEW dn, NEW bad, NEW ferr,
           Inputs(in, rdy, dn, bad, ferr), SchedEdge(in, rdy, dn, bad, ferr),
           ClearPulse
    PROVE  TypeOK'
<1>0. TypeOK
  BY DEF IInv
<1>1. eq' \in [Eng -> Seq(Cmd)] /\ mk' \in [Eng -> Seq(Cmd)]
  <2>1. ASSUME NEW e \in Eng
        PROVE  eq'[e] \in Seq(Cmd) /\ mk'[e] \in Seq(Cmd)
    BY EngineStep DEF Came
  <2>2. eq' = [e \in Eng |-> eq'[e]] /\ mk' = [e \in Eng |-> mk'[e]]
    BY DEF SchedEdge, eq_next, mk_next
  <2> QED BY <2>1, <2>2
<1>2. inq' \in Seq(Cmd)
  <2> DEFINE base == IF fifo_pop THEN Tail(inq) ELSE inq
             push == IF in # NoCmd /\ in_ready THEN <<in>> ELSE <<>>
  <2>1. base \in Seq(Cmd)
    BY <1>0, HeadTailProperties DEF fifo_pop, TypeOK
  <2>2. push \in Seq(Cmd)
    BY EmptySeq DEF Inputs
  <2>3. inq' = IF clear_error THEN <<>> ELSE base \o push
    BY Zenon DEF SchedEdge, inq_next
  <2> HIDE DEF base, push
  <2> QED BY <2>1, <2>2, <2>3, ConcatProperties, EmptySeq
<1>3. d1' \in Cmd \cup {NoCmd}
  <2>1. fifo_pop => Head(inq) \in Cmd
    BY <1>0, HeadTailProperties DEF fifo_pop, TypeOK
  <2>2. d1' \in {NoCmd, d1} \/ (fifo_pop /\ d1' = Head(inq))
    BY Zenon DEF SchedEdge, d1_next
  <2> QED BY <1>0, <2>1, <2>2 DEF TypeOK
<1>4. d2' \in Cmd \cup {NoCmd}
  <2>1. d2' \in {NoCmd, d1, d2}
    BY Zenon DEF SchedEdge, d2_next
  <2> QED BY <1>0, <2>1 DEF TypeOK
<1>5. err' \in BOOLEAN
  BY <1>0, Zenon DEF SchedEdge, SchedError, TypeOK
<1>6. err_code' \in Code /\ err_eng' \in Eng \cup {"FETCH"}
  <2> DEFINE raised == ~err /\ (reject \/ bad # {} \/ ferr # "none")
             new == NewError(bad, ferr)
  <2>1. /\ err_code' = IF raised THEN new.code ELSE err_code
        /\ err_eng' = IF raised THEN new.eng ELSE err_eng
    BY Zenon DEF SchedEdge, SchedError
  <2>2. ASSUME raised
        PROVE  new.code \in Code /\ new.eng \in Eng \cup {"FETCH"}
    <3>1. CASE ferr # "none"
      BY <3>1 DEF NewError, Inputs, Code
    <3>2. CASE ferr = "none" /\ bad \cap {"ST", "LD"} # {}
      BY <3>2 DEF NewError, Code, Eng
    <3>3. CASE ferr = "none" /\ bad \cap {"ST", "LD"} = {}
      <4>1. new = [code |-> d2.code, eng |-> d2.eng]
        BY <3>3 DEF NewError
      <4>2. bad = {} /\ reject
        BY <2>2, <3>3 DEF Inputs
      <4>3. d2 \in Cmd
        BY <1>0, <4>2 DEF reject, TypeOK
      <4> QED BY <4>1, <4>3, SchedAssumption DEF CmdType
    <3> QED BY <3>1, <3>2, <3>3
  <2> HIDE DEF raised, new
  <2>3. err_code \in Code /\ err_eng \in Eng \cup {"FETCH"}
    BY <1>0 DEF TypeOK
  <2> QED BY <2>1, <2>2, <2>3, Zenon
<1>7. clear_error' \in BOOLEAN
  BY Zenon DEF ClearPulse
<1> QED BY <1>1, <1>2, <1>3, <1>4, <1>5, <1>6, <1>7, Zenon DEF TypeOK

-----------------------------------------------------------------------------
\* The invariant is inductive.
LEMMA StepIInv ==
    ASSUME IInv, [Next]_vars
    PROVE  IInv'
<1>1. CASE Next
  <2>1. PICK dn, rdy, bad, in, ferr :
            /\ Inputs(in, rdy, dn, bad, ferr)
            /\ SchedEdge(in, rdy, dn, bad, ferr)
            /\ ClearPulse
    BY <1>1, TickInputs
  <2>2. TypeOK'
    BY <2>1, StepTypes
  <2>3. Bounded'
    BY <2>1, StepBounded
  <2>4. MasksCoverQueue'
    BY <2>1, StepMasks
  <2>5. BankExclusion'
    BY <2>1, StepExclusion
  <2> QED BY <2>2, <2>3, <2>4, <2>5 DEF IInv
<1>2. CASE UNCHANGED vars
  <2>1. TypeOK'
    BY <1>2 DEF IInv, TypeOK, vars, schedVars
  <2>2. Bounded'
    BY <1>2 DEF IInv, Bounded, vars, schedVars
  <2>3. MasksCoverQueue'
    BY <1>2 DEF IInv, MasksCoverQueue, Running, vars, schedVars
  <2>4. BankExclusion'
    <3>1. mk' = mk
      BY <1>2 DEF vars, schedVars
    <3> SUFFICES ASSUME NEW e \in Eng, NEW o \in Eng, e # o,
                        NEW i \in 1 .. Len(mk'[e]), NEW j \in 1 .. Len(mk'[o])
                 PROVE  ~Conflict(mk'[e][i], mk'[o][j])
      BY DEF BankExclusion, Conflict, SharesPorts
    <3> QED BY <3>1, Zenon DEF IInv, BankExclusion
  <2> QED BY <2>1, <2>2, <2>3, <2>4 DEF IInv
<1> QED BY <1>1, <1>2

\* Every reachable state of the scheduler satisfies the invariant.
THEOREM Inductive == Spec => []IInv
<1>1. Init => IInv
  BY InitIInv
<1>2. IInv /\ [Next]_vars => IInv'
  BY StepIInv
<1> QED BY <1>1, <1>2, PTL DEF Spec

\* The registers of sa_sched.v keep their types.
THEOREM TypeCorrect == Spec => []TypeOK
<1>1. IInv => TypeOK
  BY DEF IInv
<1> QED BY <1>1, Inductive, PTL

\* sa_sched.v's FIFOs never overflow: a push never meets a full memory, so the
\* wrapping pointers always mean what the sequences of the model mean.
THEOREM QueuesBounded == Spec => []Bounded
<1>1. IInv => Bounded
  BY DEF IInv
<1> QED BY <1>1, Inductive, PTL

\* The masks of sa_sched.v cover everything an engine still has to do.
THEOREM MasksCover == Spec => []MasksCoverQueue
<1>1. IInv => MasksCoverQueue
  BY DEF IInv
<1> QED BY <1>1, Inductive, PTL

\* The scoreboard of sa_sched.v is sufficient: whatever the program, the
\* depths of the queues and the timing of the engines, two engines never have
\* conflicting accesses to a bank in flight.
THEOREM Exclusion == Spec => []BankExclusion
<1>1. IInv => BankExclusion
  BY DEF IInv
<1> QED BY <1>1, Inductive, PTL


-----------------------------------------------------------------------------
(* Sequences without one entry. *)

\* The sequence s without its entry at p.
LEMMA Removed ==
    ASSUME NEW s \in Seq(Cmd), NEW p \in 1 .. Len(s)
    PROVE  /\ RemoveAt(s, p) \in Seq(Cmd)
           /\ Len(RemoveAt(s, p)) = Len(s) - 1
           /\ \A i \in 1 .. Len(s) - 1 :
                RemoveAt(s, p)[i] = IF i < p THEN s[i] ELSE s[i + 1]
<1> DEFINE a == SubSeq(s, 1, p - 1)
           z == SubSeq(s, p + 1, Len(s))
           n == Len(s)
<1>1. n \in Nat /\ p \in 1 .. n
  OBVIOUS
<1>2. a \in Seq(Cmd) /\ Len(a) = p - 1 /\ \A i \in 1 .. p - 1 : a[i] = s[i]
  BY <1>1
<1>3. z \in Seq(Cmd) /\ Len(z) = n - p /\ \A i \in 1 .. n - p : z[i] = s[p + i]
  BY <1>1
<1> HIDE DEF a, z, n
<1>4. /\ a \o z \in Seq(Cmd)
      /\ Len(a \o z) = Len(a) + Len(z)
      /\ \A i \in 1 .. Len(a) + Len(z) :
            (a \o z)[i] = IF i <= Len(a) THEN a[i] ELSE z[i - Len(a)]
  BY <1>2, <1>3, ConcatProperties
<1>5. RemoveAt(s, p) = a \o z
  BY DEF RemoveAt, a, z
<1>6. Len(a \o z) = n - 1
  BY <1>1, <1>2, <1>3, <1>4
<1>7. ASSUME NEW i \in 1 .. n - 1
      PROVE  (a \o z)[i] = IF i < p THEN s[i] ELSE s[i + 1]
  <2>1. i \in 1 .. Len(a) + Len(z)
    BY <1>1, <1>2, <1>3
  <2>2. CASE i < p
    <3>1. i <= Len(a) /\ i \in 1 .. p - 1
      BY <1>1, <1>2, <2>2
    <3> QED BY <1>2, <1>4, <2>1, <2>2, <3>1
  <2>3. CASE ~(i < p)
    <3>1. ~(i <= Len(a)) /\ i - Len(a) \in 1 .. n - p /\ p + (i - Len(a)) = i + 1
      BY <1>1, <1>2, <2>3
    <3> QED BY <1>3, <1>4, <2>1, <2>3, <3>1
  <2> QED BY <2>2, <2>3
<1> QED BY <1>4, <1>5, <1>6, <1>7 DEF n

\* Removing the first entry equal to v, when it is at p.
LEMMA FirstEqual ==
    ASSUME NEW s \in Seq(Cmd), NEW p \in 1 .. Len(s), NEW v, s[p] = v,
           \A i \in 1 .. Len(s) : s[i] = v => p <= i
    PROVE  RemoveFirst(s, v) = RemoveAt(s, p)
<1> DEFINE I == {i \in 1 .. Len(s) : s[i] = v}
<1>1. \E i \in 1 .. Len(s) : s[i] = v
  OBVIOUS
<1>2. Len(s) \in Nat
  OBVIOUS
<1>3. Min(I) = p
  BY <1>2 DEF Min
<1>4. I # {}
  BY <1>1
<1>5. SelectInSeq(s, LAMBDA x : x = v) = Min(I)
  BY <1>4 DEF SelectInSeq
<1> QED BY <1>1, <1>3, <1>5, Zenon DEF RemoveFirst

\* An engine finishes its oldest command in the abstract program, which is at p.
LEMMA FirstOfEngine ==
    ASSUME NEW s \in Seq(Cmd), NEW p \in 1 .. Len(s), NEW e, NEW dn, e \in dn,
           s[p].eng = e, \A i \in 1 .. Len(s) : s[i].eng = e => p <= i
    PROVE  P!Finish(s, e, dn) = RemoveAt(s, p)
<1> DEFINE I == {i \in 1 .. Len(s) : s[i].eng = e}
<1>1. \E i \in 1 .. Len(s) : s[i].eng = e
  OBVIOUS
<1>2. Len(s) \in Nat
  OBVIOUS
<1>3. P!Min(I) = p
  BY <1>2 DEF P!Min
<1>4. I # {}
  BY <1>1
<1>5. P!SelectInSeq(s, LAMBDA x : x.eng = e) = P!Min(I)
  BY <1>4 DEF P!SelectInSeq
<1>6. P!RemoveFirstMatch(s, LAMBDA x : x.eng = e) = P!RemoveAt(s, p)
  BY <1>1, <1>3, <1>5, Zenon DEF P!RemoveFirstMatch
<1>7. P!RemoveAt(s, p) = RemoveAt(s, p)
  BY DEF P!RemoveAt, RemoveAt
<1> QED BY <1>6, <1>7, Zenon DEF P!Finish

-----------------------------------------------------------------------------
(***************************************************************************)
(* The mask queue of an engine is what disp holds of that engine, in       *)
(* order: pos lists where.  This is what splitting the program over four   *)
(* queues keeps, and the invariant the refinement rests on.                *)
(***************************************************************************)
Placed(s, q, e, pos) ==
    /\ pos \in [1 .. Len(q) -> 1 .. Len(s)]
    /\ \A i, j \in 1 .. Len(q) : i < j => pos[i] < pos[j]
    /\ \A i \in 1 .. Len(q) : s[pos[i]] = q[i]
    /\ \A k \in 1 .. Len(s) : s[k].eng = e => \E i \in 1 .. Len(q) : pos[i] = k

\* q holds the commands of engine e in s.
Part(s, q, e) ==
    /\ q \in Seq(Cmd)
    /\ \A i \in 1 .. Len(q) : q[i].eng = e
    /\ \E pos : Placed(s, q, e, pos)

\* The oldest command of an engine: where it is in s, and that both ways to
\* remove it, as the head of the mask queue and as the engine's first, agree.
LEMMA OldestOf ==
    ASSUME NEW s \in Seq(Cmd), NEW q, NEW e, Part(s, q, e), q # <<>>,
           NEW pos, Placed(s, q, e, pos), NEW dn, e \in dn
    PROVE  /\ pos[1] \in 1 .. Len(s)
           /\ RemoveFirst(s, Head(q)) = RemoveAt(s, pos[1])
           /\ P!Finish(s, e, dn) = RemoveAt(s, pos[1])
<1> DEFINE p == pos[1]
<1>1. q \in Seq(Cmd) /\ Len(q) \in Nat /\ Len(q) > 0 /\ 1 \in 1 .. Len(q)
  BY EmptySeq DEF Part
<1>2. p \in 1 .. Len(s) /\ s[p] = q[1] /\ Len(s) \in Nat
  BY <1>1 DEF Placed
<1>3. Head(q) = q[1] /\ q[1].eng = e
  BY <1>1 DEF Part
<1>4. ASSUME NEW i \in 1 .. Len(s), s[i].eng = e
      PROVE  p <= i
  <2>1. PICK j \in 1 .. Len(q) : pos[j] = i
    BY <1>4 DEF Placed
  <2>2. j = 1 \/ 1 < j
    BY <1>1
  <2>3. 1 < j => p < i
    BY <1>1, <2>1 DEF Placed
  <2> QED BY <1>2, <2>1, <2>2, <2>3
<1>5. RemoveFirst(s, Head(q)) = RemoveAt(s, p)
  BY <1>2, <1>3, <1>4, FirstEqual
<1>6. P!Finish(s, e, dn) = RemoveAt(s, p)
  BY <1>2, <1>3, <1>4, FirstOfEngine
<1> QED BY <1>2, <1>5, <1>6

\* What is left of the engine that finished its oldest command...
LEMMA PartOwn ==
    ASSUME NEW s \in Seq(Cmd), NEW q, NEW e, Part(s, q, e), q # <<>>,
           NEW pos, Placed(s, q, e, pos)
    PROVE  Part(RemoveAt(s, pos[1]), Tail(q), e)
<1> DEFINE p == pos[1]
           t == RemoveAt(s, p)
           n == Len(s)
           m == Len(q)
           new == [i \in 1 .. m - 1 |-> pos[i + 1] - 1]
           r == Tail(q)
<1>1. q \in Seq(Cmd) /\ m \in Nat /\ m > 0 /\ n \in Nat /\ p \in 1 .. n
  BY EmptySeq DEF Part, Placed
<1>2. r \in Seq(Cmd) /\ Len(r) = m - 1 /\ \A i \in 1 .. m - 1 : r[i] = q[i + 1]
  BY <1>1, HeadTailProperties
<1>3. t \in Seq(Cmd) /\ Len(t) = n - 1 /\ \A i \in 1 .. n - 1 : t[i] = IF i < p THEN s[i] ELSE s[i + 1]
  BY <1>1, Removed
<1>4. /\ pos \in [1 .. m -> 1 .. n]
      /\ \A i, j \in 1 .. m : i < j => pos[i] < pos[j]
      /\ \A i \in 1 .. m : s[pos[i]] = q[i]
      /\ \A k \in 1 .. n : s[k].eng = e => \E i \in 1 .. m : pos[i] = k
  BY DEF Placed
<1>5. \A i \in 1 .. m : q[i].eng = e
  BY DEF Part
<1> HIDE DEF t, n, m, r
<1>6. ASSUME NEW i \in 1 .. m - 1
      PROVE  /\ i + 1 \in 1 .. m /\ pos[i + 1] \in 1 .. n /\ p < pos[i + 1]
             /\ new[i] \in 1 .. n - 1 /\ new[i] = pos[i + 1] - 1
             /\ t[new[i]] = r[i] /\ r[i].eng = e
  <2>1. i + 1 \in 1 .. m /\ 1 \in 1 .. m /\ 1 < i + 1
    BY <1>1
  <2>2. pos[i + 1] \in 1 .. n /\ p < pos[i + 1]
    BY <1>4, <2>1
  <2>3. new[i] = pos[i + 1] - 1 /\ new[i] \in 1 .. n - 1 /\ ~(new[i] < p) /\ new[i] + 1 = pos[i + 1]
    BY <1>1, <2>2
  <2>4. t[new[i]] = s[pos[i + 1]]
    BY <1>3, <2>3
  <2>5. r[i] = q[i + 1] /\ q[i + 1].eng = e
    BY <1>2, <1>5, <2>1
  <2> QED BY <1>4, <2>1, <2>2, <2>3, <2>4, <2>5
<1> DEFINE w == new
<1>7. w \in [1 .. m - 1 -> 1 .. n - 1]
  BY <1>6
<1>8. ASSUME NEW i \in 1 .. m - 1, NEW j \in 1 .. m - 1, i < j
      PROVE  w[i] < w[j]
  <2>1. i + 1 < j + 1 /\ i + 1 \in 1 .. m /\ j + 1 \in 1 .. m
    BY <1>1, <1>8
  <2>2. pos[i + 1] < pos[j + 1]
    BY <1>4, <2>1
  <2> HIDE DEF new
  <2>3. pos[i + 1] \in 1 .. n /\ new[i] = pos[i + 1] - 1
    BY <1>6, Zenon
  <2>4. pos[j + 1] \in 1 .. n /\ new[j] = pos[j + 1] - 1
    BY <1>6, Zenon
  <2>5. new[i] < new[j]
    BY <1>1, <2>2, <2>3, <2>4
  <2> QED BY <2>5
<1>9. ASSUME NEW k \in 1 .. n - 1, t[k].eng = e
      PROVE  \E i \in 1 .. m - 1 : w[i] = k
  <2> DEFINE old == IF k < p THEN k ELSE k + 1
  <2>1. old \in 1 .. n /\ s[old].eng = e /\ old # p
    BY <1>1, <1>3, <1>9
  <2>2. PICK i \in 1 .. m : pos[i] = old
    BY <1>4, <2>1
  <2>3. i # 1
    BY <2>1, <2>2
  <2>4. 1 < i /\ 1 \in 1 .. m
    BY <1>1, <2>3
  <2>5. p < old
    BY <1>4, <2>2, <2>4
  <2>6. old = k + 1
    BY <1>1, <2>5
  <2>7. i - 1 \in 1 .. m - 1 /\ (i - 1) + 1 = i
    BY <1>1, <2>4
  <2>8. w[i - 1] = pos[i] - 1
    BY <1>6, <2>7
  <2> QED BY <2>2, <2>6, <2>7, <2>8
<1> HIDE DEF w, new
<1>10. Placed(t, r, e, w)
  BY <1>2, <1>3, <1>6, <1>7, <1>8, <1>9 DEF Placed, w
<1>11. \A i \in 1 .. Len(r) : r[i].eng = e
  BY <1>2, <1>6
<1> QED BY <1>2, <1>10, <1>11 DEF Part, t, r

\* ... and of the others.
LEMMA PartOther ==
    ASSUME NEW s \in Seq(Cmd), NEW p \in 1 .. Len(s), NEW q, NEW o, Part(s, q, o),
           s[p].eng # o
    PROVE  Part(RemoveAt(s, p), q, o)
<1> DEFINE t == RemoveAt(s, p)
           n == Len(s)
           m == Len(q)
<1>1. q \in Seq(Cmd) /\ m \in Nat /\ n \in Nat /\ p \in 1 .. n
  BY DEF Part
<1>2. t \in Seq(Cmd) /\ Len(t) = n - 1 /\ \A i \in 1 .. n - 1 : t[i] = IF i < p THEN s[i] ELSE s[i + 1]
  BY Removed
<1>3. \A i \in 1 .. m : q[i].eng = o
  BY DEF Part
<1>4. PICK pos :
      /\ pos \in [1 .. m -> 1 .. n]
      /\ \A i, j \in 1 .. m : i < j => pos[i] < pos[j]
      /\ \A i \in 1 .. m : s[pos[i]] = q[i]
      /\ \A k \in 1 .. n : s[k].eng = o => \E i \in 1 .. m : pos[i] = k
  BY DEF Placed, Part
<1> DEFINE w == [i \in 1 .. m |-> IF pos[i] < p THEN pos[i] ELSE pos[i] - 1]
<1> HIDE DEF t, n, m
<1>5. ASSUME NEW i \in 1 .. m
      PROVE  /\ pos[i] \in 1 .. n /\ pos[i] # p
             /\ w[i] = (IF pos[i] < p THEN pos[i] ELSE pos[i] - 1)
             /\ w[i] \in 1 .. n - 1
             /\ t[w[i]] = q[i]
  <2>1. pos[i] \in 1 .. n /\ s[pos[i]] = q[i]
    BY <1>4
  <2>2. pos[i] # p
    BY <1>3, <2>1
  <2>3. w[i] = (IF pos[i] < p THEN pos[i] ELSE pos[i] - 1) /\ w[i] \in 1 .. n - 1
    BY <1>1, <2>1, <2>2
  <2>4. t[w[i]] = s[pos[i]]
    BY <1>1, <1>2, <2>1, <2>2, <2>3
  <2> QED BY <2>1, <2>2, <2>3, <2>4
<1>6. w \in [1 .. m -> 1 .. n - 1]
  BY <1>5
<1>7. ASSUME NEW i \in 1 .. m, NEW j \in 1 .. m, i < j
      PROVE  w[i] < w[j]
  <2>1. pos[i] < pos[j]
    BY <1>4, <1>7
  <2> QED BY <1>1, <1>5, <2>1
<1>8. ASSUME NEW k \in 1 .. n - 1, t[k].eng = o
      PROVE  \E i \in 1 .. m : w[i] = k
  <2> DEFINE old == IF k < p THEN k ELSE k + 1
  <2>1. old \in 1 .. n /\ s[old].eng = o
    <3>1. CASE k < p
      <4>1. old = k /\ t[k] = s[k] /\ k \in 1 .. n
        BY <1>1, <1>2, <3>1
      <4> QED BY <1>8, <4>1
    <3>2. CASE ~(k < p)
      <4>1. old = k + 1 /\ t[k] = s[k + 1] /\ k + 1 \in 1 .. n
        BY <1>1, <1>2, <3>2
      <4> QED BY <1>8, <4>1
    <3> QED BY <3>1, <3>2
  <2>2. PICK i \in 1 .. m : pos[i] = old
    BY <1>4, <2>1
  <2>3. w[i] = k
    BY <1>1, <1>5, <2>2
  <2> QED BY <2>3
<1> HIDE DEF w
<1>9. Placed(t, q, o, w)
  BY <1>2, <1>5, <1>6, <1>7, <1>8 DEF Placed, m
<1> QED BY <1>1, <1>3, <1>9 DEF Part, t, m

\* A command d appended to the program is appended to the queue of its engine.
LEMMA PartAppend ==
    ASSUME NEW s \in Seq(Cmd), NEW q, NEW o, Part(s, q, o), NEW d \in Cmd
    PROVE  /\ s \o <<d>> \in Seq(Cmd)
           /\ Part(s \o <<d>>, IF d.eng = o THEN q \o <<d>> ELSE q, o)
<1> DEFINE u == s \o <<d>>
           n == Len(s)
           m == Len(q)
           r == q \o <<d>>
<1>1. q \in Seq(Cmd) /\ m \in Nat /\ n \in Nat
  BY DEF Part
<1>2. /\ u \in Seq(Cmd) /\ Len(u) = n + 1
      /\ \A i \in 1 .. n : u[i] = s[i]
      /\ u[n + 1] = d
  BY <1>1
<1>3. /\ r \in Seq(Cmd) /\ Len(r) = m + 1
      /\ \A i \in 1 .. m : r[i] = q[i]
      /\ r[m + 1] = d
  BY <1>1
<1>4. \A i \in 1 .. m : q[i].eng = o
  BY DEF Part
<1>5. PICK pos :
      /\ pos \in [1 .. m -> 1 .. n]
      /\ \A i, j \in 1 .. m : i < j => pos[i] < pos[j]
      /\ \A i \in 1 .. m : s[pos[i]] = q[i]
      /\ \A k \in 1 .. n : s[k].eng = o => \E i \in 1 .. m : pos[i] = k
  BY DEF Placed, Part
<1> HIDE DEF u, n, m, r
<1>6. ASSUME NEW i \in 1 .. m
      PROVE  pos[i] \in 1 .. n /\ pos[i] \in 1 .. n + 1 /\ u[pos[i]] = q[i]
  <2>1. pos[i] \in 1 .. n /\ s[pos[i]] = q[i]
    BY <1>5
  <2> QED BY <1>1, <1>2, <2>1
<1>7. CASE d.eng = o
  <2> DEFINE w == [i \in 1 .. m + 1 |-> IF i <= m THEN pos[i] ELSE n + 1]
  <2>1. ASSUME NEW i \in 1 .. m + 1
        PROVE  /\ \/ i \in 1 .. m /\ w[i] = pos[i]
                  \/ i = m + 1 /\ w[i] = n + 1
               /\ w[i] \in 1 .. n + 1
    BY <1>1, <1>6
  <2>2. w \in [1 .. m + 1 -> 1 .. n + 1]
    BY <2>1
  <2> HIDE DEF w
  <2>3. ASSUME NEW i \in 1 .. m + 1, NEW j \in 1 .. m + 1, i < j
        PROVE  w[i] < w[j]
    <3>1. i \in 1 .. m /\ w[i] = pos[i] /\ pos[i] \in 1 .. n
      BY <1>1, <1>6, <2>1, <2>3
    <3>2. CASE j \in 1 .. m /\ w[j] = pos[j]
      BY <1>5, <2>3, <3>1, <3>2
    <3>3. CASE j = m + 1 /\ w[j] = n + 1
      BY <1>1, <3>1, <3>3
    <3> QED BY <2>1, <3>2, <3>3
  <2>4. ASSUME NEW i \in 1 .. m + 1
        PROVE  u[w[i]] = r[i] /\ r[i].eng = o
    BY <1>2, <1>3, <1>4, <1>6, <1>7, <2>1
  <2>5. ASSUME NEW k \in 1 .. n + 1, u[k].eng = o
        PROVE  \E i \in 1 .. m + 1 : w[i] = k
    <3>1. CASE k \in 1 .. n
      <4>1. PICK i \in 1 .. m : pos[i] = k
        BY <1>2, <1>5, <2>5, <3>1
      <4>2. i \in 1 .. m + 1 /\ i # m + 1
        BY <1>1
      <4> QED BY <2>1, <4>1, <4>2
    <3>2. CASE k = n + 1
      <4>1. m + 1 \in 1 .. m + 1 /\ m + 1 \notin 1 .. m
        BY <1>1
      <4> QED BY <2>1, <3>2, <4>1
    <3> QED BY <1>1, <3>1, <3>2
  <2>6. Placed(u, r, o, w)
    BY <1>2, <1>3, <2>2, <2>3, <2>4, <2>5 DEF Placed
  <2>7. Part(u, r, o)
    BY <1>3, <2>4, <2>6 DEF Part
  <2> QED BY <1>2, <1>7, <2>7 DEF u, r
<1>8. CASE d.eng # o
  <2>1. pos \in [1 .. m -> 1 .. n + 1]
    BY <1>5, <1>6
  <2>2. ASSUME NEW k \in 1 .. n + 1, u[k].eng = o
        PROVE  \E i \in 1 .. m : pos[i] = k
    <3>1. k \in 1 .. n
      BY <1>1, <1>2, <1>8, <2>2
    <3> QED BY <1>2, <1>5, <2>2, <3>1
  <2>3. Placed(u, q, o, pos)
    BY <1>2, <1>5, <1>6, <2>1, <2>2 DEF Placed, m
  <2>4. Part(u, q, o)
    BY <1>1, <1>4, <2>3 DEF Part, m
  <2> QED BY <1>2, <1>8, <2>4 DEF u
<1> QED BY <1>7, <1>8

-----------------------------------------------------------------------------
(* One edge. *)

\* The mask queue of o when the engines in done have released their oldest.
Left(o, done) == IF o \in done THEN Tail(mk[o]) ELSE mk[o]

\* One engine of the done pulses of an edge: the command that leaves disp is
\* that engine's oldest, however many engines were looked at before.
LEMMA OneDone ==
    ASSUME NEW s \in Seq(Cmd), NEW dn, NEW done, NEW e \in Eng,
           \A o \in Eng : Part(s, Left(o, done), o),
           e \in dn => mk[e] # <<>>, e \notin done
    PROVE  /\ Release(s, e, dn) \in Seq(Cmd)
           /\ P!Finish(s, e, dn) = Release(s, e, dn)
           /\ \A o \in Eng : Part(Release(s, e, dn), Left(o, done \cup (dn \cap {e})), o)
<1>1. CASE e \in dn
  <2> DEFINE q == mk[e]
             d2x == done \cup (dn \cap {e})
  <2>1. Part(s, q, e) /\ q # <<>>
    BY <1>1 DEF Left
  <2>2. PICK pos : Placed(s, q, e, pos)
    BY <2>1 DEF Part
  <2> HIDE DEF q
  <2> DEFINE t == RemoveAt(s, pos[1])
  <2>3. /\ pos[1] \in 1 .. Len(s)
        /\ RemoveFirst(s, Head(q)) = t
        /\ P!Finish(s, e, dn) = t
    BY <1>1, <2>1, <2>2, OldestOf
  <2>4. t \in Seq(Cmd)
    BY <2>3, Removed
  <2>5. Part(t, Tail(q), e)
    BY <2>1, <2>2, PartOwn
  <2>6. s[pos[1]].eng = e
    <3>1. 1 \in 1 .. Len(q) /\ q[1].eng = e
      BY <2>1, EmptySeq DEF Part
    <3> QED BY <2>2, <3>1 DEF Placed
  <2>7. ASSUME NEW o \in Eng, o # e
        PROVE  Part(t, Left(o, done), o)
    BY <2>3, <2>6, <2>7, PartOther
  <2> HIDE DEF t
  <2>8. ASSUME NEW o \in Eng
        PROVE  Part(t, Left(o, d2x), o)
    <3>1. CASE o = e
      <4>1. Left(o, d2x) = Tail(q)
        BY <1>1, <3>1 DEF Left, q
      <4> QED BY <2>5, <3>1, <4>1
    <3>2. CASE o # e
      <4>1. Left(o, d2x) = Left(o, done)
        BY <3>2 DEF Left
      <4> QED BY <2>7, <3>2, <4>1
    <3> QED BY <3>1, <3>2
  <2>9. Release(s, e, dn) = t
    BY <1>1, <2>3 DEF Release, q
  <2> QED BY <2>3, <2>4, <2>8, <2>9
<1>2. CASE e \notin dn
  <2>1. Release(s, e, dn) = s /\ P!Finish(s, e, dn) = s
    BY <1>2 DEF Release, P!Finish
  <2>2. done \cup (dn \cap {e}) = done
    BY <1>2
  <2> QED BY <2>1, <2>2
<1> QED BY <1>1, <1>2

\* All the done pulses of an edge: what stays in disp is, per engine, what
\* stays in the mask queues, and it is what the abstract program has left.
LEMMA AllDone ==
    ASSUME disp \in Seq(Cmd), \A o \in Eng : Part(disp, mk[o], o),
           NEW dn \in SUBSET Eng, \A e \in dn : mk[e] # <<>>
    PROVE  /\ Released(dn) \in Seq(Cmd)
           /\ P!Unfinished(dn) = Released(dn)
           /\ \A o \in Eng : Part(Released(dn), Left(o, dn), o)
<1> DEFINE s1 == Release(disp, "LD", dn)
           s2 == Release(s1, "ST", dn)
           s3 == Release(s2, "EX", dn)
           s4 == Release(s3, "VE", dn)
           k1 == dn \cap {"LD"}
           k2 == k1 \cup (dn \cap {"ST"})
           k3 == k2 \cup (dn \cap {"EX"})
           k4 == k3 \cup (dn \cap {"VE"})
<1>0. /\ {"LD", "ST", "EX", "VE"} = Eng
      /\ "ST" \notin k1 /\ "EX" \notin k2 /\ "VE" \notin k3
      /\ k1 = {} \cup (dn \cap {"LD"}) /\ k4 = dn
  BY DEF Eng
<1>1. \A o \in Eng : Part(disp, Left(o, {}), o)
  BY DEF Left
<1> HIDE DEF s1, s2, s3, s4, k1, k2, k3, k4
<1>2. /\ s1 \in Seq(Cmd) /\ P!Finish(disp, "LD", dn) = s1
      /\ \A o \in Eng : Part(s1, Left(o, k1), o)
  <2>1. "LD" \in Eng /\ "LD" \notin {}
    BY <1>0
  <2> QED BY <1>0, <1>1, <2>1, OneDone DEF s1
<1>3. /\ s2 \in Seq(Cmd) /\ P!Finish(s1, "ST", dn) = s2
      /\ \A o \in Eng : Part(s2, Left(o, k2), o)
  <2>1. "ST" \in Eng /\ "ST" \notin k1 /\ ("ST" \in dn => mk["ST"] # <<>>)
    BY <1>0
  <2>2. /\ Release(s1, "ST", dn) \in Seq(Cmd)
        /\ P!Finish(s1, "ST", dn) = Release(s1, "ST", dn)
        /\ \A o \in Eng : Part(Release(s1, "ST", dn), Left(o, k1 \cup (dn \cap {"ST"})), o)
    BY <1>2, <2>1, OneDone
  <2> QED BY <2>2 DEF s2, k2
<1>4. /\ s3 \in Seq(Cmd) /\ P!Finish(s2, "EX", dn) = s3
      /\ \A o \in Eng : Part(s3, Left(o, k3), o)
  <2>1. "EX" \in Eng /\ "EX" \notin k2 /\ ("EX" \in dn => mk["EX"] # <<>>)
    BY <1>0
  <2>2. /\ Release(s2, "EX", dn) \in Seq(Cmd)
        /\ P!Finish(s2, "EX", dn) = Release(s2, "EX", dn)
        /\ \A o \in Eng : Part(Release(s2, "EX", dn), Left(o, k2 \cup (dn \cap {"EX"})), o)
    BY <1>3, <2>1, OneDone
  <2> QED BY <2>2 DEF s3, k3
<1>5. /\ s4 \in Seq(Cmd) /\ P!Finish(s3, "VE", dn) = s4
      /\ \A o \in Eng : Part(s4, Left(o, k4), o)
  <2>1. "VE" \in Eng /\ "VE" \notin k3 /\ ("VE" \in dn => mk["VE"] # <<>>)
    BY <1>0
  <2>2. /\ Release(s3, "VE", dn) \in Seq(Cmd)
        /\ P!Finish(s3, "VE", dn) = Release(s3, "VE", dn)
        /\ \A o \in Eng : Part(Release(s3, "VE", dn), Left(o, k3 \cup (dn \cap {"VE"})), o)
    BY <1>4, <2>1, OneDone
  <2> QED BY <2>2 DEF s4, k4
<1>6. Released(dn) = s4
  BY DEF Released, s1, s2, s3, s4
<1>7. P!Unfinished(dn) = s4
  BY <1>2, <1>3, <1>4, <1>5 DEF P!Unfinished
<1> QED BY <1>0, <1>5, <1>6, <1>7

-----------------------------------------------------------------------------
(***************************************************************************)
(* The inductive invariant: that of the scheduler, and that the four mask  *)
(* queues are the program disp, split by engine.                           *)
(***************************************************************************)
InFlight == disp \in Seq(Cmd) /\ \A e \in Eng : Part(disp, mk[e], e)

OInv == IInv /\ InFlight

\* The inputs of an edge, its effect, and what it does to disp.
LEMMA EdgeInputs ==
    ASSUME ONext
    PROVE  \E dn, rdy, bad, in, ferr :
                /\ Inputs(in, rdy, dn, bad, ferr)
                /\ SchedEdge(in, rdy, dn, bad, ferr)
                /\ ClearPulse
                /\ disp' = Released(dn) \o (IF dispatch THEN <<d2>> ELSE <<>>)
<1>0. PICK dn \in SUBSET CanFinish :
        \E rdy \in SUBSET CanTake(dn),
           bad \in SUBSET (IF err THEN {} ELSE dn \cap {"LD", "ST"}),
           in \in (IF in_ready THEN Cmd ELSE {}) \cup {NoCmd},
           ferr \in (IF err THEN {} ELSE {"SHAPE"}) \cup {"none"} :
                OTick(in, rdy, dn, bad, ferr)
  BY Zenon DEF ONext
<1>1. PICK rdy \in SUBSET CanTake(dn),
           bad \in SUBSET (IF err THEN {} ELSE dn \cap {"LD", "ST"}),
           in \in (IF in_ready THEN Cmd ELSE {}) \cup {NoCmd},
           ferr \in (IF err THEN {} ELSE {"SHAPE"}) \cup {"none"} :
                OTick(in, rdy, dn, bad, ferr)
  BY <1>0, Zenon
<1>2. Inputs(in, rdy, dn, bad, ferr)
  BY <1>0, <1>1 DEF Inputs
<1>3. /\ SchedEdge(in, rdy, dn, bad, ferr) /\ ClearPulse
      /\ disp' = Released(dn) \o (IF dispatch THEN <<d2>> ELSE <<>>)
  BY <1>1, Zenon DEF OTick, Tick
<1> QED BY <1>2, <1>3, Zenon

\* A step of the scheduler with its history is a step of the scheduler.
LEMMA OrderIsSched ==
    ASSUME ONext
    PROVE  Next
<1>0. PICK dn \in SUBSET CanFinish :
        \E rdy \in SUBSET CanTake(dn),
           bad \in SUBSET (IF err THEN {} ELSE dn \cap {"LD", "ST"}),
           in \in (IF in_ready THEN Cmd ELSE {}) \cup {NoCmd},
           ferr \in (IF err THEN {} ELSE {"SHAPE"}) \cup {"none"} :
                OTick(in, rdy, dn, bad, ferr)
  BY Zenon DEF ONext
<1>1. PICK rdy \in SUBSET CanTake(dn),
           bad \in SUBSET (IF err THEN {} ELSE dn \cap {"LD", "ST"}),
           in \in (IF in_ready THEN Cmd ELSE {}) \cup {NoCmd},
           ferr \in (IF err THEN {} ELSE {"SHAPE"}) \cup {"none"} :
                OTick(in, rdy, dn, bad, ferr)
  BY <1>0, Zenon
<1>2. Tick(in, rdy, dn, bad, ferr)
  BY <1>1, Zenon DEF OTick
<1> QED BY <1>2, Zenon DEF Next

\* An engine that can be done has something in flight.
LEMMA DoneInFlight ==
    ASSUME IInv, NEW dn \in SUBSET CanFinish
    PROVE  dn \subseteq Eng /\ \A e \in dn : mk[e] # <<>>
<1> SUFFICES ASSUME NEW e \in dn
             PROVE  e \in Eng /\ mk[e] # <<>>
  OBVIOUS
<1>1. e \in Eng /\ Running(e) > 0
  BY DEF CanFinish
<1> DEFINE m == Len(mk[e])
           q == Len(eq[e])
<1>2. m \in Nat /\ q \in Nat /\ Running(e) = m - q
  BY <1>1 DEF Running, IInv, TypeOK
<1> HIDE DEF q
<1>3. m # 0
  BY <1>1, <1>2
<1>4. mk[e] # <<>>
  BY <1>3
<1> QED BY <1>1, <1>4

\* An edge keeps the mask queues a split of disp: what an engine finishes
\* leaves both, what is dispatched is appended to both.
LEMMA EdgeInFlight ==
    ASSUME OInv, NEW in, NEW rdy, NEW dn, NEW bad, NEW ferr,
           Inputs(in, rdy, dn, bad, ferr), SchedEdge(in, rdy, dn, bad, ferr),
           disp' = Released(dn) \o (IF dispatch THEN <<d2>> ELSE <<>>)
    PROVE  InFlight'
<1>1. dn \in SUBSET Eng /\ \A e \in dn : mk[e] # <<>>
  BY DoneInFlight DEF Inputs, OInv
<1> DEFINE t == Released(dn)
<1>2. t \in Seq(Cmd) /\ \A e \in Eng : Part(t, Left(e, dn), e)
  BY <1>1, AllDone DEF OInv, InFlight
<1>3. \A e \in Eng :
        mk'[e] = Left(e, dn) \o (IF dispatch /\ d2.eng = e THEN <<d2>> ELSE <<>>)
  BY Zenon DEF SchedEdge, mk_next, Shifted, Left
<1>4. disp' = t \o (IF dispatch THEN <<d2>> ELSE <<>>)
  OBVIOUS
<1> HIDE DEF t
<1>5. ASSUME NEW e \in Eng
      PROVE  disp' \in Seq(Cmd) /\ Part(disp', mk'[e], e)
  <2>1. Part(t, Left(e, dn), e) /\ Left(e, dn) \in Seq(Cmd)
    BY <1>2 DEF Part
  <2> DEFINE l == Left(e, dn)
  <2> HIDE DEF l
  <2>2. CASE dispatch
    <3>1. d2 \in Cmd
      BY <2>2, DispatchedCmd DEF OInv, IInv
    <3>2. disp' = t \o <<d2>>
      BY <1>4, <2>2
    <3>3. mk'[e] = IF d2.eng = e THEN l \o <<d2>> ELSE l
      <4>1. mk'[e] = l \o (IF d2.eng = e THEN <<d2>> ELSE <<>>)
        BY <1>3, <2>2, Zenon DEF l
      <4>2. l \o <<>> = l
        BY <2>1, ConcatEmptySeq DEF l
      <4> QED BY <4>1, <4>2
    <3>4. t \o <<d2>> \in Seq(Cmd) /\ Part(t \o <<d2>>, IF d2.eng = e THEN l \o <<d2>> ELSE l, e)
      BY <1>2, <2>1, <3>1, PartAppend DEF l
    <3> QED BY <3>2, <3>3, <3>4
  <2>3. CASE ~dispatch
    <3>1. disp' = t
      BY <1>2, <1>4, <2>3, ConcatEmptySeq
    <3>2. mk'[e] = l
      <4>1. mk'[e] = l \o <<>>
        BY <1>3, <2>3, Zenon DEF l
      <4> QED BY <2>1, <4>1, ConcatEmptySeq DEF l
    <3> QED BY <1>2, <2>1, <3>1, <3>2 DEF l
  <2> QED BY <2>2, <2>3
<1>6. Eng # {}
  BY DEF Eng
<1>7. \A e \in Eng : Part(disp, mk[e], e)'
  BY <1>5 DEF Part, Placed
<1> QED BY <1>5, <1>6, <1>7 DEF InFlight

\* The invariant is inductive.
LEMMA StepOInv ==
    ASSUME OInv, [ONext]_ovars
    PROVE  OInv'
<1>1. CASE ONext
  <2>1. PICK dn, rdy, bad, in, ferr :
            /\ Inputs(in, rdy, dn, bad, ferr)
            /\ SchedEdge(in, rdy, dn, bad, ferr)
            /\ ClearPulse
            /\ disp' = Released(dn) \o (IF dispatch THEN <<d2>> ELSE <<>>)
    BY <1>1, EdgeInputs
  <2>2. IInv'
    BY <1>1, OrderIsSched, StepIInv DEF OInv
  <2>3. InFlight'
    BY <2>1, EdgeInFlight
  <2> QED BY <2>2, <2>3 DEF OInv
<1>2. CASE UNCHANGED ovars
  <2>1. IInv'
    BY <1>2, StepIInv DEF OInv, ovars
  <2>2. disp' = disp /\ mk' = mk
    BY <1>2 DEF ovars, vars, schedVars
  <2>3. InFlight'
    BY <2>2, SMTT(30) DEF OInv, InFlight, Part, Placed
  <2> QED BY <2>1, <2>3 DEF OInv
<1> QED BY <1>1, <1>2

\* The reset state satisfies the invariant: nothing is in flight.
LEMMA InitOInv ==
    ASSUME OInit
    PROVE  OInv
<1>1. IInv
  BY InitIInv DEF OInit
<1>2. disp = <<>> /\ \A e \in Eng : mk[e] = <<>>
  BY DEF OInit, Init, SchedInit
<1>3. <<>> \in Seq(Cmd) /\ Len(<<>>) = 0
  BY EmptySeq
<1>4. ASSUME NEW e \in Eng
      PROVE  Part(<<>>, <<>>, e)
  <2> DEFINE none == [i \in 1 .. 0 |-> 1]
  <2>1. Placed(<<>>, <<>>, e, none)
    BY <1>3 DEF Placed
  <2> QED BY <1>3, <2>1 DEF Part
<1> QED BY <1>1, <1>2, <1>3, <1>4 DEF OInv, InFlight

\* Every reachable state of the scheduler keeps its program split by engine.
THEOREM OrderInductive == OSpec => []OInv
<1>1. OInit => OInv
  BY InitOInv
<1>2. OInv /\ [ONext]_ovars => OInv'
  BY StepOInv
<1> QED BY <1>1, <1>2, PTL DEF OSpec

\* fence_ok of sa_sched.v tells software the truth: when it holds for a mask,
\* nothing accepted before is left in the pipeline or on an engine of the mask.
THEOREM FenceDone == OSpec => []FenceMeansDone
<1>1. ASSUME OInv
      PROVE  FenceMeansDone
  <2> SUFFICES ASSUME NEW mask \in SUBSET Eng, fence_ok(mask),
                      NEW i \in 1 .. Len(disp \o pipe)
               PROVE  mask # {} /\ (disp \o pipe)[i].eng \notin mask
    BY DEF FenceMeansDone
  <2>1. disp \in Seq(Cmd) /\ \A e \in Eng : Part(disp, mk[e], e)
    BY <1>1 DEF OInv, InFlight
  <2>2. pipe = <<>>
    <3>1. inq = <<>> /\ d1 = NoCmd /\ d2 = NoCmd
      BY DEF fence_ok, pipe_empty
    <3>2. <<>> \o <<>> = <<>>
      BY EmptySeq, ConcatEmptySeq
    <3> QED BY <3>1, <3>2 DEF pipe
  <2>3. disp \o pipe = disp
    BY <2>1, <2>2, ConcatEmptySeq
  <2>4. i \in 1 .. Len(disp) /\ disp[i] \in Cmd
    BY <2>1, <2>3
  <2> DEFINE e == disp[i].eng
  <2>5. e \in Eng
    BY <2>4, SchedAssumption DEF CmdType
  <2>6. mk[e] # <<>>
    <3>1. PICK pos : Placed(disp, mk[e], e, pos)
      BY <2>1, <2>5 DEF Part
    <3>2. \E k \in 1 .. Len(mk[e]) : pos[k] = i
      BY <2>4, <3>1 DEF Placed
    <3> QED BY <3>2
  <2>7. e \notin (IF mask = {} THEN Eng ELSE mask)
    BY <2>6 DEF fence_ok, eng_busy
  <2> QED BY <2>3, <2>5, <2>7
<1> QED BY <1>1, OrderInductive, PTL

-----------------------------------------------------------------------------
(***************************************************************************)
(* The input pipeline is one queue: whatever moves between its stages in   *)
(* an edge, its contents lose at most the oldest and gain at most one.     *)
(***************************************************************************)
Opt(x) == IF x = NoCmd THEN <<>> ELSE <<x>>

\* The contents of the pipeline are commands, the oldest is the one at d2.
LEMMA PipeSeq ==
    ASSUME TypeOK
    PROVE  /\ pipe = (Opt(d2) \o Opt(d1)) \o inq
           /\ \A x \in Cmd \cup {NoCmd} : Opt(x) \in Seq(Cmd)
           /\ Opt(d2) \in Seq(Cmd) /\ Opt(d1) \in Seq(Cmd) /\ inq \in Seq(Cmd)
           /\ pipe \in Seq(Cmd)
           /\ d2 # NoCmd => /\ pipe # <<>> /\ Head(pipe) = d2
                            /\ Tail(pipe) = Opt(d1) \o inq
<1>1. pipe = (Opt(d2) \o Opt(d1)) \o inq
  BY DEF pipe, Opt
<1>2. \A x \in Cmd \cup {NoCmd} : Opt(x) \in Seq(Cmd)
  BY EmptySeq DEF Opt
<1>3. Opt(d2) \in Seq(Cmd) /\ Opt(d1) \in Seq(Cmd) /\ inq \in Seq(Cmd)
  BY <1>2 DEF TypeOK
<1> DEFINE a == Opt(d1) \o inq
<1>4. a \in Seq(Cmd) /\ pipe = Opt(d2) \o a
  BY <1>1, <1>3, ConcatProperties, ConcatAssociative
<1>5. pipe \in Seq(Cmd)
  BY <1>3, <1>4, ConcatProperties
<1> HIDE DEF a
<1>6. ASSUME d2 # NoCmd
      PROVE  pipe # <<>> /\ Head(pipe) = d2 /\ Tail(pipe) = a
  <2>1. pipe = <<d2>> \o a /\ d2 \in Cmd
    BY <1>4, <1>6 DEF Opt, TypeOK
  <2>2. Len(pipe) = 1 + Len(a) /\ Len(a) \in Nat
    BY <1>4, <2>1
  <2>3. pipe # <<>>
    BY <2>2, EmptySeq
  <2>4. Head(pipe) = d2
    BY <1>4, <2>1
  <2>5. /\ Tail(pipe) \in Seq(Cmd) /\ Len(Tail(pipe)) = Len(a)
        /\ \A i \in 1 .. Len(a) : Tail(pipe)[i] = pipe[i + 1]
    BY <1>5, <2>2, <2>3, HeadTailProperties
  <2>6. \A i \in 1 .. Len(a) : pipe[i + 1] = a[i]
    BY <1>4, <2>1
  <2>7. Tail(pipe) = a
    BY <1>4, <2>5, <2>6, SeqEqual
  <2> QED BY <2>3, <2>4, <2>7
<1> QED BY <1>1, <1>2, <1>3, <1>5, <1>6 DEF a

\* Concatenation under a name: the solver rewrites \o where it is left alone.
Cat(s, t) == s \o t

\* The concatenation of two sequences of commands is one.
LEMMA CatSeq == \A s, t \in Seq(Cmd) : Cat(s, t) \in Seq(Cmd)
BY DEF Cat

\* Concatenation is associative.
LEMMA CatAssoc == \A a, b, c \in Seq(Cmd) : Cat(Cat(a, b), c) = Cat(a, Cat(b, c))
<1> TAKE a, b, c \in Seq(Cmd)
<1>1. (a \o b) \o c = a \o (b \o c)
  OBVIOUS
<1> QED BY <1>1 DEF Cat

\* One edge of the pipeline, without clear_error: the two stages and the FIFO
\* hand on what they hold, the oldest leaves when it is dispatched or dropped.
LEMMA PipeMoves ==
    ASSUME IInv, ~clear_error, NEW in, NEW rdy, NEW dn, NEW bad, NEW ferr,
           Inputs(in, rdy, dn, bad, ferr), SchedEdge(in, rdy, dn, bad, ferr),
           ClearPulse
    PROVE  pipe' = (IF dispatch \/ reject THEN Tail(pipe) ELSE pipe) \o Opt(in)
<1> DEFINE taken == dispatch \/ reject
           rem2 == IF taken THEN NoCmd ELSE d2
           rem1 == IF d1_move THEN NoCmd ELSE d1
           base == IF fifo_pop THEN Tail(inq) ELSE inq
           x == Opt(in)
<1>1. TypeOK /\ TypeOK'
  BY StepTypes DEF IInv
<1>2. /\ Opt(d2) \in Seq(Cmd) /\ Opt(d1) \in Seq(Cmd) /\ inq \in Seq(Cmd)
      /\ Opt(rem2) \in Seq(Cmd) /\ Opt(rem1) \in Seq(Cmd) /\ x \in Seq(Cmd)
      /\ base \in Seq(Cmd)
  <2>1. rem2 \in Cmd \cup {NoCmd} /\ rem1 \in Cmd \cup {NoCmd} /\ in \in Cmd \cup {NoCmd}
    BY <1>1 DEF TypeOK, Inputs
  <2>2. base \in Seq(Cmd)
    BY <1>1, HeadTailProperties DEF TypeOK, fifo_pop
  <2> HIDE DEF rem2, rem1, base
  <2> QED BY <1>1, <2>1, <2>2, PipeSeq
<1>3. /\ Opt(d2') \in Seq(Cmd) /\ Opt(d1') \in Seq(Cmd)
      /\ pipe' = (Opt(d2') \o Opt(d1')) \o inq'
  <2>1. d2' \in Cmd \cup {NoCmd} /\ d1' \in Cmd \cup {NoCmd}
    BY <1>1 DEF TypeOK
  <2> QED BY <1>1, <2>1, PipeSeq DEF pipe, Opt
<1>4. inq' = base \o x
  BY Zenon DEF SchedEdge, inq_next, Inputs, Opt
<1>5. Opt(d1') \o base = Opt(rem1) \o inq
  <2>1. CASE fifo_pop
    <3>1. d1_free /\ inq # <<>>
      BY <2>1 DEF fifo_pop
    <3>2. d1' = Head(inq) /\ rem1 = NoCmd
      BY <2>1, <3>1, Zenon DEF SchedEdge, d1_next, d1_free
    <3>3. Head(inq) \in Cmd /\ <<Head(inq)>> \o Tail(inq) = inq
      BY <1>2, <3>1
    <3>4. Opt(d1') = <<Head(inq)>> /\ Opt(rem1) = <<>>
      BY <3>2, <3>3, SchedAssumption DEF Opt
    <3>5. <<>> \o inq = inq
      BY <1>2, ConcatEmptySeq
    <3> QED BY <2>1, <3>3, <3>4, <3>5
  <2>2. CASE ~fifo_pop /\ d1_free
    <3>1. d1' = NoCmd
      BY <2>2, Zenon DEF SchedEdge, d1_next
    <3>2. rem1 = NoCmd
      BY <2>2 DEF d1_free
    <3> QED BY <2>2, <3>1, <3>2
  <2>3. CASE ~fifo_pop /\ ~d1_free
    <3>1. d1' = d1
      BY <2>3, Zenon DEF SchedEdge, d1_next
    <3>2. rem1 = d1
      BY <2>3 DEF d1_free
    <3> QED BY <2>3, <3>1, <3>2
  <2> QED BY <2>1, <2>2, <2>3
<1>6. Opt(d2') \o Opt(rem1) = Opt(rem2) \o Opt(d1)
  <2>0. Opt(NoCmd) = <<>> /\ Opt(d1) \o <<>> = Opt(d1) /\ <<>> \o Opt(d1) = Opt(d1)
    BY <1>2, ConcatEmptySeq DEF Opt
  <2>1. CASE d2_free
    <3>1. rem2 = NoCmd
      BY <2>1, Zenon DEF d2_free
    <3>2. CASE d1_move
      <4>1. d2' = d1 /\ rem1 = NoCmd
        BY <2>1, <3>2, Zenon DEF SchedEdge, d2_next
      <4> QED BY <2>0, <3>1, <4>1
    <3>3. CASE ~d1_move
      <4>1. d2' = NoCmd /\ rem1 = d1
        BY <2>1, <3>3, Zenon DEF SchedEdge, d2_next
      <4> QED BY <3>1, <4>1
    <3> QED BY <3>2, <3>3
  <2>2. CASE ~d2_free
    <3>1. d2' = d2 /\ ~taken /\ ~d1_move
      BY <2>2, Zenon DEF SchedEdge, d2_next, d2_free, d1_move
    <3>2. rem2 = d2 /\ rem1 = d1
      BY <3>1
    <3> QED BY <3>1, <3>2
  <2> QED BY <2>1, <2>2
<1>7. (IF taken THEN Tail(pipe) ELSE pipe) = (Opt(rem2) \o Opt(d1)) \o inq
  <2>1. CASE taken
    <3>1. d2 # NoCmd
      BY <2>1, Zenon DEF dispatch, reject
    <3>2. Tail(pipe) = Opt(d1) \o inq
      BY <1>1, <3>1, PipeSeq
    <3>3. Opt(rem2) = <<>> /\ <<>> \o Opt(d1) = Opt(d1)
      BY <1>2, <2>1, ConcatEmptySeq DEF Opt
    <3> QED BY <2>1, <3>2, <3>3
  <2>2. CASE ~taken
    <3>1. rem2 = d2
      BY <2>2
    <3> QED BY <1>1, <2>2, <3>1, PipeSeq
  <2> QED BY <2>1, <2>2
<1> DEFINE a2 == Opt(d2')
           a1 == Opt(d1')
           r2 == Opt(rem2)
           r1 == Opt(rem1)
           o1 == Opt(d1)
<1>8. /\ a2 \in Seq(Cmd) /\ a1 \in Seq(Cmd) /\ r2 \in Seq(Cmd) /\ r1 \in Seq(Cmd)
      /\ o1 \in Seq(Cmd) /\ inq \in Seq(Cmd) /\ base \in Seq(Cmd) /\ x \in Seq(Cmd)
      /\ a1 \o base = r1 \o inq /\ a2 \o r1 = r2 \o o1
      /\ pipe' = (a2 \o a1) \o (base \o x)
  BY <1>2, <1>3, <1>4, <1>5, <1>6
<1> HIDE DEF a2, a1, r2, r1, o1, base, x, taken
<1>9. pipe' = ((r2 \o o1) \o inq) \o x
  <2>0. /\ a2 \in Seq(Cmd) /\ a1 \in Seq(Cmd) /\ r2 \in Seq(Cmd) /\ r1 \in Seq(Cmd)
        /\ o1 \in Seq(Cmd) /\ inq \in Seq(Cmd) /\ base \in Seq(Cmd) /\ x \in Seq(Cmd)
    BY <1>8
  <2>1. Cat(a1, base) = Cat(r1, inq) /\ Cat(a2, r1) = Cat(r2, o1)
    BY <1>8 DEF Cat
  <2>2. Cat(base, x) \in Seq(Cmd) /\ Cat(r1, inq) \in Seq(Cmd)
    BY <2>0, CatSeq
  <2>3. Cat(Cat(a2, a1), Cat(base, x)) = Cat(a2, Cat(a1, Cat(base, x)))
    BY <2>0, <2>2, CatAssoc
  <2>4. Cat(a1, Cat(base, x)) = Cat(Cat(r1, inq), x)
    BY <2>0, <2>1, CatAssoc
  <2>5. Cat(a2, Cat(Cat(r1, inq), x)) = Cat(Cat(a2, Cat(r1, inq)), x)
    BY <2>0, <2>2, CatAssoc
  <2>6. Cat(a2, Cat(r1, inq)) = Cat(Cat(r2, o1), inq)
    BY <2>0, <2>1, CatAssoc
  <2>7. Cat(Cat(a2, a1), Cat(base, x)) = Cat(Cat(Cat(r2, o1), inq), x)
    BY <2>3, <2>4, <2>5, <2>6
  <2>8. pipe' = Cat(Cat(a2, a1), Cat(base, x))
    BY <1>8, Zenon DEF Cat
  <2> QED BY <2>7, <2>8 DEF Cat
<1> QED BY <1>7, <1>9 DEF r2, o1, taken, x

-----------------------------------------------------------------------------
(* The refinement: an edge of the scheduler is a step of the program. *)

\* What an engine finishes can finish: it is in disp.
LEMMA DoneMayFinish ==
    ASSUME OInv, NEW dn \in SUBSET CanFinish
    PROVE  dn \in SUBSET P!MayFinish
<1> SUFFICES ASSUME NEW e \in dn
             PROVE  e \in P!MayFinish
  OBVIOUS
<1>1. e \in Eng /\ mk[e] # <<>>
  BY DoneInFlight DEF OInv
<1>2. Part(disp, mk[e], e)
  BY <1>1 DEF OInv, InFlight
<1>3. PICK pos : Placed(disp, mk[e], e, pos)
  BY <1>2 DEF Part
<1>4. 1 \in 1 .. Len(mk[e])
  BY <1>1, <1>2, EmptySeq DEF Part
<1>5. pos[1] \in 1 .. Len(disp) /\ disp[pos[1]].eng = e
  BY <1>2, <1>3, <1>4 DEF Part, Placed
<1> QED BY <1>5 DEF P!MayFinish

\* What the scoreboard dispatches may start: it is the oldest that waits, and
\* it may overlap with everything that has started and is not done.
LEMMA DispatchMayStart ==
    ASSUME OInv, dispatch
    PROVE  P!MayStart
<1>1. /\ ~err /\ d2 # NoCmd /\ d2.ok /\ pipe # <<>> /\ Head(pipe) = d2
  BY PipeSeq DEF dispatch, OInv, IInv
<1>2. ASSUME NEW j \in 1 .. Len(disp)
      PROVE  MayRunTogether(disp[j], d2)
  <2> DEFINE o == disp[j].eng
  <2>1. disp[j] \in Cmd /\ o \in Eng
    BY SchedAssumption DEF OInv, InFlight, CmdType
  <2> HIDE DEF o
  <2>2. PICK pos : Placed(disp, mk[o], o, pos)
    BY <2>1 DEF OInv, InFlight, Part
  <2>3. PICK k \in 1 .. Len(mk[o]) : pos[k] = j
    BY <2>2 DEF Placed, o
  <2>4. mk[o][k] = disp[j]
    BY <2>2, <2>3 DEF Placed
  <2>5. CASE o # d2.eng
    <3>1. ~Conflict(mk[o][k], d2)
      BY <2>1, <2>3, <2>5, DispatchSafe DEF OInv
    <3> QED BY <2>4, <3>1 DEF MayRunTogether
  <2>6. CASE o = d2.eng
    BY <2>6 DEF MayRunTogether, o
  <2> QED BY <2>5, <2>6
<1> QED BY <1>1, <1>2 DEF P!MayStart

\* What is rejected is the oldest that waits, and invalid.
LEMMA RejectMustDrop ==
    ASSUME OInv, reject
    PROVE  P!MustDrop
BY PipeSeq DEF reject, OInv, IInv, P!MustDrop

\* One edge of sa_sched.v is one step of the program.
LEMMA EdgeIsStep ==
    ASSUME OInv, NEW in, NEW rdy, NEW dn, NEW bad, NEW ferr,
           Inputs(in, rdy, dn, bad, ferr), SchedEdge(in, rdy, dn, bad, ferr),
           ClearPulse,
           disp' = Released(dn) \o (IF dispatch THEN <<d2>> ELSE <<>>)
    PROVE  P!PStep
<1> DEFINE rest == IF dispatch \/ reject THEN Tail(pipe) ELSE pipe
<1>1. dn \in SUBSET P!MayFinish
  BY DoneMayFinish DEF Inputs
<1>2. dispatch \in {FALSE, P!MayStart}
  <2>1. dispatch \in BOOLEAN
    BY DEF dispatch
  <2>2. CASE dispatch
    BY <2>2, DispatchMayStart, Zenon
  <2> QED BY <2>1, <2>2
<1>3. reject \in {FALSE, P!MustDrop}
  <2>1. reject \in BOOLEAN
    BY DEF reject
  <2>2. CASE reject
    BY <2>2, RejectMustDrop, Zenon
  <2> QED BY <2>1, <2>2
<1>4. disp' = P!Unfinished(dn) \o (IF dispatch THEN <<Head(pipe)>> ELSE <<>>)
  <2>1. dispatch => Head(pipe) = d2
    BY PipeSeq DEF dispatch, OInv, IInv
  <2>2. P!Unfinished(dn) = Released(dn)
    BY AllDone, DoneInFlight DEF Inputs, OInv, InFlight
  <2> QED BY <2>1, <2>2
<1>5. pipe' \in IF clear_error THEN {<<>>} ELSE {rest} \cup {Append(rest, c) : c \in Cmd}
  <2>1. CASE clear_error
    <3>1. inq' = <<>> /\ d1' = NoCmd /\ d2' = NoCmd
      BY <2>1, Zenon DEF SchedEdge, inq_next, d1_next, d2_next
    <3>2. <<>> \o <<>> = <<>>
      BY EmptySeq, ConcatEmptySeq
    <3>3. pipe' = <<>>
      BY <3>1, <3>2 DEF pipe
    <3> QED BY <2>1, <3>3
  <2>2. CASE ~clear_error
    <3>1. pipe' = rest \o Opt(in)
      BY <2>2, PipeMoves DEF OInv
    <3>2. rest \in Seq(Cmd)
      <4>1. dispatch \/ reject => pipe # <<>>
        BY PipeSeq DEF dispatch, reject, OInv, IInv
      <4>2. pipe \in Seq(Cmd)
        BY PipeSeq DEF OInv, IInv
      <4> QED BY <4>1, <4>2, HeadTailProperties
    <3> HIDE DEF rest
    <3>3. CASE in = NoCmd
      <4>1. pipe' = rest
        BY <3>1, <3>2, <3>3, ConcatEmptySeq DEF Opt
      <4> QED BY <2>2, <4>1
    <3>4. CASE in \in Cmd
      <4>1. Opt(in) = <<in>>
        BY <3>4, SchedAssumption DEF Opt
      <4>2. pipe' = Append(rest, in)
        BY <3>1, <3>2, <3>4, <4>1
      <4> QED BY <2>2, <3>4, <4>2
    <3> QED BY <3>3, <3>4 DEF Inputs
  <2> QED BY <2>1, <2>2
<1>6. IF clear_error THEN ~err' ELSE err' \in {b \in BOOLEAN : err \/ reject => b}
  <2>1. CASE clear_error
    <3>1. err' = FALSE
      BY <2>1, Zenon DEF SchedEdge, SchedError
    <3> QED BY <2>1, <3>1
  <2>2. CASE ~clear_error
    <3>1. err' = (err \/ (~err /\ (reject \/ bad # {} \/ ferr # "none")))
      BY <2>2, Zenon DEF SchedEdge, SchedError
    <3>2. err' \in BOOLEAN /\ (err \/ reject => err')
      BY <3>1 DEF OInv, IInv, TypeOK
    <3> QED BY <2>2, <3>2
  <2> QED BY <2>1, <2>2
<1>7. clear_error' \in BOOLEAN
  BY Zenon DEF ClearPulse
<1> HIDE DEF rest
<1>8. \E fin \in SUBSET P!MayFinish, start \in {FALSE, P!MayStart}, drop \in {FALSE, P!MustDrop} :
         LET next == IF start \/ drop THEN Tail(pipe) ELSE pipe
         IN  /\ disp' = P!Unfinished(fin) \o (IF start THEN <<Head(pipe)>> ELSE <<>>)
             /\ pipe' \in IF clear_error THEN {<<>>} ELSE {next} \cup {Append(next, c) : c \in Cmd}
             /\ IF clear_error THEN ~err' ELSE err' \in {b \in BOOLEAN : err \/ drop => b}
             /\ clear_error' \in BOOLEAN
  BY <1>1, <1>2, <1>3, <1>4, <1>5, <1>6, <1>7, Zenon DEF rest
<1> QED BY <1>8, Zenon DEF P!PStep

\* The scheduler of sa_sched.v implements the in-order program: splitting the
\* commands over four engines loses, doubles and reorders nothing, a command
\* starts only when it may overlap with all that is still running, an invalid
\* one and what is behind it never run, clear_error removes what has not started.
THEOREM Refinement == OSpec => InOrderProgram
<1>1. OInit => P!PInit
  <2> SUFFICES ASSUME OInit
               PROVE  P!PInit
    OBVIOUS
  <2>1. disp = <<>> /\ inq = <<>> /\ d1 = NoCmd /\ d2 = NoCmd /\ ~err /\ ~clear_error
    BY DEF OInit, Init, SchedInit
  <2>2. <<>> \o <<>> = <<>>
    BY EmptySeq, ConcatEmptySeq
  <2>3. pipe = <<>>
    BY <2>1, <2>2 DEF pipe
  <2> QED BY <2>1, <2>3 DEF P!PInit
<1>2. OInv /\ [ONext]_ovars => [P!PStep]_P!pvars
  <2>1. ASSUME OInv, ONext
        PROVE  P!PStep
    <3>1. PICK dn, rdy, bad, in, ferr :
            /\ Inputs(in, rdy, dn, bad, ferr)
            /\ SchedEdge(in, rdy, dn, bad, ferr)
            /\ ClearPulse
            /\ disp' = Released(dn) \o (IF dispatch THEN <<d2>> ELSE <<>>)
      BY <2>1, EdgeInputs
    <3> QED BY <2>1, <3>1, EdgeIsStep
  <2>2. ASSUME UNCHANGED ovars
        PROVE  UNCHANGED P!pvars
    BY <2>2 DEF ovars, vars, schedVars, pipe, P!pvars
  <2> QED BY <2>1, <2>2
<1> QED BY <1>1, <1>2, OrderInductive, PTL DEF OSpec, InOrderProgram, P!PSpec
=============================================================================
