---------------------------- MODULE SaUnitProofs -----------------------------
(***************************************************************************)
(* The composed command path implements the scheduler's specification, so  *)
(* what SaSchedProofs proves of the scheduler in any environment holds in  *)
(* the one the unit gives it: whatever the core's program, its lists, jobs *)
(* and mat_resets.                                                         *)
(***************************************************************************)
EXTENDS SaUnit, SaSchedProofs, FiniteSetTheorems

Packet == Cmd \cup {NoCmd}
\* What the decoder executes: a store to CTRL reaches the sequencer as a CSR write.
Decoded == {x \in InsnType : x.op # "start"}
Words == Cmd \cup {BadDesc}

PcpiType ==
    [state : {"IDLE", "EXEC", "DONE"}, insn : Decoded, q : Packet, trigger : BOOLEAN,
     reset : BOOLEAN, submit : List \cup {NoList}, rd : BOOLEAN]
LegType ==
    [state : {"IDLE", "FENCE", "DESC", "DESCW", "CHECK", "PUSH", "RUN", "ERRW"},
     q : Packet, pidx : 0 .. 3, pend : {"none", "RRESP", "BRESP", "ADDR"}, desc : BOOLEAN,
     done : BOOLEAN, code : {"none", "RRESP", "BRESP", "ADDR", "DIM"}, reset_done : BOOLEAN]
FetchType ==
    [state : {"IDLE", "RUN", "DRAIN", "ERR"}, pkt : Packet, list : Seq(Words), err_set : BOOLEAN]

\* The registers of the three sources.  What matters is that a source only ever
\* offers a command packet, and where it takes the next one from.
PathTypeOK ==
    /\ world \in World
    /\ err \in BOOLEAN
    /\ pcpi \in PcpiType
    /\ leg \in LegType
    /\ fetch \in FetchType

-----------------------------------------------------------------------------
\* What the arbiter of sa_unit.v offers to the scheduler is a packet or nothing.
LEMMA InPacket ==
    ASSUME PathTypeOK
    PROVE  in_pkt \in Packet
<1>1. leg.q \in Packet /\ fetch.pkt \in Packet /\ pcpi.q \in Packet
  BY DEF PathTypeOK, LegType, FetchType, PcpiType
<1> QED BY <1>1, Zenon DEF in_pkt

\* The decoder keeps its types: a command comes from the instruction.
LEMMA PcpiStep ==
    ASSUME PathTypeOK, NEW i, i = <<>> \/ i[1] \in Decoded, NEW start
    PROVE  pcpi_next(i, start) \in PcpiType
<1> DEFINE p == PcpiIdle
<1>0. pcpi \in PcpiType /\ err \in BOOLEAN
  BY DEF PathTypeOK
<1>1. /\ p \in PcpiType
      /\ p.insn = pcpi.insn /\ p.state = pcpi.state
  BY <1>0 DEF PcpiIdle, PcpiType
<1>2. ASSUME NEW r \in PcpiType
      PROVE  Respond(r) \in PcpiType
  BY <1>2 DEF Respond, PcpiType
<1> HIDE DEF p
<1>3. p.insn \in InsnType /\ p.insn.op # "start"
  BY <1>1 DEF PcpiType, Decoded
<1>4. CASE pcpi.state = "IDLE"
  <2>1. pcpi_next(i, start) = IF i = <<>> THEN p ELSE [p EXCEPT !.state = "EXEC", !.insn = i[1]]
    BY <1>4 DEF pcpi_next, p
  <2> QED BY <1>1, <2>1, ZenonT(60) DEF PcpiType
<1>5. CASE pcpi.state = "DONE"
  <2>1. pcpi_next(i, start) = [p EXCEPT !.state = "IDLE"]
    BY <1>5 DEF pcpi_next, p
  <2> QED BY <1>1, <2>1 DEF PcpiType
<1>6. CASE pcpi.state = "EXEC"
  <2>1. pcpi_next(i, start) = Execute(start)
    BY <1>6 DEF pcpi_next
  <2>2. CASE p.insn.op = "run"
    <3>1. Execute(start) = ExecRun(p)
      BY <2>2 DEF Execute, p
    <3>2. p.insn.cmd \in Cmd
      BY <1>3, <2>2 DEF InsnType
    <3>3. [p EXCEPT !.q = NoCmd] \in PcpiType /\ [p EXCEPT !.q = p.insn.cmd] \in PcpiType
      BY <1>1, <3>2 DEF PcpiType, Packet
    <3> QED BY <1>1, <1>2, <2>1, <3>1, <3>3 DEF ExecRun
  <2>3. CASE p.insn.op = "fence"
    <3>1. Execute(start) = ExecFence(p)
      BY <2>3 DEF Execute, p
    <3>2. [p EXCEPT !.rd = err] \in PcpiType
      BY <1>0, <1>1 DEF PcpiType
    <3> QED BY <1>1, <1>2, <2>1, <3>1, <3>2 DEF ExecFence
  <2>4. CASE p.insn.op = "submit"
    <3>1. Execute(start) = ExecSubmit(p)
      BY <2>4 DEF Execute, p
    <3>2. p.insn.list \in List
      BY <1>3, <2>4 DEF InsnType
    <3>3. [p EXCEPT !.submit = p.insn.list] \in PcpiType
      BY <1>1, <3>2 DEF PcpiType
    <3> QED BY <1>1, <1>2, <2>1, <3>1, <3>3 DEF ExecSubmit
  <2>5. CASE p.insn.op = "base"
    <3>1. Execute(start) = ExecBase(p)
      BY <2>5 DEF Execute, p
    <3> QED BY <1>1, <1>2, <2>1, <3>1 DEF ExecBase
  <2>6. CASE p.insn.op = "trigger"
    <3>1. Execute(start) = ExecTrigger(p, start)
      BY <2>6 DEF Execute, p
    <3>2. [p EXCEPT !.trigger = FALSE] \in PcpiType /\ [p EXCEPT !.trigger = TRUE] \in PcpiType
      BY <1>1 DEF PcpiType
    <3> QED BY <1>2, <2>1, <3>1, <3>2 DEF ExecTrigger
  <2>7. CASE p.insn.op = "wait"
    <3>1. Execute(start) = ExecWait(p)
      BY <2>7 DEF Execute, p
    <3> QED BY <1>1, <1>2, <2>1, <3>1 DEF ExecWait
  <2>8. CASE p.insn.op = "reset"
    <3>1. Execute(start) = ExecReset(p)
      BY <2>8 DEF Execute, p
    <3>2. [p EXCEPT !.reset = FALSE] \in PcpiType /\ [p EXCEPT !.reset = TRUE] \in PcpiType
      BY <1>1 DEF PcpiType
    <3> QED BY <1>2, <2>1, <3>1, <3>2 DEF ExecReset
  <2> QED BY <1>3, <2>2, <2>3, <2>4, <2>5, <2>6, <2>7, <2>8 DEF InsnType
<1> QED BY <1>0, <1>4, <1>5, <1>6 DEF PcpiType

\* The sequencer keeps its types: it offers the job's commands and the load of
\* its descriptor.
LEMMA LegStep ==
    ASSUME PathTypeOK, NEW start, NEW good
    PROVE  leg_next(start, good) \in LegType
<1> DEFINE l == IF reset_now
                THEN [leg EXCEPT !.done = FALSE, !.code = "none", !.reset_done = TRUE]
                ELSE [leg EXCEPT !.reset_done = FALSE]
<1>0. leg \in LegType
  BY DEF PathTypeOK
<1>1. l \in LegType /\ l.state = leg.state /\ l.pidx = leg.pidx /\ l.pend = leg.pend
  <2>1. CASE reset_now
    BY <1>0, <2>1 DEF LegType
  <2>2. CASE ~reset_now
    BY <1>0, <2>2 DEF LegType
  <2> QED BY <2>1, <2>2
<1>2. /\ leg.state = "IDLE" => leg_next(start, good) = LegIdle(l, start)
      /\ leg.state = "FENCE" => leg_next(start, good) = LegFence(l)
      /\ leg.state = "DESC" => leg_next(start, good) = LegDesc(l, good)
      /\ leg.state = "DESCW" => leg_next(start, good) = LegDescWait(l)
      /\ leg.state = "CHECK" => leg_next(start, good) = LegCheck(l, good)
      /\ leg.state = "PUSH" => leg_next(start, good) = LegPush(l)
      /\ leg.state = "RUN" => leg_next(start, good) = LegRun(l)
      /\ leg.state = "ERRW" => leg_next(start, good) = LegErrWait(l)
  BY DEF leg_next
<1> HIDE DEF l
<1>3. ASSUME NEW c \in {"none", "RRESP", "BRESP", "ADDR", "DIM"}
      PROVE  Finish(l, c) \in LegType
  BY <1>1, <1>3 DEF Finish, LegType
<1>4. ASSUME NEW s \in {"IDLE", "FENCE", "DESC", "DESCW", "CHECK", "PUSH", "RUN", "ERRW"}
      PROVE  [l EXCEPT !.state = s] \in LegType
  BY <1>1, <1>4 DEF LegType
<1>5. map_err(err_code) \in {"RRESP", "BRESP", "ADDR"}
  BY DEF map_err
<1>6. LegIdle(l, start) \in LegType
  <2>1. [l EXCEPT !.state = "FENCE", !.desc = ~start, !.done = FALSE, !.code = "none"] \in LegType
    BY <1>1 DEF LegType
  <2> QED BY <1>1, <2>1 DEF LegIdle
<1>7. LegFence(l) \in LegType
  <2>1. Finish(l, map_err(err_code)) \in LegType
    BY <1>3, <1>5
  <2>2. [l EXCEPT !.state = IF l.desc THEN "DESC" ELSE "CHECK"] \in LegType
    BY <1>4
  <2> QED BY <1>1, <2>1, <2>2, Zenon DEF LegFence
<1>8. LegDesc(l, good) \in LegType
  <2>1. Finish(l, "ADDR") \in LegType
    BY <1>3
  <2>2. [l EXCEPT !.q = NoCmd, !.state = "DESCW"] \in LegType
    BY <1>1 DEF LegType, Packet
  <2>3. [l EXCEPT !.q = JobDesc] \in LegType
    BY <1>1, UnitAssumption DEF LegType, Packet
  <2> QED BY <2>1, <2>2, <2>3, Zenon DEF LegDesc
<1>9. LegDescWait(l) \in LegType
  <2>1. [l EXCEPT !.pend = "RRESP", !.state = "ERRW"] \in LegType
    BY <1>1 DEF LegType
  <2> QED BY <1>1, <1>4, <2>1 DEF LegDescWait
<1>10. LegCheck(l, good) \in LegType
  <2>1. ASSUME NEW n \in 0 .. 3
        PROVE  [l EXCEPT !.pidx = n, !.state = "PUSH"] \in LegType
    BY <1>1 DEF LegType
  <2>2. Finish(l, "DIM") \in LegType
    BY <1>3
  <2>3. 0 \in 0 .. 3
    OBVIOUS
  <2> QED BY <2>1, <2>2, <2>3, Zenon DEF LegCheck
<1>11. ASSUME leg.state = "PUSH"
       PROVE  LegPush(l) \in LegType
  <2> DEFINE n == (l.pidx + 1) % 4
             s == IF l.pidx = 3 THEN "RUN" ELSE l.state
  <2>1. n \in 0 .. 3 /\ l.pidx + 1 \in 1 .. 4 /\ s \in {"PUSH", "RUN"}
    BY <1>1, <1>11 DEF LegType
  <2>2. Job[l.pidx + 1] \in Cmd
    BY <1>1, <2>1, UnitAssumption
  <2>3. [l EXCEPT !.q = Job[l.pidx + 1]] \in LegType
    BY <1>1, <2>2 DEF LegType, Packet
  <2> HIDE DEF n, s
  <2>4. [l EXCEPT !.q = NoCmd, !.pidx = n, !.state = s] \in LegType
    BY <1>1, <2>1 DEF LegType, Packet
  <2>5. [l EXCEPT !.q = NoCmd, !.pidx = (@ + 1) % 4,
                  !.state = IF l.pidx = 3 THEN "RUN" ELSE @] \in LegType
    BY <2>4 DEF n, s
  <2> QED BY <2>3, <2>5, Zenon DEF LegPush
<1>12. LegRun(l) \in LegType
  <2>1. [l EXCEPT !.pend = map_err(err_code), !.state = "ERRW"] \in LegType
    BY <1>1, <1>5 DEF LegType
  <2>2. Finish(l, "none") \in LegType
    BY <1>3
  <2> QED BY <1>1, <2>1, <2>2, Zenon DEF LegRun
<1>13. LegErrWait(l) \in LegType
  <2>1. Finish(l, l.pend) \in LegType
    BY <1>1, <1>3 DEF LegType
  <2> QED BY <1>1, <2>1, Zenon DEF LegErrWait
<1> QED BY <1>0, <1>2, <1>6, <1>7, <1>8, <1>9, <1>10, <1>11, <1>12, <1>13 DEF LegType

\* The fetch unit keeps its types: a packet is a descriptor of the list that is
\* no bad one.
LEMMA FetchStep ==
    ASSUME PathTypeOK, NEW got, NEW rerr
    PROVE  fetch_next(got, rerr) \in FetchType
<1> DEFINE n == [fetch EXCEPT !.err_set = FALSE,
                              !.pkt = IF f_valid /\ f_ready THEN NoCmd ELSE @]
           n1 == CASE fetch.state = "IDLE" ->
                        IF pcpi.submit = NoList THEN n
                        ELSE [n EXCEPT !.state = "RUN", !.list = pcpi.submit]
                  [] fetch.state = "RUN" -> FetchRun(n, got)
                  [] fetch.state = "DRAIN" ->
                        IF got THEN [n EXCEPT !.state = "IDLE", !.list = <<>>] ELSE n
                  [] fetch.state = "ERR" -> IF clear_error THEN FetchAbandon(n) ELSE n
           n2 == IF clear_error /\ fetch.state = "RUN" THEN FetchAbandon(n1) ELSE n1
<1>0. fetch \in FetchType /\ pcpi \in PcpiType /\ err \in BOOLEAN
  BY DEF PathTypeOK
<1>1. fetch_next(got, rerr) = IF rerr THEN FetchFail(n2) ELSE n2
  BY Zenon DEF fetch_next
<1>2. n \in FetchType /\ n.list = fetch.list
  BY <1>0 DEF FetchType, Packet
<1>3. ASSUME NEW f \in FetchType
      PROVE  FetchAbandon(f) \in FetchType /\ FetchFail(f) \in FetchType
  BY <1>3 DEF FetchAbandon, FetchFail, FetchType, Packet
<1> HIDE DEF n
<1>4. FetchRun(n, got) \in FetchType
  <2>1. [n EXCEPT !.state = "ERR"] \in FetchType /\ [n EXCEPT !.state = "DRAIN"] \in FetchType
    BY <1>2 DEF FetchType
  <2>2. ASSUME n.list # <<>>, Head(n.list) # BadDesc
        PROVE  [n EXCEPT !.pkt = Head(n.list), !.list = Tail(@)] \in FetchType
    <3>1. n.list \in Seq(Words)
      BY <1>2 DEF FetchType
    <3>2. Head(n.list) \in Cmd /\ Tail(n.list) \in Seq(Words)
      BY <2>2, <3>1, HeadTailProperties DEF Words
    <3> QED BY <1>2, <3>2 DEF FetchType, Packet
  <2>3. FetchFail(n) \in FetchType
    BY <1>2, <1>3
  <2>4. \/ FetchRun(n, got) = [n EXCEPT !.state = "ERR"]
        \/ FetchRun(n, got) = n
        \/ FetchRun(n, got) = [n EXCEPT !.state = "DRAIN"]
        \/ FetchRun(n, got) = FetchFail(n)
        \/ /\ n.list # <<>> /\ Head(n.list) # BadDesc
           /\ FetchRun(n, got) = [n EXCEPT !.pkt = Head(n.list), !.list = Tail(@)]
    BY Zenon DEF FetchRun
  <2> QED BY <1>2, <2>1, <2>2, <2>3, <2>4, Zenon
<1>5. n1 \in FetchType
  <2>1. CASE fetch.state = "IDLE"
    <3>1. n1 = IF pcpi.submit = NoList THEN n
               ELSE [n EXCEPT !.state = "RUN", !.list = pcpi.submit]
      BY <2>1
    <3>2. pcpi.submit # NoList => pcpi.submit \in Seq(Words)
      BY <1>0, UnitAssumption DEF PcpiType, Words
    <3>3. pcpi.submit # NoList => [n EXCEPT !.state = "RUN", !.list = pcpi.submit] \in FetchType
      BY <1>2, <3>2 DEF FetchType
    <3> QED BY <1>2, <3>1, <3>3, Zenon
  <2>2. CASE fetch.state = "RUN"
    BY <2>2, <1>4
  <2>3. CASE fetch.state = "DRAIN"
    <3>1. n1 = IF got THEN [n EXCEPT !.state = "IDLE", !.list = <<>>] ELSE n
      BY <2>3
    <3>2. [n EXCEPT !.state = "IDLE", !.list = <<>>] \in FetchType
      BY <1>2, EmptySeq DEF FetchType
    <3> QED BY <1>2, <3>1, <3>2, Zenon
  <2>4. CASE fetch.state = "ERR"
    <3>1. n1 = IF clear_error THEN FetchAbandon(n) ELSE n
      BY <2>4
    <3> QED BY <1>2, <1>3, <3>1, Zenon
  <2> QED BY <1>0, <2>1, <2>2, <2>3, <2>4 DEF FetchType
<1> HIDE DEF n1
<1>6. n2 \in FetchType
  BY <1>3, <1>5, Zenon
<1> HIDE DEF n2
<1> QED BY <1>1, <1>3, <1>6, Zenon

-----------------------------------------------------------------------------
\* Every unit starts in a state of the scheduler alone, its sources empty.
LEMMA UnitInitPath ==
    ASSUME UnitInit
    PROVE  Init /\ PathTypeOK
<1>1. Init /\ world \in World /\ err \in BOOLEAN
  BY Zenon DEF UnitInit, Init, SchedInit
<1>2. pcpi \in PcpiType
  BY DEF UnitInit, PcpiType, Decoded, InsnType, Packet
<1>3. leg \in LegType
  BY DEF UnitInit, LegType, Packet
<1>4. fetch \in FetchType
  BY EmptySeq DEF UnitInit, FetchType, Packet
<1> QED BY <1>1, <1>2, <1>3, <1>4 DEF PathTypeOK

\* The core may complete a store to CTRL: no instruction is at the decoder.
Stores == pcpi.state = "IDLE" /\ leg.state = "IDLE" /\ \E x \in world.insn : x.op = "start"

\* An edge of the unit is an edge of its blocks, with inputs from the sources
\* and the engines.
LEMMA UnitInputs ==
    ASSUME PathTypeOK, UnitNext
    PROVE  \E i, start, good, got, rerr, rdy, dn, bad :
              /\ i = <<>> \/ (i[1] \in Decoded /\ i[1] \in world.insn)
              /\ start => Stores
              /\ good \in Goods /\ rerr \in ReadErrs
              /\ dn \subseteq CanFinish /\ rdy \subseteq CanTake(dn)
              /\ bad \subseteq dn \cap {"LD", "ST"} /\ bad \subseteq world.bus
              /\ UnitEdge(i, start, good, got, rerr, rdy, dn, bad)
<1>1. PICK p \in Presented, good \in Goods, rerr \in ReadErrs :
        \E got \in {g \in Gots : FALSE => g} :
        \E dn \in {s \in SUBSET CanFinish : {} \subseteq s} :
        \E rdy \in Takes(dn), bad \in SUBSET (dn \cap world.bus) :
            LET write == p # <<>> /\ p[1].op = "start"
                i     == IF write THEN <<>> ELSE p
            IN  /\ write => ~leg_busy
                /\ UnitEdge(i, write, good, got, rerr, rdy, dn, bad)
  BY Zenon DEF UnitNext, UnitCycle
<1> DEFINE write == p # <<>> /\ p[1].op = "start"
           i     == IF write THEN <<>> ELSE p
<1>2. PICK got \in {g \in Gots : FALSE => g}, dn \in {s \in SUBSET CanFinish : {} \subseteq s} :
        \E rdy \in Takes(dn), bad \in SUBSET (dn \cap world.bus) :
            UnitEdge(i, write, good, got, rerr, rdy, dn, bad)
  BY <1>1, Zenon
<1>3. PICK rdy \in Takes(dn), bad \in SUBSET (dn \cap world.bus) :
            UnitEdge(i, write, good, got, rerr, rdy, dn, bad)
  BY <1>2, Zenon
<1>4. i = <<>> \/ (i[1] \in Decoded /\ i[1] \in world.insn)
  <2>1. IsWorld(world)
    BY UnitAssumption DEF PathTypeOK
  <2>2. p = <<>> \/ \E x \in world.insn : p = <<x>>
    BY DEF Presented
  <2>3. p # <<>> => p[1] \in InsnType /\ p[1] \in world.insn
    BY <2>1, <2>2 DEF IsWorld
  <2> QED BY <2>3 DEF Decoded
<1>5. dn \subseteq CanFinish
  BY <1>2
<1>6. rdy \subseteq CanTake(dn)
  BY <1>3 DEF Takes
<1>7. bad \subseteq dn \cap {"LD", "ST"} /\ bad \subseteq world.bus
  BY <1>3, UnitAssumption DEF PathTypeOK, IsWorld
<1>8. write => Stores
  <2>1. p # <<>> => pcpi.state = "IDLE" /\ p[1] \in world.insn
    BY DEF Presented
  <2> QED BY <1>1, <2>1 DEF Stores, leg_busy
<1> HIDE DEF i, write
<1> QED BY <1>3, <1>4, <1>5, <1>6, <1>7, <1>8, Zenon

\* The types of the sources survive an edge.
LEMMA PathStep ==
    ASSUME PathTypeOK, [UnitNext]_unitVars
    PROVE  PathTypeOK'
<1>1. CASE UnitNext
  <2>1. PICK i, start, good, got, rerr, rdy, dn, bad :
            /\ i = <<>> \/ i[1] \in Decoded
            /\ UnitEdge(i, start, good, got, rerr, rdy, dn, bad)
    BY <1>1, UnitInputs, ZenonT(60)
  <2>2. pcpi' \in PcpiType
    BY <2>1, PcpiStep, Zenon DEF UnitEdge
  <2>3. leg' \in LegType
    BY <2>1, LegStep, Zenon DEF UnitEdge
  <2>4. fetch' \in FetchType
    BY <2>1, FetchStep, Zenon DEF UnitEdge
  <2>5. world' = world
    BY <2>1, Zenon DEF UnitEdge
  <2>6. err' \in BOOLEAN
    BY <2>1, Zenon DEF UnitEdge, SchedEdge, SchedError, PathTypeOK
  <2> QED BY <2>2, <2>3, <2>4, <2>5, <2>6 DEF PathTypeOK, PcpiType, LegType, FetchType
<1>2. CASE UNCHANGED unitVars
  BY <1>2 DEF unitVars, vars, schedVars, PathTypeOK, PcpiType, LegType, FetchType
<1> QED BY <1>1, <1>2

-----------------------------------------------------------------------------
\* Every edge of the unit is an edge of the scheduler in its environment: the
\* sources offer commands, errors while the sticky error is set change nothing,
\* a full FIFO takes nothing, and clear_error is raised over idle engines only.
LEMMA UnitStepIsTick ==
    ASSUME PathTypeOK, UnitNext
    PROVE  Next
<1>1. PICK i, start, good, got, rerr, rdy, dn, bad :
          /\ dn \subseteq CanFinish /\ rdy \subseteq CanTake(dn)
          /\ bad \subseteq dn \cap {"LD", "ST"}
          /\ UnitEdge(i, start, good, got, rerr, rdy, dn, bad)
  BY UnitInputs
<1> DEFINE ferr == IF fetch.err_set THEN "SHAPE" ELSE "none"
           in0 == IF in_ready THEN in_pkt ELSE NoCmd
           bad0 == IF err THEN {} ELSE bad
           ferr0 == IF err THEN "none" ELSE ferr
<1>2. SchedEdge(in_pkt, rdy, dn, bad, ferr) /\ clear_error' = clear_next
  BY <1>1, Zenon DEF UnitEdge
<1>3. inq_next(in0) = inq_next(in_pkt)
  BY DEF inq_next
<1>4. SchedError(bad0, ferr0)
  <2>1. SchedError(bad, ferr)
    BY <1>2, Zenon DEF SchedEdge
  <2>2. CASE err
    BY <2>1, <2>2, Zenon DEF SchedError
  <2>3. CASE ~err
    BY <2>1, <2>3, Zenon
  <2> QED BY <2>2, <2>3
<1>5. SchedEdge(in0, rdy, dn, bad0, ferr0)
  BY <1>2, <1>3, <1>4, Zenon DEF SchedEdge
<1>6. ClearPulse
  <2>1. clear_next \in BOOLEAN /\ (clear_next => eng_idle)
    BY DEF clear_next, reset_now, job_failed
  <2> QED BY <1>2, <2>1 DEF ClearPulse
<1>7. in0 \in (IF in_ready THEN Cmd ELSE {}) \cup {NoCmd}
  BY InPacket DEF Packet
<1>8. bad0 \in SUBSET (IF err THEN {} ELSE dn \cap {"LD", "ST"})
  BY <1>1
<1>9. ferr0 \in (IF err THEN {} ELSE {"SHAPE"}) \cup {"none"}
  OBVIOUS
<1>10. dn \in SUBSET CanFinish /\ rdy \in SUBSET CanTake(dn)
  BY <1>1
<1> HIDE DEF in0, bad0, ferr0
<1>11. Tick(in0, rdy, dn, bad0, ferr0)
  BY <1>5, <1>6, Zenon DEF Tick
<1> QED BY <1>7, <1>8, <1>9, <1>10, <1>11, Zenon DEF Next

\* The command path of sa_unit.v implements the scheduler's specification:
\* what the scheduler assumes of its inputs, of clear_error and of the engines
\* is what the decoder, the sequencer, the fetch unit and the arbiter do.
THEOREM UnitImplementsSched == UnitSpec => Spec
<1>1. UnitInit => Init /\ PathTypeOK
  BY UnitInitPath
<1>2. PathTypeOK /\ [UnitNext]_unitVars => PathTypeOK'
  BY PathStep
<1>3. PathTypeOK /\ [UnitNext]_unitVars => [Next]_vars
  BY UnitStepIsTick, Zenon DEF unitVars
<1> QED BY <1>1, <1>2, <1>3, PTL DEF UnitSpec, Spec

\* In the whole command path, whatever instructions, lists, jobs and mat_resets
\* the core mixes, two engines never have conflicting accesses in flight.
THEOREM UnitExclusion == UnitSpec => []BankExclusion
  BY UnitImplementsSched, Exclusion, PTL

\* Nor does a queue of the scheduler overflow there.
THEOREM UnitQueuesBounded == UnitSpec => []Bounded
  BY UnitImplementsSched, QueuesBounded, PTL

-----------------------------------------------------------------------------
(***************************************************************************)
(* The error of a job stays with the job.  Where only jobs can fail, a     *)
(* command that may fail is in the pipeline or in an engine only while the *)
(* job runs (DESCW, PUSH, RUN) or waits for its engines (ERRW); between    *)
(* jobs an error that is still set is one that the sequencer has just told *)
(* the scheduler to clear, with the engines idle.                          *)
(***************************************************************************)

\* The commands that cannot fail.
Safe == {x \in Cmd : x.ok /\ x.eng \notin world.bus}

\* What the core's program adds: no lists, safe commands.
CoreSafe ==
    /\ fetch.state = "IDLE" /\ fetch.pkt = NoCmd /\ ~fetch.err_set
    /\ pcpi.submit = NoList /\ pcpi.q \in Safe \cup {NoCmd}
    /\ pcpi.insn.op # "submit" /\ (pcpi.insn.op = "run" => pcpi.insn.cmd \in Safe)

Between == leg.state \in {"IDLE", "FENCE", "DESC", "CHECK"}

SequencerOK ==
    /\ leg.q # NoCmd => leg.state \in {"DESC", "PUSH"}
    /\ clear_error => leg.state \in {"IDLE", "FENCE"}
    /\ leg.state = "ERRW" => err

PipeSafe == inq \in Seq(Safe) /\ d1 \in Safe \cup {NoCmd} /\ d2 \in Safe \cup {NoCmd}
EnginesSafe == \A e \in Eng : mk[e] \in Seq(Safe)

Contained ==
    OnlyJobsFail =>
        /\ CoreSafe /\ SequencerOK
        /\ Between => EnginesSafe /\ (IF err THEN clear_error ELSE PipeSafe)

\* No command is in the pipeline, none is offered, no list is.
LEMMA InitContained ==
    ASSUME UnitInit
    PROVE  Contained
<1>1. CoreSafe
  BY DEF UnitInit, CoreSafe
<1>2. /\ SequencerOK
      /\ inq = <<>> /\ d1 = NoCmd /\ d2 = NoCmd /\ ~err
      /\ mk = [e \in Eng |-> <<>>]
  BY DEF UnitInit, Init, SchedInit, SequencerOK
<1>3. PipeSafe /\ EnginesSafe
  BY <1>2, EmptySeq DEF PipeSafe, EnginesSafe
<1> QED BY <1>1, <1>2, <1>3 DEF Contained

\* The core goes on to offer safe commands and no list.
LEMMA CoreStep ==
    ASSUME PathTypeOK, OnlyJobsFail, CoreSafe,
           NEW i, i = <<>> \/ (i[1] \in Decoded /\ i[1] \in world.insn), NEW start,
           NEW got, NEW rerr \in ReadErrs,
           pcpi' = pcpi_next(i, start), fetch' = fetch_next(got, rerr), world' = world
    PROVE  CoreSafe'
<1> DEFINE p == PcpiIdle
<1>0. pcpi \in PcpiType /\ fetch \in FetchType
  BY DEF PathTypeOK
<1>1. ~rerr
  BY DEF CoreSafe, ReadErrs
<1>2. fetch'.state = "IDLE" /\ fetch'.pkt = NoCmd /\ ~fetch'.err_set
  <2> DEFINE n == [fetch EXCEPT !.err_set = FALSE,
                                !.pkt = IF f_valid /\ f_ready THEN NoCmd ELSE @]
  <2>1. n.state = "IDLE" /\ n.pkt = NoCmd /\ n.err_set = FALSE
    BY <1>0 DEF CoreSafe, FetchType
  <2> HIDE DEF n
  <2>2. fetch_next(got, rerr) = n
    <3> USE DEF n
    <3> QED BY <1>1 DEF CoreSafe, fetch_next
  <2> QED BY <2>1, <2>2
<1>3. /\ p \in PcpiType /\ p.submit = NoList /\ p.q = pcpi.q /\ p.insn = pcpi.insn
      /\ p.state = pcpi.state
  BY <1>0 DEF PcpiIdle, PcpiType
<1> HIDE DEF p
<1>4. ASSUME NEW r \in PcpiType
      PROVE  /\ Respond(r).submit = r.submit /\ Respond(r).q = r.q
             /\ Respond(r).insn = r.insn
  BY <1>4 DEF Respond, PcpiType
<1>5. /\ pcpi'.submit = NoList /\ pcpi'.q \in {pcpi.q, NoCmd, pcpi.insn.cmd}
      /\ pcpi'.q = pcpi.insn.cmd /\ pcpi'.q # pcpi.q /\ pcpi'.q # NoCmd
            => pcpi.insn.op = "run"
      /\ pcpi'.insn = pcpi.insn \/ (i # <<>> /\ pcpi'.insn = i[1])
  <2>1. CASE pcpi.state = "IDLE"
    <3>1. pcpi' = IF i = <<>> THEN p ELSE [p EXCEPT !.state = "EXEC", !.insn = i[1]]
      BY <2>1 DEF pcpi_next, p
    <3>2. CASE i = <<>>
      BY <1>3, <3>1, <3>2
    <3>3. CASE i # <<>>
      <4>1. pcpi' = [p EXCEPT !.state = "EXEC", !.insn = i[1]]
        BY <3>1, <3>3
      <4>2. pcpi'.submit = p.submit /\ pcpi'.q = p.q /\ pcpi'.insn = i[1]
        BY <1>3, <4>1 DEF PcpiType
      <4> QED BY <1>3, <3>3, <4>2
    <3> QED BY <3>2, <3>3
  <2>2. CASE pcpi.state = "DONE"
    <3>1. pcpi' = [p EXCEPT !.state = "IDLE"]
      BY <2>2 DEF pcpi_next, p
    <3> QED BY <1>3, <3>1 DEF PcpiType
  <2>3. CASE pcpi.state = "EXEC"
    <3>0. pcpi' = Execute(start)
      BY <2>3 DEF pcpi_next
    <3>1. CASE p.insn.op = "run"
      <4>1. Execute(start) = ExecRun(p)
        BY <3>1 DEF Execute, p
      <4>2. /\ [p EXCEPT !.q = NoCmd].submit = NoList /\ [p EXCEPT !.q = NoCmd].q = NoCmd
            /\ [p EXCEPT !.q = NoCmd].insn = p.insn /\ [p EXCEPT !.q = NoCmd] \in PcpiType
        BY <1>3 DEF PcpiType, Packet
      <4>3. /\ [p EXCEPT !.q = p.insn.cmd].submit = NoList
            /\ [p EXCEPT !.q = p.insn.cmd].q = p.insn.cmd
            /\ [p EXCEPT !.q = p.insn.cmd].insn = p.insn
        BY <1>3 DEF PcpiType
      <4> QED BY <1>3, <1>4, <3>0, <3>1, <4>1, <4>2, <4>3, ZenonT(60) DEF ExecRun
    <3>2. CASE p.insn.op = "fence"
      <4>1. Execute(start) = ExecFence(p)
        BY <3>2 DEF Execute, p
      <4>2. /\ [p EXCEPT !.rd = err].submit = NoList /\ [p EXCEPT !.rd = err].q = p.q
            /\ [p EXCEPT !.rd = err].insn = p.insn /\ [p EXCEPT !.rd = err] \in PcpiType
        BY <1>3 DEF PcpiType, PathTypeOK
      <4> QED BY <1>3, <1>4, <3>0, <4>1, <4>2, Zenon DEF ExecFence
    <3>3. CASE p.insn.op = "base"
      <4>1. Execute(start) = ExecBase(p)
        BY <3>3 DEF Execute, p
      <4> QED BY <1>3, <1>4, <3>0, <4>1 DEF ExecBase
    <3>4. CASE p.insn.op = "trigger"
      <4>1. Execute(start) = ExecTrigger(p, start)
        BY <3>4 DEF Execute, p
      <4>2. ASSUME NEW x \in BOOLEAN
            PROVE  /\ [p EXCEPT !.trigger = x].submit = NoList
                   /\ [p EXCEPT !.trigger = x].q = p.q
                   /\ [p EXCEPT !.trigger = x].insn = p.insn
                   /\ [p EXCEPT !.trigger = x] \in PcpiType
        BY <1>3, <4>2 DEF PcpiType
      <4> QED BY <1>3, <1>4, <3>0, <4>1, <4>2, ZenonT(60) DEF ExecTrigger
    <3>5. CASE p.insn.op = "wait"
      <4>1. Execute(start) = ExecWait(p)
        BY <3>5 DEF Execute, p
      <4> QED BY <1>3, <1>4, <3>0, <4>1 DEF ExecWait
    <3>6. CASE p.insn.op = "reset"
      <4>1. Execute(start) = ExecReset(p)
        BY <3>6 DEF Execute, p
      <4>2. ASSUME NEW x \in BOOLEAN
            PROVE  /\ [p EXCEPT !.reset = x].submit = NoList
                   /\ [p EXCEPT !.reset = x].q = p.q
                   /\ [p EXCEPT !.reset = x].insn = p.insn
                   /\ [p EXCEPT !.reset = x] \in PcpiType
        BY <1>3, <4>2 DEF PcpiType
      <4> QED BY <1>3, <1>4, <3>0, <4>1, <4>2, ZenonT(60) DEF ExecReset
    <3>7. p.insn.op \in {"run", "fence", "base", "trigger", "wait", "reset"}
      BY <1>0, <1>3 DEF CoreSafe, PcpiType, Decoded, InsnType
    <3> QED BY <3>1, <3>2, <3>3, <3>4, <3>5, <3>6, <3>7
  <2> QED BY <1>0, <2>1, <2>2, <2>3 DEF PcpiType
<1>6. Safe' = Safe
  BY DEF Safe
<1>7. pcpi'.q \in Safe \cup {NoCmd}
  BY <1>5 DEF CoreSafe
<1>8. ASSUME i # <<>>
      PROVE  i[1].op # "submit" /\ (i[1].op = "run" => i[1].cmd \in Safe)
  <2>1. i[1] \in world.insn /\ i[1] \in InsnType
    BY <1>8 DEF Decoded
  <2>2. i[1].op = "run" => i[1].cmd \in Cmd
    BY <2>1 DEF InsnType
  <2> QED BY <2>1, <2>2 DEF OnlyJobsFail, Safe
<1> QED BY <1>2, <1>5, <1>6, <1>7, <1>8 DEF CoreSafe

\* Where the sequencer goes in an edge (the states L_IDLE .. L_ERRW of
\* sa_legacy.v), and what it offers then.
LEMMA LegMoves ==
    ASSUME PathTypeOK, NEW start, NEW good \in Goods, leg' = leg_next(start, good)
    PROVE  \/ leg.state = "IDLE" /\ leg'.state \in {"IDLE", "FENCE"} /\ leg'.q = leg.q
           \/ /\ leg.state = "FENCE" /\ leg'.state \in {"IDLE", "FENCE", "DESC", "CHECK"}
              /\ leg'.q = leg.q
           \/ leg.state = "DESC" /\ ~l_valid /\ leg'.state = "IDLE" /\ leg'.q = NoCmd
           \/ leg.state = "DESC" /\ ~(l_valid /\ in_ready) /\ leg'.state = "DESC"
           \/ leg.state = "DESC" /\ leg'.state = "DESCW" /\ leg'.q = NoCmd
           \/ leg.state = "CHECK" /\ leg'.state \in {"IDLE", "PUSH"} /\ leg'.q = leg.q
           \/ leg.state = "PUSH" /\ leg'.state = "PUSH"
           \/ leg.state = "PUSH" /\ leg'.state = "RUN" /\ leg'.q = NoCmd
           \/ leg.state \in {"DESCW", "RUN"} /\ leg'.state = leg.state /\ leg'.q = leg.q
           \/ leg.state \in {"DESCW", "RUN"} /\ err /\ leg'.state = "ERRW" /\ leg'.q = leg.q
           \/ /\ leg.state \in {"DESCW", "RUN"} /\ ~err /\ idle
              /\ leg'.state \in {"IDLE", "CHECK"} /\ leg'.q = leg.q
           \/ leg.state = "ERRW" /\ leg'.state = "ERRW" /\ leg'.q = leg.q
           \/ leg.state = "ERRW" /\ job_failed /\ leg'.state = "IDLE" /\ leg'.q = leg.q
<1> DEFINE l == IF reset_now
                THEN [leg EXCEPT !.done = FALSE, !.code = "none", !.reset_done = TRUE]
                ELSE [leg EXCEPT !.reset_done = FALSE]
<1>0. leg \in LegType
  BY DEF PathTypeOK
<1>1. l \in LegType /\ l.state = leg.state /\ l.q = leg.q /\ l.pidx = leg.pidx
  <2>1. CASE reset_now
    BY <1>0, <2>1 DEF LegType
  <2>2. CASE ~reset_now
    BY <1>0, <2>2 DEF LegType
  <2> QED BY <2>1, <2>2
<1>2. /\ leg.state = "IDLE" => leg' = LegIdle(l, start)
      /\ leg.state = "FENCE" => leg' = LegFence(l)
      /\ leg.state = "DESC" => leg' = LegDesc(l, good)
      /\ leg.state = "DESCW" => leg' = LegDescWait(l)
      /\ leg.state = "CHECK" => leg' = LegCheck(l, good)
      /\ leg.state = "PUSH" => leg' = LegPush(l)
      /\ leg.state = "RUN" => leg' = LegRun(l)
      /\ leg.state = "ERRW" => leg' = LegErrWait(l)
  BY DEF leg_next
<1> HIDE DEF l
<1>3. ASSUME NEW c
      PROVE  Finish(l, c).state = "IDLE" /\ Finish(l, c).q = leg.q
  BY <1>1 DEF Finish, LegType
<1>4. /\ [l EXCEPT !.state = "DESC"].state = "DESC" /\ [l EXCEPT !.state = "DESC"].q = leg.q
      /\ [l EXCEPT !.state = "CHECK"].state = "CHECK" /\ [l EXCEPT !.state = "CHECK"].q = leg.q
  BY <1>1 DEF LegType
<1>5. CASE leg.state = "IDLE"
  <2> DEFINE m == [l EXCEPT !.state = "FENCE", !.desc = ~start, !.done = FALSE, !.code = "none"]
  <2>1. m.state = "FENCE" /\ m.q = leg.q
    BY <1>1 DEF LegType
  <2>2. leg' = m \/ leg' = l
    BY <1>2, <1>5, Zenon DEF LegIdle
  <2> QED BY <1>1, <1>5, <2>1, <2>2
<1>6. CASE leg.state = "FENCE"
  <2>1. leg' = Finish(l, map_err(err_code)) \/ leg' = [l EXCEPT !.state = "DESC"]
            \/ leg' = [l EXCEPT !.state = "CHECK"] \/ leg' = l
    BY <1>2, <1>6 DEF LegFence
  <2>2. CASE leg' = Finish(l, map_err(err_code))
    BY <1>3, <1>6, <2>2
  <2> QED BY <1>1, <1>4, <1>6, <2>1, <2>2
<1>7. CASE leg.state = "DESC"
  <2> DEFINE m == [l EXCEPT !.q = NoCmd, !.state = "DESCW"]
             o == [l EXCEPT !.q = JobDesc]
  <2>1. m.state = "DESCW" /\ m.q = NoCmd /\ o.state = "DESC"
    BY <1>1, <1>7 DEF LegType
  <2>2. ~good => ~l_valid
    BY <1>7 DEF Goods, l_valid
  <2>3. \/ ~good /\ leg' = Finish(l, "ADDR")
        \/ leg' = m
        \/ ~(l_valid /\ in_ready) /\ leg' = o
    BY <1>2, <1>7, Zenon DEF LegDesc
  <2>4. CASE ~good /\ leg' = Finish(l, "ADDR")
    BY <1>3, <1>7, <2>2, <2>4 DEF l_valid
  <2> QED BY <1>7, <2>1, <2>3, <2>4
<1>8. CASE leg.state = "DESCW"
  <2> DEFINE m == [l EXCEPT !.pend = "RRESP", !.state = "ERRW"]
  <2>1. m.state = "ERRW" /\ m.q = leg.q
    BY <1>1 DEF LegType
  <2>2. \/ err /\ leg' = m
        \/ ~err /\ idle /\ leg' = [l EXCEPT !.state = "CHECK"]
        \/ leg' = l
    BY <1>2, <1>8, Zenon DEF LegDescWait
  <2> QED BY <1>1, <1>4, <1>8, <2>1, <2>2
<1>9. CASE leg.state = "CHECK"
  <2> DEFINE m == [l EXCEPT !.pidx = 0, !.state = "PUSH"]
  <2>1. m.state = "PUSH" /\ m.q = leg.q
    BY <1>1 DEF LegType
  <2>2. leg' = m \/ leg' = Finish(l, "DIM")
    BY <1>2, <1>9, Zenon DEF LegCheck
  <2> QED BY <1>3, <1>9, <2>1, <2>2
<1>10. CASE leg.state = "PUSH"
  <2> DEFINE n == (l.pidx + 1) % 4
             s == IF l.pidx = 3 THEN "RUN" ELSE l.state
             m == [l EXCEPT !.q = NoCmd, !.pidx = n, !.state = s]
             o == [l EXCEPT !.q = Job[l.pidx + 1]]
  <2>1. s \in {"PUSH", "RUN"}
    BY <1>1, <1>10
  <2> HIDE DEF n, s
  <2>2. m.state = s /\ m.q = NoCmd /\ o.state = "PUSH"
    BY <1>1, <1>10 DEF LegType
  <2>3. leg' = m \/ leg' = o
    <3> USE DEF n, s
    <3>1. LegPush(l) = IF l_valid /\ in_ready THEN m ELSE o
      BY Zenon DEF LegPush
    <3> QED BY <1>2, <1>10, <3>1
  <2> QED BY <1>10, <2>1, <2>2, <2>3
<1>11. CASE leg.state = "RUN"
  <2> DEFINE m == [l EXCEPT !.pend = map_err(err_code), !.state = "ERRW"]
  <2>1. m.state = "ERRW" /\ m.q = leg.q
    BY <1>1 DEF LegType
  <2>2. \/ err /\ leg' = m
        \/ ~err /\ idle /\ leg' = Finish(l, "none")
        \/ leg' = l
    BY <1>2, <1>11, Zenon DEF LegRun
  <2> QED BY <1>1, <1>3, <1>11, <2>1, <2>2
<1>12. CASE leg.state = "ERRW"
  <2>1. (job_failed /\ leg' = Finish(l, l.pend)) \/ leg' = l
    BY <1>2, <1>12, Zenon DEF LegErrWait
  <2> QED BY <1>1, <1>3, <1>12, <2>1
<1> QED BY <1>0, <1>5, <1>6, <1>7, <1>8, <1>9, <1>10, <1>11, <1>12 DEF LegType

\* The sequencer offers a packet only in L_DESC and L_PUSH, its clear_error
\* falls on an idle or a waiting sequencer, and it waits for the engines of a
\* failed job with the sticky error set.
LEMMA SequencerStep ==
    ASSUME PathTypeOK, SequencerOK, NEW start, NEW good \in Goods,
           leg' = leg_next(start, good), clear_error' = clear_next,
           ~clear_error => (err => err')
    PROVE  SequencerOK'
<1>1. clear_error' => \/ leg.state = "IDLE" /\ leg'.state \in {"IDLE", "FENCE"}
                      \/ leg.state = "ERRW" /\ leg'.state = "IDLE"
  <2>1. CASE leg.state = "IDLE"
    BY <2>1, LegMoves
  <2>2. CASE leg.state = "ERRW" /\ eng_idle
    <3>1. leg'.state = "IDLE"
      <4> DEFINE l == [leg EXCEPT !.reset_done = FALSE]
      <4>1. l.state = "ERRW" /\ l \in LegType
        BY <2>2 DEF PathTypeOK, LegType
      <4>2. ~reset_now
        BY <2>2 DEF reset_now, leg_busy
      <4>3. leg' = LegErrWait(l)
        BY <2>2, <4>2 DEF leg_next
      <4> HIDE DEF l
      <4>4. leg' = Finish(l, l.pend)
        BY <2>2, <4>3 DEF LegErrWait, job_failed
      <4> QED BY <4>1, <4>4 DEF Finish, LegType
    <3> QED BY <2>2, <3>1
  <2>3. clear_next => leg.state = "IDLE" \/ (leg.state = "ERRW" /\ eng_idle)
    BY DEF clear_next, reset_now, job_failed, leg_busy
  <2> QED BY <2>1, <2>2, <2>3
<1>2. leg'.q # NoCmd => leg'.state \in {"DESC", "PUSH"}
  BY LegMoves DEF SequencerOK
<1>3. leg'.state = "ERRW" => err'
  <2>1. leg.state \in {"DESCW", "RUN", "ERRW"} => ~clear_error
    BY DEF SequencerOK
  <2> QED BY <2>1, LegMoves DEF SequencerOK
<1> QED BY <1>1, <1>2, <1>3 DEF SequencerOK

\* A safe pipeline takes in safe commands only, so it stays safe.
LEMMA PipeStep ==
    ASSUME TypeOK, PipeSafe, NEW in, in_ready => in \in Safe \cup {NoCmd}
    PROVE  /\ inq_next(in) \in Seq(Safe)
           /\ d1_next \in Safe \cup {NoCmd} /\ d2_next \in Safe \cup {NoCmd}
<1> DEFINE kept == IF fifo_pop THEN Tail(inq) ELSE inq
           new == IF in # NoCmd /\ in_ready THEN <<in>> ELSE <<>>
<1>1. kept \in Seq(Safe) /\ (fifo_pop => Head(inq) \in Safe)
  BY HeadTailProperties DEF PipeSafe, fifo_pop
<1>2. new \in Seq(Safe)
  BY EmptySeq
<1>3. inq_next(in) = IF clear_error THEN <<>> ELSE kept \o new
  BY Zenon DEF inq_next
<1> HIDE DEF kept, new
<1>4. kept \o new \in Seq(Safe)
  BY <1>1, <1>2, ConcatProperties
<1>5. inq_next(in) \in Seq(Safe)
  BY <1>3, <1>4, EmptySeq
<1>6. d1_next \in {NoCmd, d1} \/ (fifo_pop /\ d1_next = Head(inq))
  BY DEF d1_next, TypeOK
<1>7. d2_next \in {NoCmd, d2, d1}
  BY DEF d2_next, TypeOK
<1> QED BY <1>1, <1>5, <1>6, <1>7 DEF PipeSafe

\* An engine that may finish has a command in flight.
LEMMA FinishesOne ==
    ASSUME TypeOK, NEW e \in CanFinish
    PROVE  e \in Eng /\ mk[e] # <<>> /\ 1 \in 1 .. Len(mk[e])
<1> DEFINE m == Len(mk[e])
           q == Len(eq[e])
<1>1. e \in Eng /\ Running(e) > 0
  BY DEF CanFinish
<1>2. mk[e] \in Seq(Cmd) /\ eq[e] \in Seq(Cmd)
  BY <1>1 DEF TypeOK
<1>3. m \in Nat /\ q \in Nat /\ Running(e) = m - q
  BY <1>2 DEF Running
<1> HIDE DEF m, q
<1>4. m > 0 /\ 1 \in 1 .. m
  BY <1>1, <1>3
<1> QED BY <1>1, <1>2, <1>4, EmptySeq DEF m

\* An engine is given a safe command, if any.
LEMMA EnginesStep ==
    ASSUME IInv, EnginesSafe, dispatch => d2 \in Safe, NEW dn, dn \subseteq CanFinish,
           NEW e \in Eng
    PROVE  mk_next(dn)[e] \in Seq(Safe)
<1> DEFINE q == mk[e]
           kept == IF e \in dn THEN Tail(q) ELSE q
           new == IF dispatch /\ d2.eng = e THEN <<d2>> ELSE <<>>
<1>1. q \in Seq(Safe)
  BY DEF EnginesSafe
<1>2. e \in dn => q # <<>>
  BY FinishesOne DEF IInv
<1>3. mk_next(dn)[e] = kept \o new
  BY DEF mk_next, Shifted
<1> HIDE DEF q
<1>4. kept \in Seq(Safe)
  BY <1>1, <1>2, HeadTailProperties
<1>5. new \in Seq(Safe)
  BY EmptySeq
<1> HIDE DEF kept, new
<1> QED BY <1>3, <1>4, <1>5, ConcatProperties

\* No safe command raises the sticky error, neither at dispatch nor on the bus.
LEMMA NothingRaised ==
    ASSUME IInv, EnginesSafe, ~err, d2 \in Safe \cup {NoCmd},
           NEW dn, dn \subseteq CanFinish, NEW bad, bad \subseteq dn, bad \subseteq world.bus,
           SchedError(bad, "none")
    PROVE  ~err'
<1>1. ~reject
  BY DEF reject, Safe
<1>2. ASSUME NEW e \in bad
      PROVE  FALSE
  <2>1. e \in CanFinish
    BY <1>2
  <2>2. TypeOK
    BY DEF IInv
  <2>3. e \in Eng /\ 1 \in 1 .. Len(mk[e])
    BY <2>1, <2>2, FinishesOne
  <2>4. mk[e][1] \in Safe
    BY <2>3 DEF EnginesSafe
  <2>5. mk[e][1].eng = e
    BY <2>3 DEF IInv, MasksCoverQueue
  <2> QED BY <1>2, <2>4, <2>5 DEF Safe
<1>3. bad = {}
  BY <1>2
<1> QED BY <1>1, <1>3 DEF SchedError

\* An edge that begins with nothing unsafe outside a job (or with a pipeline and
\* engines that a job has left empty) leaves nothing unsafe.
LEMMA QuietStep ==
    ASSUME IInv, CoreSafe, EnginesSafe, IF err THEN clear_error ELSE PipeSafe,
           l_valid /\ in_ready => leg.q \in Safe,
           NEW rdy, NEW dn, dn \subseteq CanFinish,
           NEW bad, bad \subseteq dn, bad \subseteq world.bus,
           SchedEdge(in_pkt, rdy, dn, bad, "none"), world' = world
    PROVE  EnginesSafe' /\ PipeSafe' /\ ~err'
<1>1. Safe' = Safe
  BY DEF Safe
<1>2. /\ inq' = inq_next(in_pkt) /\ d1' = d1_next /\ d2' = d2_next
      /\ mk' = mk_next(dn) /\ SchedError(bad, "none")
  BY Zenon DEF SchedEdge
<1>3. dispatch => d2 \in Safe
  BY DEF dispatch, PipeSafe
<1>4. EnginesSafe'
  BY <1>1, <1>2, <1>3, EnginesStep DEF EnginesSafe
<1>5. in_ready => in_pkt \in Safe \cup {NoCmd}
  BY DEF in_pkt, f_valid, CoreSafe
<1>6. CASE err
  <2>1. inq_next(in_pkt) = <<>> /\ d1_next = NoCmd /\ d2_next = NoCmd
    BY <1>6 DEF inq_next, d1_next, d2_next
  <2>2. ~err'
    BY <1>2, <1>6 DEF SchedError
  <2> QED BY <1>2, <1>4, <2>1, <2>2, EmptySeq DEF PipeSafe
<1>7. CASE ~err
  <2>1. TypeOK /\ PipeSafe
    BY <1>7 DEF IInv
  <2>2. PipeSafe'
    BY <1>1, <1>2, <1>5, <2>1, PipeStep DEF PipeSafe
  <2>3. ~err'
    BY <1>2, <1>7, <2>1, NothingRaised DEF PipeSafe
  <2> QED BY <1>4, <2>2, <2>3
<1> QED BY <1>6, <1>7

\* Containment survives an edge.
LEMMA ContainedStep ==
    ASSUME IInv, PathTypeOK, Contained, [UnitNext]_unitVars
    PROVE  Contained'
<1>1. CASE UnitNext
  <2>1. PICK i, start, good, got, rerr, rdy, dn, bad :
            /\ i = <<>> \/ (i[1] \in Decoded /\ i[1] \in world.insn)
            /\ start => Stores
            /\ good \in Goods /\ rerr \in ReadErrs
            /\ dn \subseteq CanFinish /\ rdy \subseteq CanTake(dn)
            /\ bad \subseteq dn \cap {"LD", "ST"} /\ bad \subseteq world.bus
            /\ UnitEdge(i, start, good, got, rerr, rdy, dn, bad)
    BY <1>1, UnitInputs, Zenon
  <2>2. /\ SchedEdge(in_pkt, rdy, dn, bad, IF fetch.err_set THEN "SHAPE" ELSE "none")
        /\ clear_error' = clear_next /\ world' = world
        /\ pcpi' = pcpi_next(i, start) /\ leg' = leg_next(start, good)
        /\ fetch' = fetch_next(got, rerr)
    BY <2>1, Zenon DEF UnitEdge
  <2> SUFFICES ASSUME OnlyJobsFail
               PROVE  /\ CoreSafe' /\ SequencerOK'
                      /\ Between' => EnginesSafe' /\ (IF err' THEN clear_error' ELSE PipeSafe')
    BY <2>2, Zenon DEF Contained, OnlyJobsFail
  <2>3. /\ CoreSafe /\ SequencerOK
        /\ Between => EnginesSafe /\ (IF err THEN clear_error ELSE PipeSafe)
    BY DEF Contained
  <2>4. CoreSafe'
    BY <2>1, <2>2, <2>3, CoreStep, Zenon
  <2>5. SchedEdge(in_pkt, rdy, dn, bad, "none")
    BY <2>2, <2>3 DEF CoreSafe
  <2>6. SchedError(bad, "none") /\ mk' = mk_next(dn)
    BY <2>5, Zenon DEF SchedEdge
  <2>7. ~clear_error => (err => err')
    BY <2>6 DEF SchedError
  <2>8. SequencerOK'
    BY <2>1, <2>2, <2>3, <2>7, SequencerStep, Zenon
  <2>9. ASSUME Between'
        PROVE  EnginesSafe' /\ (IF err' THEN clear_error' ELSE PipeSafe')
    <3>1. \/ Between /\ ~(l_valid /\ in_ready)
          \/ leg.state \in {"DESCW", "RUN"} /\ ~err /\ idle
          \/ leg.state = "ERRW" /\ job_failed
      BY <2>1, <2>2, <2>3, <2>9, LegMoves DEF Between, SequencerOK, l_valid
    <3>2. ASSUME eng_idle
          PROVE  EnginesSafe
      BY <3>2, EmptySeq DEF eng_idle, eng_busy, EnginesSafe
    <3>3. CASE Between /\ ~(l_valid /\ in_ready)
      <4>1. bad \subseteq dn
        BY <2>1
      <4> QED BY <2>1, <2>2, <2>3, <2>5, <3>3, <4>1, QuietStep, Zenon
    <3>4. CASE leg.state \in {"DESCW", "RUN"} /\ ~err /\ idle
      <4>1. EnginesSafe /\ PipeSafe
        BY <3>2, <3>4, EmptySeq DEF idle, pipe_empty, PipeSafe
      <4>2. ~(l_valid /\ in_ready) /\ bad \subseteq dn
        BY <2>1, <2>3, <3>4 DEF SequencerOK, l_valid
      <4> QED BY <2>1, <2>2, <2>3, <2>5, <3>4, <4>1, <4>2, QuietStep, Zenon
    <3>5. CASE leg.state = "ERRW" /\ job_failed
      <4>1. err /\ ~clear_error /\ EnginesSafe
        BY <2>3, <3>2, <3>5 DEF SequencerOK, job_failed
      <4>2. err' /\ clear_error'
        BY <2>2, <2>7, <3>5, <4>1 DEF clear_next
      <4>3. ~dispatch
        BY <4>1 DEF dispatch
      <4>4. \A e \in Eng : mk'[e] \in Seq(Safe)
        BY <2>1, <2>6, <4>1, <4>3, EnginesStep
      <4>5. EnginesSafe'
        BY <2>2, <4>4 DEF EnginesSafe, Safe
      <4> QED BY <4>2, <4>5
    <3> QED BY <3>1, <3>3, <3>4, <3>5
  <2> QED BY <2>4, <2>8, <2>9
<1>2. CASE UNCHANGED unitVars
  BY <1>2 DEF unitVars, vars, schedVars, Contained, OnlyJobsFail, CoreSafe, SequencerOK,
              Between, EnginesSafe, PipeSafe, Safe
<1> QED BY <1>1, <1>2

\* sa_legacy.v's end of a failed job (L_ERRWAIT, clear_error): where jobs are all
\* that can fail, whatever else the core runs with them, the sticky error is
\* clear once the sequencer is idle again.
THEOREM ErrorStays == UnitSpec => []ErrorContained
<1>1. UnitInit => Init /\ PathTypeOK /\ Contained
  BY UnitInitPath, InitContained
<1>2. PathTypeOK /\ [UnitNext]_unitVars => PathTypeOK'
  BY PathStep
<1>3. IInv /\ PathTypeOK /\ Contained /\ [UnitNext]_unitVars => Contained'
  BY ContainedStep
<1>4. Contained => ErrorContained
  BY DEF Contained, ErrorContained, Between
<1> QED BY <1>1, <1>2, <1>3, <1>4, UnitImplementsSched, Inductive, PTL DEF UnitSpec


-----------------------------------------------------------------------------
(***************************************************************************)
(* Counting the entries of a sequence that belong to a set.                *)
(***************************************************************************)
Places(s, S) == {n \in 1 .. Len(s) : s[n] \in S}

\* The places of a sequence are finitely many, so they can be counted.
LEMMA PlacesFinite ==
    ASSUME NEW X, NEW s \in Seq(X), NEW S
    PROVE  IsFiniteSet(Places(s, S)) /\ Number(s, S) \in Nat /\ Number(s, S) = Cardinality(Places(s, S))
<1>1. Len(s) \in Nat /\ Len(s) \in Int /\ 1 \in Int
  OBVIOUS
<1>2. IsFiniteSet(1 .. Len(s))
  BY <1>1, FS_Interval, Zenon
<1>3. Places(s, S) \in SUBSET (1 .. Len(s))
  BY DEF Places
<1>4. IsFiniteSet(Places(s, S))
  BY <1>2, <1>3, FS_Subset, Zenon
<1>5. Cardinality(Places(s, S)) \in Nat
  BY <1>4, FS_CardinalityType, Zenon
<1>6. Number(s, S) = Cardinality(Places(s, S))
  BY Zenon DEF Number, Places
<1> QED BY <1>4, <1>5, <1>6

\* A sequence none of whose elements is in S holds none of them.
LEMMA NumberNone ==
    ASSUME NEW S
    PROVE  Number(<<>>, S) = 0
<1>1. Places(<<>>, S) = {}
  BY DEF Places
<1>2. Number(<<>>, S) = Cardinality(Places(<<>>, S))
  BY Zenon DEF Number, Places
<1> QED BY <1>1, <1>2, FS_EmptySet

\* A push onto a queue adds what it brings (push of sa_sched's FIFOs).
LEMMA NumberLast ==
    ASSUME NEW X, NEW s \in Seq(X), NEW x \in X, NEW S
    PROVE  Number(s \o <<x>>, S) = Number(s, S) + Bit(x \in S)
<1> DEFINE n == Len(s)
           t == s \o <<x>>
           A == Places(s, S)
<1>1. n \in Nat /\ t \in Seq(X) /\ Len(t) = n + 1 /\ t[n + 1] = x /\ \A i \in 1 .. n : t[i] = s[i]
  OBVIOUS
<1>2. IsFiniteSet(A) /\ Number(s, S) = Cardinality(A) /\ Cardinality(A) \in Nat
  BY PlacesFinite
<1>3. Number(t, S) = Cardinality(Places(t, S))
  BY <1>1, PlacesFinite
<1>4. n + 1 \notin A
  BY <1>1 DEF Places
<1> HIDE DEF t
<1>5. CASE x \in S
  <2>1. Places(t, S) = A \cup {n + 1}
    BY <1>1, <1>5 DEF Places
  <2>2. Cardinality(A \cup {n + 1}) = Cardinality(A) + 1
    BY <1>2, <1>4, FS_AddElement, Zenon
  <2> QED BY <1>2, <1>3, <1>5, <2>1, <2>2 DEF Bit, t
<1>6. CASE x \notin S
  <2>1. Places(t, S) = A
    BY <1>1, <1>6 DEF Places
  <2> QED BY <1>2, <1>3, <1>6, <2>1 DEF Bit, t
<1> QED BY <1>5, <1>6

\* A pop takes its head away (pop of sa_sched's FIFOs, of the markers, of a list).
LEMMA NumberTail ==
    ASSUME NEW X, NEW s \in Seq(X), s # <<>>, NEW S
    PROVE  Number(Tail(s), S) = Number(s, S) - Bit(Head(s) \in S)
<1> DEFINE n == Len(s)
           t == Tail(s)
           A == Places(s, S)
           B == Places(t, S)
           f == [i \in B |-> i + 1]
<1>1. /\ n \in Nat \ {0} /\ t \in Seq(X) /\ Len(t) = n - 1 /\ Head(s) = s[1]
      /\ \A i \in 1 .. n - 1 : t[i] = s[i + 1]
  OBVIOUS
<1>2. IsFiniteSet(A) /\ Number(s, S) = Cardinality(A) /\ Cardinality(A) \in Nat
  BY PlacesFinite
<1>3. IsFiniteSet(B) /\ Number(t, S) = Cardinality(B)
  BY <1>1, PlacesFinite
<1> HIDE DEF t
<1>4. \A i \in B : i \in Nat /\ i + 1 \in A \ {1}
  BY <1>1 DEF Places
<1>5. \A j \in A \ {1} : j - 1 \in B /\ (j - 1) + 1 = j
  BY <1>1 DEF Places
<1> HIDE DEF A, B
<1>6. f \in [B -> A \ {1}] /\ \A i \in B : f[i] = i + 1
  BY <1>4
<1>7. \A i, j \in B : f[i] = f[j] => i = j
  BY <1>4, <1>6
<1>8. \A j \in A \ {1} : \E i \in B : f[i] = j
  BY <1>5, <1>6
<1> HIDE DEF f
<1>9. f \in Bijection(B, A \ {1})
  BY <1>6, <1>7, <1>8, Zenon DEF Bijection, Injection, Surjection, IsInjective
<1>10. Cardinality(A \ {1}) = Cardinality(B)
  BY <1>3, <1>9, FS_Bijection, Zenon DEF ExistsBijection
<1>11. Cardinality(A \ {1}) = IF 1 \in A THEN Cardinality(A) - 1 ELSE Cardinality(A)
  BY <1>2, FS_RemoveElement, Zenon
<1>12. 1 \in A <=> Head(s) \in S
  BY <1>1 DEF A, Places
<1> QED BY <1>2, <1>3, <1>10, <1>11, <1>12 DEF Bit, t
\* The sequence q after a pop and a push.
LEMMA NumberMoves ==
    ASSUME NEW q \in Seq(Cmd), NEW a, NEW r, NEW x, NEW m, NEW n, NEW S \in SUBSET Cmd,
           \/ m = 0 /\ a = q
           \/ q # <<>> /\ m = Bit(Head(q) \in S) /\ a = Tail(q),
           \/ n = 0 /\ r = a \o <<>>
           \/ x \in Cmd /\ n = Bit(x \in S) /\ r = a \o <<x>>
    PROVE  r \in Seq(Cmd) /\ Number(r, S) = Number(q, S) - m + n
<1>1. a \in Seq(Cmd) /\ Number(a, S) = Number(q, S) - m
  <2>1. CASE m = 0 /\ a = q
    BY <2>1, PlacesFinite
  <2>2. CASE q # <<>> /\ m = Bit(Head(q) \in S) /\ a = Tail(q)
    BY <2>2, NumberTail, HeadTailProperties
  <2> QED BY <2>1, <2>2
<1>2. Number(a, S) \in Nat
  BY <1>1, PlacesFinite
<1>3. CASE n = 0 /\ r = a \o <<>>
  <2>1. r = a
    BY <1>1, <1>3
  <2> QED BY <1>1, <1>2, <1>3, <2>1
<1>4. CASE x \in Cmd /\ n = Bit(x \in S) /\ r = a \o <<x>>
  <2>1. Number(r, S) = Number(a, S) + n
    BY <1>1, <1>4, NumberLast
  <2>2. r \in Seq(Cmd)
    BY <1>1, <1>4
  <2> QED BY <1>1, <2>1, <2>2
<1> QED BY <1>3, <1>4

\* A bit is 0 or 1.
LEMMA BitType ==
    ASSUME NEW b
    PROVE  Bit(b) \in {0, 1} /\ (b => Bit(b) = 1) /\ (~b => Bit(b) = 0)
BY DEF Bit

\* The commands of S in the scheduler's input FIFO and its two stages.
Piped(S) == Number(inq, S) + Bit(d1 \in S) + Bit(d2 \in S)

\* A number of commands.
LEMMA PipedType ==
    ASSUME TypeOK, NEW S
    PROVE  Piped(S) \in Nat
<1>1. Number(inq, S) \in Nat
  BY PlacesFinite DEF TypeOK
<1> QED BY <1>1, BitType DEF Piped

\* One edge of the pipeline without clear_error: what comes in is what was
\* accepted, what leaves is dispatched or rejected.
LEMMA PipeCount ==
    ASSUME TypeOK, ~clear_error, NEW S \in SUBSET Cmd, NEW in \in Packet
    PROVE  Number(inq_next(in), S) + Bit(d1_next \in S) + Bit(d2_next \in S)
                = Piped(S) + Bit(in_ready /\ in \in S)
                    - Bit(dispatch /\ d2 \in S) - Bit(reject /\ d2 \in S)
<1> DEFINE r == inq_next(in)
           a == IF fifo_pop THEN Tail(inq) ELSE inq
           m == Bit(fifo_pop /\ Head(inq) \in S)
           n == Bit(in_ready /\ in \in S)
<1>0. NoCmd \notin S /\ inq \in Seq(Cmd) /\ in \in Cmd \cup {NoCmd}
  BY SchedAssumption DEF TypeOK, Packet
<1>1. Number(r, S) = Number(inq, S) - m + n
  <2>1. r = a \o (IF in # NoCmd /\ in_ready THEN <<in>> ELSE <<>>)
    BY DEF inq_next
  <2>2. \/ m = 0 /\ a = inq
        \/ inq # <<>> /\ m = Bit(Head(inq) \in S) /\ a = Tail(inq)
    <3>1. CASE fifo_pop
      BY <3>1 DEF fifo_pop, Bit
    <3>2. CASE ~fifo_pop
      BY <3>2 DEF Bit
    <3> QED BY <3>1, <3>2
  <2> HIDE DEF r
  <2>3. \/ n = 0 /\ r = a \o <<>>
        \/ in \in Cmd /\ n = Bit(in \in S) /\ r = a \o <<in>>
    <3>1. CASE in # NoCmd /\ in_ready
      BY <1>0, <2>1, <3>1 DEF Bit
    <3>2. CASE ~(in # NoCmd /\ in_ready)
      BY <1>0, <2>1, <3>2 DEF Bit
    <3> QED BY <3>1, <3>2
  <2> HIDE DEF a, m, n
  <2>4. inq \in Seq(Cmd) /\ S \in SUBSET Cmd
    BY <1>0
  <2> QED BY <2>2, <2>3, <2>4, NumberMoves, SMTT(30)
<1> DEFINE k1 == Bit(~d1_free /\ d1 \in S)
           m1 == Bit(d1_move /\ d1 \in S)
           k2 == Bit(~d2_free /\ d2 \in S)
           go == Bit(dispatch /\ d2 \in S)
           no == Bit(reject /\ d2 \in S)
<1>2. Bit(d1_next \in S) = m + k1 /\ Bit(d1 \in S) = k1 + m1
  <2>1. d1_next = IF d1_free THEN IF fifo_pop THEN Head(inq) ELSE NoCmd ELSE d1
    BY DEF d1_next
  <2>2. (fifo_pop => d1_free) /\ (d1_free <=> d1 = NoCmd \/ d1_move) /\ (d1_move => d1 # NoCmd)
    BY DEF fifo_pop, d1_free, d1_move
  <2> QED BY <1>0, <2>1, <2>2 DEF Bit
<1>3. Bit(d2_next \in S) = m1 + k2 /\ Bit(d2 \in S) = k2 + go + no
  <2>1. d2_next = IF d2_free THEN IF d1_move THEN d1 ELSE NoCmd ELSE d2
    BY DEF d2_next
  <2>2. /\ d1_move => d2_free
        /\ d2_free <=> d2 = NoCmd \/ dispatch \/ reject
        /\ ~(dispatch /\ reject)
    BY DEF d1_move, d2_free, dispatch, reject
  <2> QED BY <1>0, <2>1, <2>2 DEF Bit
<1>4. /\ m \in {0, 1} /\ n \in {0, 1} /\ k1 \in {0, 1} /\ m1 \in {0, 1} /\ k2 \in {0, 1}
      /\ go \in {0, 1} /\ no \in {0, 1}
  BY BitType
<1>5. Number(inq, S) \in Nat
  BY <1>0, PlacesFinite
<1> HIDE DEF a, r, m, n, k1, m1, k2, go, no
<1>6. Number(r, S) + Bit(d1_next \in S) + Bit(d2_next \in S) = Piped(S) + n - go - no
  BY <1>1, <1>2, <1>3, <1>4, <1>5 DEF Piped
<1> QED BY <1>6 DEF r, n, go, no

\* One edge of an engine: what it finishes leaves, what is dispatched to it comes.
LEMMA EngineCount ==
    ASSUME IInv, NEW S \in SUBSET Cmd, NEW dn, dn \subseteq CanFinish, NEW e \in Eng
    PROVE  Number(mk_next(dn)[e], S)
                = Number(mk[e], S) - Bit(e \in dn /\ Head(mk[e]) \in S)
                    + Bit(dispatch /\ d2.eng = e /\ d2 \in S)
<1> DEFINE q == mk[e]
           a == IF e \in dn THEN Tail(q) ELSE q
           r == mk_next(dn)[e]
           m == Bit(e \in dn /\ Head(q) \in S)
           n == Bit(dispatch /\ d2.eng = e /\ d2 \in S)
<1>0. TypeOK /\ q \in Seq(Cmd) /\ d2 \in Cmd \cup {NoCmd}
  BY DEF IInv, TypeOK
<1>1. e \in dn => q # <<>>
  BY <1>0, FinishesOne
<1>2. r = a \o (IF dispatch /\ d2.eng = e THEN <<d2>> ELSE <<>>)
  BY DEF mk_next, Shifted
<1> HIDE DEF q, r
<1>3. \/ m = 0 /\ a = q
      \/ q # <<>> /\ m = Bit(Head(q) \in S) /\ a = Tail(q)
  <2>1. CASE e \in dn
    BY <1>1, <2>1 DEF Bit
  <2>2. CASE e \notin dn
    BY <2>2 DEF Bit
  <2> QED BY <2>1, <2>2
<1>4. \/ n = 0 /\ r = a \o <<>>
      \/ d2 \in Cmd /\ n = Bit(d2 \in S) /\ r = a \o <<d2>>
  <2>1. CASE dispatch /\ d2.eng = e
    BY <1>0, <1>2, <2>1 DEF Bit, dispatch
  <2>2. CASE ~(dispatch /\ d2.eng = e)
    BY <1>2, <2>2 DEF Bit
  <2> QED BY <2>1, <2>2
<1> HIDE DEF a, m, n
<1>5. Number(r, S) = Number(q, S) - m + n
  BY <1>0, <1>3, <1>4, NumberMoves, SMTT(30)
<1> QED BY <1>5 DEF q, r, m, n

-----------------------------------------------------------------------------
(***************************************************************************)
(* The decoder, one instruction at a time.                                 *)
(***************************************************************************)

\* What the decoder holds belongs to the instruction it executes: a command it
\* offers, a trigger or a reset it asserts; a submit pulse comes after it.
CoreRegs ==
    /\ pcpi.insn \in world.insn \cup {[op |-> "wait"]}
    /\ pcpi.q # NoCmd => pcpi.state = "EXEC" /\ pcpi.insn.op = "run" /\ pcpi.q = pcpi.insn.cmd
    /\ pcpi.submit # NoList => pcpi.state = "DONE"
    /\ pcpi.reset => pcpi.state = "EXEC" /\ pcpi.insn.op = "reset"
    /\ pcpi.trigger => pcpi.state = "EXEC" /\ pcpi.insn.op = "trigger"

\* The decoder's registers, the instruction apart.
Holds(r, st, q, tr, re, su, rd) ==
    /\ r.insn = pcpi.insn /\ r.state = st /\ r.q = q /\ r.trigger = tr /\ r.reset = re
    /\ r.submit = su /\ r.rd = rd

\* One edge of an instruction, and when it ends.
ExecEdge ==
    /\ pcpi'.insn = pcpi.insn /\ pcpi'.state \in {"EXEC", "DONE"}
    /\ pcpi'.q # NoCmd => /\ pcpi'.state = "EXEC" /\ pcpi.insn.op = "run"
                          /\ pcpi'.q = pcpi.insn.cmd
    /\ pcpi'.submit # NoList => /\ pcpi'.state = "DONE" /\ pcpi.insn.op = "submit"
                                /\ ~fetch_busy /\ pcpi'.submit = pcpi.insn.list
    /\ pcpi'.reset <=> pcpi.insn.op = "reset" /\ ~(pcpi.reset /\ leg.reset_done)
    /\ pcpi'.reset => pcpi'.state = "EXEC"
    /\ pcpi'.trigger => pcpi'.state = "EXEC" /\ pcpi.insn.op = "trigger"

\* The edge in which an instruction returns to the core.
Ends ==
    /\ pcpi.insn.op = "run" => err \/ (p_valid /\ p_ready)
    /\ pcpi.insn.op = "fence" =>
            /\ pcpi'.rd = err
            /\ err \/ (fence_ok(pcpi.insn.mask) /\ ~fetch_busy)
    /\ pcpi.insn.op = "submit" => err \/ pcpi'.submit = pcpi.insn.list
    /\ pcpi.insn.op = "reset" => pcpi.reset /\ leg.reset_done

\* The decoder while it executes: it holds what it holds until the instruction ends.
LEMMA ExecMoves ==
    ASSUME PathTypeOK, CoreRegs, pcpi.state = "EXEC", NEW i, NEW start,
           pcpi' = pcpi_next(i, start)
    PROVE  /\ ExecEdge
           /\ pcpi'.state = "DONE" => Ends
           /\ pcpi.reset /\ leg.reset_done => pcpi'.state = "DONE"
<1> DEFINE p == PcpiIdle
           X == pcpi.insn.op
<1>0. pcpi \in PcpiType /\ err \in BOOLEAN
  BY DEF PathTypeOK
<1>1. p \in PcpiType /\ Holds(p, "EXEC", pcpi.q, pcpi.trigger, pcpi.reset, NoList, FALSE)
  BY <1>0 DEF PcpiIdle, PcpiType, Holds
<1> HIDE DEF p
<1>e. p.insn = pcpi.insn /\ p.reset = pcpi.reset
  BY <1>1 DEF Holds
<1>2. /\ pcpi.insn \in InsnType /\ X # "start"
      /\ X \in {"run", "fence", "submit", "base", "trigger", "wait", "reset"}
  BY <1>0 DEF PcpiType, Decoded, InsnType
<1>3. ASSUME NEW r \in PcpiType, NEW q, NEW tr, NEW re, NEW su, NEW rd,
             Holds(r, "EXEC", q, tr, re, su, rd)
      PROVE  Holds(Respond(r), "DONE", q, tr, re, su, rd)
  BY <1>3 DEF Respond, PcpiType, Holds
<1>4. pcpi' = Execute(start)
  BY DEF pcpi_next
<1>5. /\ pcpi.q # NoCmd => X = "run" /\ pcpi.q = pcpi.insn.cmd
      /\ pcpi.reset => X = "reset"
      /\ pcpi.trigger => X = "trigger"
      /\ pcpi.reset \in BOOLEAN /\ pcpi.trigger \in BOOLEAN
  BY <1>0 DEF CoreRegs, PcpiType
<1>6. CASE X = "run"
  <2> DEFINE none == [p EXCEPT !.q = NoCmd]
             take == [p EXCEPT !.q = p.insn.cmd]
  <2>1. pcpi' = ExecRun(p)
    BY <1>4, <1>e, <1>6 DEF Execute, p
  <2>2. none \in PcpiType /\ Holds(none, "EXEC", NoCmd, pcpi.trigger, pcpi.reset, NoList, FALSE)
    BY <1>1 DEF PcpiType, Packet, Holds
  <2>3. Holds(take, "EXEC", pcpi.insn.cmd, pcpi.trigger, pcpi.reset, NoList, FALSE)
    BY <1>1 DEF PcpiType, Holds
  <2>4. pcpi' = IF (p_valid /\ p_ready) \/ err THEN Respond(none)
                ELSE IF ~fetch_busy THEN take ELSE p
    BY <2>1, Zenon DEF ExecRun
  <2>5. Holds(Respond(none), "DONE", NoCmd, pcpi.trigger, pcpi.reset, NoList, FALSE)
    BY <1>3, <2>2
  <2> HIDE DEF none, take
  <2> QED BY <1>1, <1>5, <1>6, <2>3, <2>4, <2>5 DEF ExecEdge, Ends, Holds
<1>7. CASE X = "fence"
  <2> DEFINE told == [p EXCEPT !.rd = err]
  <2>1. pcpi' = ExecFence(p)
    BY <1>4, <1>e, <1>7 DEF Execute, p
  <2>2. told \in PcpiType /\ Holds(told, "EXEC", pcpi.q, pcpi.trigger, pcpi.reset, NoList, err)
    BY <1>0, <1>1 DEF PcpiType, Holds
  <2>4. pcpi' = IF (fence_ok(pcpi.insn.mask) /\ ~fetch_busy) \/ err THEN Respond(told) ELSE p
    BY <1>e, <2>1, Zenon DEF ExecFence
  <2>5. Holds(Respond(told), "DONE", pcpi.q, pcpi.trigger, pcpi.reset, NoList, err)
    BY <1>3, <2>2
  <2> HIDE DEF told
  <2> QED BY <1>1, <1>5, <1>7, <2>4, <2>5 DEF ExecEdge, Ends, Holds, p_valid
<1>8. CASE X = "submit"
  <2> DEFINE given == [p EXCEPT !.submit = p.insn.list]
  <2>1. pcpi' = ExecSubmit(p)
    BY <1>4, <1>e, <1>8 DEF Execute, p
  <2>2. pcpi.insn.list \in List
    BY <1>2, <1>8 DEF InsnType
  <2>3. given \in PcpiType /\ Holds(given, "EXEC", pcpi.q, pcpi.trigger, pcpi.reset, pcpi.insn.list, FALSE)
    BY <1>1, <2>2 DEF PcpiType, Holds
  <2>4. pcpi' = IF err THEN Respond(p) ELSE IF ~fetch_busy THEN Respond(given) ELSE p
    BY <2>1, Zenon DEF ExecSubmit
  <2>5. Holds(Respond(p), "DONE", pcpi.q, pcpi.trigger, pcpi.reset, NoList, FALSE)
    BY <1>1, <1>3
  <2>6. Holds(Respond(given), "DONE", pcpi.q, pcpi.trigger, pcpi.reset, pcpi.insn.list, FALSE)
    BY <1>3, <2>3
  <2> HIDE DEF given
  <2> QED BY <1>1, <1>5, <1>8, <2>4, <2>5, <2>6 DEF ExecEdge, Ends, Holds, p_valid
<1>9. CASE X \in {"base", "wait"}
  <2>1. pcpi' \in {p, Respond(p)}
    BY <1>4, <1>e, <1>9 DEF Execute, ExecBase, ExecWait, p
  <2>2. Holds(Respond(p), "DONE", pcpi.q, pcpi.trigger, pcpi.reset, NoList, FALSE)
    BY <1>1, <1>3
  <2> QED BY <1>1, <1>5, <1>9, <2>1, <2>2 DEF ExecEdge, Ends, Holds, p_valid
<1>10. CASE X = "trigger"
  <2> DEFINE off == [p EXCEPT !.trigger = FALSE]
             on == [p EXCEPT !.trigger = TRUE]
  <2>1. pcpi' = ExecTrigger(p, start)
    BY <1>4, <1>e, <1>10 DEF Execute, p
  <2>2. off \in PcpiType /\ Holds(off, "EXEC", pcpi.q, FALSE, pcpi.reset, NoList, FALSE)
    BY <1>1 DEF PcpiType, Holds
  <2>3. Holds(on, "EXEC", pcpi.q, TRUE, pcpi.reset, NoList, FALSE)
    BY <1>1 DEF PcpiType, Holds
  <2>4. pcpi' \in {Respond(off), on}
    BY <2>1 DEF ExecTrigger
  <2>5. Holds(Respond(off), "DONE", pcpi.q, FALSE, pcpi.reset, NoList, FALSE)
    BY <1>3, <2>2
  <2> HIDE DEF off, on
  <2> QED BY <1>5, <1>10, <2>3, <2>4, <2>5 DEF ExecEdge, Ends, Holds, p_valid
<1>11. CASE X = "reset"
  <2> DEFINE off == [p EXCEPT !.reset = FALSE]
             on == [p EXCEPT !.reset = TRUE]
  <2>1. pcpi' = ExecReset(p)
    BY <1>4, <1>e, <1>11 DEF Execute, p
  <2>2. off \in PcpiType /\ Holds(off, "EXEC", pcpi.q, pcpi.trigger, FALSE, NoList, FALSE)
    BY <1>1 DEF PcpiType, Holds
  <2>3. Holds(on, "EXEC", pcpi.q, pcpi.trigger, TRUE, NoList, FALSE)
    BY <1>1 DEF PcpiType, Holds
  <2>5. pcpi' = IF pcpi.reset /\ leg.reset_done THEN Respond(off) ELSE on
    BY <1>e, <2>1, Zenon DEF ExecReset
  <2>6. Holds(Respond(off), "DONE", pcpi.q, pcpi.trigger, FALSE, NoList, FALSE)
    BY <1>3, <2>2
  <2> HIDE DEF off, on
  <2> QED BY <1>5, <1>11, <2>3, <2>5, <2>6 DEF ExecEdge, Ends, Holds, p_valid
<1> QED BY <1>2, <1>6, <1>7, <1>8, <1>9, <1>10, <1>11

\* The other edges of the decoder: an instruction arrives or not, one has ended.
LEMMA RestMoves ==
    ASSUME PathTypeOK, CoreRegs, pcpi.state # "EXEC", NEW i, NEW start,
           i = <<>> \/ (i[1] \in Decoded /\ i[1] \in world.insn),
           pcpi' = pcpi_next(i, start)
    PROVE  /\ pcpi'.state \in {"IDLE", "EXEC"} /\ pcpi'.submit = NoList
           /\ pcpi'.insn = pcpi.insn \/ pcpi'.insn \in world.insn
           /\ pcpi'.q = NoCmd /\ ~pcpi'.reset /\ ~pcpi'.trigger
<1> DEFINE p == PcpiIdle
<1>0. pcpi \in PcpiType
  BY DEF PathTypeOK
<1>1. p \in PcpiType /\ Holds(p, pcpi.state, pcpi.q, pcpi.trigger, pcpi.reset, NoList, FALSE)
  BY <1>0 DEF PcpiIdle, PcpiType, Holds
<1>2. pcpi.q = NoCmd /\ ~pcpi.reset /\ ~pcpi.trigger
  BY DEF CoreRegs
<1>3. \/ pcpi' = p /\ pcpi.state = "IDLE"
      \/ pcpi' = [p EXCEPT !.state = "EXEC", !.insn = i[1]] /\ i # <<>>
      \/ pcpi' = [p EXCEPT !.state = "IDLE"]
  <2>1. pcpi.state = "IDLE" =>
            pcpi' = IF i = <<>> THEN p ELSE [p EXCEPT !.state = "EXEC", !.insn = i[1]]
    BY DEF pcpi_next
  <2>2. pcpi.state = "DONE" => pcpi' = [p EXCEPT !.state = "IDLE"]
    BY DEF pcpi_next
  <2>3. pcpi.state \in {"IDLE", "DONE"}
    BY <1>0 DEF PcpiType
  <2> HIDE DEF p
  <2> QED BY <2>1, <2>2, <2>3, Zenon
<1> HIDE DEF p
<1>4. Holds([p EXCEPT !.state = "IDLE"], "IDLE", pcpi.q, pcpi.trigger, pcpi.reset, NoList, FALSE)
  BY <1>1 DEF PcpiType, Holds
<1>5. CASE i # <<>> /\ pcpi' = [p EXCEPT !.state = "EXEC", !.insn = i[1]]
  <2>1. /\ pcpi'.state = "EXEC" /\ pcpi'.insn = i[1] /\ pcpi'.q = p.q
        /\ pcpi'.reset = p.reset /\ pcpi'.trigger = p.trigger /\ pcpi'.submit = p.submit
    BY <1>1, <1>5 DEF PcpiType
  <2> QED BY <1>1, <1>2, <1>5, <2>1 DEF Holds
<1> QED BY <1>1, <1>2, <1>3, <1>4, <1>5 DEF Holds

-----------------------------------------------------------------------------
(***************************************************************************)
(* The commands in the engines.                                            *)
(***************************************************************************)

\* The commands of S in the four engines and their queues, and those of them
\* that finish when the engines in dn do.
Engaged(S) ==
    Number(mk["LD"], S) + Number(mk["ST"], S) + Number(mk["EX"], S) + Number(mk["VE"], S)
Finishing(e, S, dn) == Bit(e \in dn /\ Head(mk[e]) \in S)
Finished(S, dn) ==
    Finishing("LD", S, dn) + Finishing("ST", S, dn) + Finishing("EX", S, dn)
        + Finishing("VE", S, dn)

\* A command of an engine is in no other engine's queue.
LEMMA EnginesOf ==
    ASSUME NEW A \in SUBSET Eng
    PROVE  Cardinality(A) = Bit("LD" \in A) + Bit("ST" \in A) + Bit("EX" \in A) + Bit("VE" \in A)
<1> DEFINE B == A \ {"LD"}
           C == B \ {"ST"}
           D == C \ {"EX"}
           F == D \ {"VE"}
<1>1. IsFiniteSet(Eng)
  <2>1. \A T, x : IsFiniteSet(T) => IsFiniteSet(T \cup {x})
    BY FS_AddElement, Zenon
  <2>2. IsFiniteSet(((({} \cup {"LD"}) \cup {"ST"}) \cup {"EX"}) \cup {"VE"})
    BY <2>1, FS_EmptySet, Zenon
  <2>3. Eng = ((({} \cup {"LD"}) \cup {"ST"}) \cup {"EX"}) \cup {"VE"}
    BY DEF Eng
  <2> QED BY <2>2, <2>3
<1>2. IsFiniteSet(A)
  BY <1>1, FS_Subset, Zenon
<1>3. IsFiniteSet(B) /\ Cardinality(B) = IF "LD" \in A THEN Cardinality(A) - 1 ELSE Cardinality(A)
  BY <1>2, FS_RemoveElement, Zenon
<1>4. IsFiniteSet(C) /\ Cardinality(C) = IF "ST" \in B THEN Cardinality(B) - 1 ELSE Cardinality(B)
  BY <1>3, FS_RemoveElement, Zenon
<1>5. IsFiniteSet(D) /\ Cardinality(D) = IF "EX" \in C THEN Cardinality(C) - 1 ELSE Cardinality(C)
  BY <1>4, FS_RemoveElement, Zenon
<1>6. Cardinality(F) = IF "VE" \in D THEN Cardinality(D) - 1 ELSE Cardinality(D)
  BY <1>5, FS_RemoveElement, Zenon
<1>7. F = {} /\ ("ST" \in B <=> "ST" \in A) /\ ("EX" \in C <=> "EX" \in A)
        /\ ("VE" \in D <=> "VE" \in A)
  BY DEF Eng
<1>8. Cardinality(F) = 0
  BY <1>7, FS_EmptySet
<1>9. Cardinality(A) \in Nat /\ Cardinality(B) \in Nat /\ Cardinality(C) \in Nat /\ Cardinality(D) \in Nat
  BY <1>2, <1>3, <1>4, <1>5, FS_CardinalityType
<1> HIDE DEF B, C, D, F
<1> QED BY <1>3, <1>4, <1>5, <1>6, <1>7, <1>8, <1>9 DEF Bit

\* What an edge finishes, summed over the engines.
LEMMA FinishedIs ==
    ASSUME NEW dn, dn \subseteq CanFinish, NEW S
    PROVE  Cardinality({e \in dn : Head(mk[e]) \in S}) = Finished(S, dn)
<1> DEFINE A == {e \in dn : Head(mk[e]) \in S}
<1>1. A \in SUBSET Eng
  BY DEF CanFinish
<1>2. \A e : e \in A <=> e \in dn /\ Head(mk[e]) \in S
  OBVIOUS
<1> HIDE DEF A
<1>3. Cardinality(A) = Bit("LD" \in A) + Bit("ST" \in A) + Bit("EX" \in A) + Bit("VE" \in A)
  BY <1>1, EnginesOf
<1>4. \A e : Bit(e \in A) = Finishing(e, S, dn)
  BY <1>2, Zenon DEF Bit, Finishing
<1>5. /\ Bit("LD" \in A) = Finishing("LD", S, dn) /\ Bit("ST" \in A) = Finishing("ST", S, dn)
      /\ Bit("EX" \in A) = Finishing("EX", S, dn) /\ Bit("VE" \in A) = Finishing("VE", S, dn)
  BY <1>4
<1> QED BY <1>3, <1>5 DEF Finished, A

\* What finishes was in its engine.
LEMMA FinishingLess ==
    ASSUME IInv, NEW dn, dn \subseteq CanFinish, NEW S, NEW e \in Eng
    PROVE  /\ Number(mk[e], S) \in Nat /\ Finishing(e, S, dn) \in {0, 1}
           /\ Finishing(e, S, dn) <= Number(mk[e], S)
<1>1. TypeOK /\ mk[e] \in Seq(Cmd)
  BY DEF IInv, TypeOK
<1>2. Number(mk[e], S) \in Nat
  BY <1>1, PlacesFinite
<1>3. Finishing(e, S, dn) \in {0, 1}
  BY BitType DEF Finishing
<1>4. CASE e \in dn /\ Head(mk[e]) \in S
  <2>1. mk[e] # <<>>
    BY <1>1, <1>4, FinishesOne
  <2>2. Tail(mk[e]) \in Seq(Cmd)
    BY <1>1, <2>1, HeadTailProperties
  <2>3. Number(Tail(mk[e]), S) = Number(mk[e], S) - 1
    BY <1>1, <1>4, <2>1, NumberTail DEF Bit
  <2>4. Number(Tail(mk[e]), S) \in Nat
    BY <2>2, PlacesFinite
  <2> QED BY <1>2, <1>3, <2>3, <2>4
<1>5. CASE ~(e \in dn /\ Head(mk[e]) \in S)
  BY <1>2, <1>5 DEF Finishing, Bit
<1> QED BY <1>2, <1>3, <1>4, <1>5

\* One edge of the four engines.
LEMMA EngagedCount ==
    ASSUME IInv, NEW S \in SUBSET Cmd, NEW dn, dn \subseteq CanFinish
    PROVE  /\ Engaged(S) \in Nat /\ Finished(S, dn) \in Nat /\ Finished(S, dn) <= Engaged(S)
           /\ Number(mk_next(dn)["LD"], S) + Number(mk_next(dn)["ST"], S)
                + Number(mk_next(dn)["EX"], S) + Number(mk_next(dn)["VE"], S)
                    = Engaged(S) - Finished(S, dn) + Bit(dispatch /\ d2 \in S)
<1> DEFINE N(e) == Number(mk[e], S)
           F(e) == Finishing(e, S, dn)
           M(e) == Number(mk_next(dn)[e], S)
           D(e) == Bit(dispatch /\ d2.eng = e /\ d2 \in S)
           g == Bit(dispatch /\ d2 \in S)
<1>1. \A e \in Eng : N(e) \in Nat /\ F(e) \in {0, 1} /\ F(e) <= N(e)
  BY FinishingLess
<1>2. \A e \in Eng : M(e) = N(e) - F(e) + D(e)
  BY EngineCount, ZenonT(60) DEF Finishing
<1>3. D("LD") + D("ST") + D("EX") + D("VE") = g /\ g \in {0, 1}
      /\ D("LD") \in {0, 1} /\ D("ST") \in {0, 1} /\ D("EX") \in {0, 1} /\ D("VE") \in {0, 1}
  <2>1. dispatch => d2.eng \in {"LD", "ST", "EX", "VE"}
    BY SchedAssumption DEF dispatch, IInv, TypeOK, CmdType, Eng
  <2> QED BY <2>1 DEF Bit
<1>4. "LD" \in Eng /\ "ST" \in Eng /\ "EX" \in Eng /\ "VE" \in Eng
  BY DEF Eng
<1>5. /\ Engaged(S) = N("LD") + N("ST") + N("EX") + N("VE")
      /\ Finished(S, dn) = F("LD") + F("ST") + F("EX") + F("VE")
  BY DEF Engaged, Finished
<1> HIDE DEF N, F, M, D, g
<1>6. /\ N("LD") \in Nat /\ F("LD") \in {0, 1} /\ F("LD") <= N("LD")
      /\ N("ST") \in Nat /\ F("ST") \in {0, 1} /\ F("ST") <= N("ST")
      /\ N("EX") \in Nat /\ F("EX") \in {0, 1} /\ F("EX") <= N("EX")
      /\ N("VE") \in Nat /\ F("VE") \in {0, 1} /\ F("VE") <= N("VE")
  BY <1>1, <1>4
<1>7. /\ M("LD") = N("LD") - F("LD") + D("LD") /\ M("ST") = N("ST") - F("ST") + D("ST")
      /\ M("EX") = N("EX") - F("EX") + D("EX") /\ M("VE") = N("VE") - F("VE") + D("VE")
  BY <1>2, <1>4
<1> DEFINE n1 == N("LD")  f1 == F("LD")  p1 == D("LD")
           n2 == N("ST")  f2 == F("ST")  p2 == D("ST")
           n3 == N("EX")  f3 == F("EX")  p3 == D("EX")
           n4 == N("VE")  f4 == F("VE")  p4 == D("VE")
<1>8. /\ n1 \in Nat /\ n2 \in Nat /\ n3 \in Nat /\ n4 \in Nat
      /\ f1 \in Nat /\ f2 \in Nat /\ f3 \in Nat /\ f4 \in Nat
      /\ p1 \in Nat /\ p2 \in Nat /\ p3 \in Nat /\ p4 \in Nat
      /\ f1 <= n1 /\ f2 <= n2 /\ f3 <= n3 /\ f4 <= n4 /\ p1 + p2 + p3 + p4 = g
  BY <1>3, <1>6
<1> HIDE DEF n1, n2, n3, n4, f1, f2, f3, f4, p1, p2, p3, p4
<1>9. /\ n1 + n2 + n3 + n4 \in Nat /\ f1 + f2 + f3 + f4 \in Nat
      /\ f1 + f2 + f3 + f4 <= n1 + n2 + n3 + n4
      /\ (n1 - f1 + p1) + (n2 - f2 + p2) + (n3 - f3 + p3) + (n4 - f4 + p4)
            = (n1 + n2 + n3 + n4) - (f1 + f2 + f3 + f4) + g
  BY <1>8
<1>10. /\ Engaged(S) = n1 + n2 + n3 + n4 /\ Finished(S, dn) = f1 + f2 + f3 + f4
       /\ M("LD") = n1 - f1 + p1 /\ M("ST") = n2 - f2 + p2
       /\ M("EX") = n3 - f3 + p3 /\ M("VE") = n4 - f4 + p4
  BY <1>5, <1>7 DEF n1, n2, n3, n4, f1, f2, f3, f4, p1, p2, p3, p4
<1>11. /\ Engaged(S) \in Nat /\ Finished(S, dn) \in Nat /\ Finished(S, dn) <= Engaged(S)
       /\ M("LD") + M("ST") + M("EX") + M("VE") = Engaged(S) - Finished(S, dn) + g
  BY <1>9, <1>10, Zenon
<1> QED BY <1>11 DEF M, g

-----------------------------------------------------------------------------
(***************************************************************************)
(* The sequencer's other registers.                                        *)
(***************************************************************************)

\* mat_reset's answer comes with its clear_error, to a decoder that waits for
\* it; a job's outcome stands in L_IDLE; a packet is the one of its place.
LegRegs ==
    /\ leg.reset_done => leg.state = "IDLE" /\ pcpi.reset /\ clear_error
    /\ leg.done => leg.state = "IDLE"
    /\ leg.state = "ERRW" => leg.pend # "none"
    /\ leg.q # NoCmd => \/ leg.state = "DESC" /\ leg.q = JobDesc
                        \/ leg.state = "PUSH" /\ leg.q = Job[leg.pidx + 1]

\* The sequencer's registers, desc apart.
LegHolds(r, st, q, px, pe, dn, co, rd) ==
    /\ r.state = st /\ r.q = q /\ r.pidx = px /\ r.pend = pe /\ r.done = dn /\ r.code = co
    /\ r.reset_done <=> rd

\* A packet goes out and the next one is due, or the packet is offered.
LegPushes ==
    IF l_valid /\ in_ready
    THEN /\ leg'.q = NoCmd /\ leg'.pidx = (leg.pidx + 1) % 4
         /\ leg'.state = IF leg.pidx = 3 THEN "RUN" ELSE "PUSH"
    ELSE leg'.q = Job[leg.pidx + 1] /\ leg'.pidx = leg.pidx /\ leg'.state = "PUSH"

\* Where a job's outcome comes from.
LegOutcome ==
    leg'.done =>
        /\ leg'.state = "IDLE"
        /\ \/ leg.state = "IDLE" /\ leg.done /\ leg'.code = leg.code /\ ~reset_now
           \/ leg.state # "IDLE" /\ leg'.code # "none"
           \/ leg.state = "RUN" /\ ~err /\ idle

\* LegStep's next registers, one alternative per state of the sequencer.
LEMMA LegFields ==
    ASSUME PathTypeOK, LegRegs, NEW start, NEW good, leg' = leg_next(start, good)
    PROVE  /\ leg'.reset_done <=> reset_now
           /\ LegOutcome
           /\ leg'.state = "ERRW" => leg'.pend # "none" /\ (leg.state = "ERRW" \/ err)
           /\ leg.state = "PUSH" => LegPushes
           /\ leg.state = "CHECK" /\ leg'.state = "PUSH" => leg'.pidx = 0
           /\ leg.state = "DESC" /\ leg'.state = "DESC" => leg'.q = JobDesc
           /\ leg.state = "IDLE" /\ leg'.state # "IDLE" => start \/ leg_accept(start)
           /\ leg.state = "FENCE" /\ leg'.state \in {"DESC", "CHECK"} => ~err /\ idle
           /\ leg.state = "DESCW" => leg'.state \in {"DESCW", "ERRW", "CHECK"}
           /\ leg.state = "RUN" => leg'.state \in {"RUN", "ERRW", "IDLE"}
<1> DEFINE l == IF reset_now
                THEN [leg EXCEPT !.done = FALSE, !.code = "none", !.reset_done = TRUE]
                ELSE [leg EXCEPT !.reset_done = FALSE]
           ld == leg.done /\ ~reset_now
           lc == IF reset_now THEN "none" ELSE leg.code
<1>0. leg \in LegType /\ err \in BOOLEAN
  BY DEF PathTypeOK
<1>1. /\ l \in LegType
      /\ LegHolds(l, leg.state, leg.q, leg.pidx, leg.pend, ld, lc, reset_now)
  <2>1. CASE reset_now
    BY <1>0, <2>1 DEF LegType, LegHolds
  <2>2. CASE ~reset_now
    <3>1. l = [leg EXCEPT !.reset_done = FALSE] /\ lc = leg.code /\ ld = leg.done
      BY <1>0, <2>2 DEF LegType
    <3> HIDE DEF l, lc, ld
    <3> QED BY <1>0, <2>2, <3>1 DEF LegType, LegHolds
  <2> QED BY <2>1, <2>2
<1>2. /\ leg.state = "IDLE" => leg' = LegIdle(l, start)
      /\ leg.state = "FENCE" => leg' = LegFence(l)
      /\ leg.state = "DESC" => leg' = LegDesc(l, good)
      /\ leg.state = "DESCW" => leg' = LegDescWait(l)
      /\ leg.state = "CHECK" => leg' = LegCheck(l, good)
      /\ leg.state = "PUSH" => leg' = LegPush(l)
      /\ leg.state = "RUN" => leg' = LegRun(l)
      /\ leg.state = "ERRW" => leg' = LegErrWait(l)
  BY DEF leg_next
<1>l. (ld => leg.done /\ ~reset_now) /\ (~reset_now => lc = leg.code)
  OBVIOUS
<1> HIDE DEF l, ld, lc
<1>3. ASSUME NEW c
      PROVE  LegHolds(Finish(l, c), "IDLE", leg.q, leg.pidx, leg.pend, TRUE, c, reset_now)
  BY <1>1 DEF Finish, LegType, LegHolds
<1>4. ASSUME NEW s
      PROVE  LegHolds([l EXCEPT !.state = s], s, leg.q, leg.pidx, leg.pend, ld, lc, reset_now)
  BY <1>1 DEF LegType, LegHolds
<1>5. map_err(err_code) # "none"
  BY DEF map_err
<1>6. CASE leg.state = "IDLE"
  <2> DEFINE m == [l EXCEPT !.state = "FENCE", !.desc = ~start, !.done = FALSE, !.code = "none"]
  <2>1. LegHolds(m, "FENCE", leg.q, leg.pidx, leg.pend, FALSE, "none", reset_now)
    BY <1>1 DEF LegType, LegHolds
  <2>2. leg' = (IF start \/ leg_accept(start) THEN m ELSE l)
    BY <1>2, <1>6, Zenon DEF LegIdle
  <2> HIDE DEF m
  <2> QED BY <1>1, <1>l, <1>6, <2>1, <2>2 DEF LegHolds, LegOutcome
<1>7. CASE leg.state = "FENCE"
  <2> DEFINE c == map_err(err_code)
             f == Finish(l, c)
             d == [l EXCEPT !.state = "DESC"]
             k == [l EXCEPT !.state = "CHECK"]
  <2>1. leg' = f \/ (~err /\ idle /\ leg' = d) \/ (~err /\ idle /\ leg' = k) \/ leg' = l
    BY <1>2, <1>7 DEF LegFence
  <2>2. ~ld /\ c # "none"
    BY <1>l, <1>5, <1>7 DEF LegRegs
  <2> HIDE DEF c
  <2>3. /\ LegHolds(f, "IDLE", leg.q, leg.pidx, leg.pend, TRUE, c, reset_now)
        /\ LegHolds(d, "DESC", leg.q, leg.pidx, leg.pend, ld, lc, reset_now)
        /\ LegHolds(k, "CHECK", leg.q, leg.pidx, leg.pend, ld, lc, reset_now)
    BY <1>3, <1>4
  <2> HIDE DEF f, d, k
  <2> QED BY <1>1, <1>7, <2>1, <2>2, <2>3 DEF LegHolds, LegOutcome
<1>8. CASE leg.state = "DESC"
  <2> DEFINE m == [l EXCEPT !.q = NoCmd, !.state = "DESCW"]
             o == [l EXCEPT !.q = JobDesc]
  <2>1. /\ LegHolds(m, "DESCW", NoCmd, leg.pidx, leg.pend, ld, lc, reset_now)
        /\ LegHolds(o, "DESC", JobDesc, leg.pidx, leg.pend, ld, lc, reset_now)
    BY <1>1, <1>8 DEF LegType, LegHolds
  <2>2. ~ld
    BY <1>l, <1>8 DEF LegRegs
  <2>3. leg' = Finish(l, "ADDR") \/ leg' = m \/ leg' = o
    BY <1>2, <1>8, Zenon DEF LegDesc
  <2> HIDE DEF m, o
  <2>4. CASE leg' = Finish(l, "ADDR")
    BY <1>3, <1>8, <2>4 DEF LegHolds, LegOutcome
  <2> QED BY <1>8, <2>1, <2>2, <2>3, <2>4 DEF LegHolds, LegOutcome
<1>9. CASE leg.state = "DESCW"
  <2> DEFINE m == [l EXCEPT !.pend = "RRESP", !.state = "ERRW"]
             k == [l EXCEPT !.state = "CHECK"]
  <2>1. /\ LegHolds(m, "ERRW", leg.q, leg.pidx, "RRESP", ld, lc, reset_now)
        /\ LegHolds(k, "CHECK", leg.q, leg.pidx, leg.pend, ld, lc, reset_now)
    BY <1>1, <1>4 DEF LegType, LegHolds
  <2>2. ~ld
    BY <1>l, <1>9 DEF LegRegs
  <2>3. (err /\ leg' = m) \/ leg' = k \/ leg' = l
    BY <1>2, <1>9, Zenon DEF LegDescWait
  <2> HIDE DEF m, k
  <2> QED BY <1>1, <1>9, <2>1, <2>2, <2>3 DEF LegHolds, LegOutcome
<1>10. CASE leg.state = "CHECK"
  <2> DEFINE m == [l EXCEPT !.pidx = 0, !.state = "PUSH"]
  <2>1. LegHolds(m, "PUSH", leg.q, 0, leg.pend, ld, lc, reset_now)
    BY <1>1 DEF LegType, LegHolds
  <2>2. ~ld
    BY <1>l, <1>10 DEF LegRegs
  <2>3. leg' = m \/ leg' = Finish(l, "DIM")
    BY <1>2, <1>10, Zenon DEF LegCheck
  <2> HIDE DEF m
  <2>4. CASE leg' = Finish(l, "DIM")
    BY <1>3, <1>10, <2>4 DEF LegHolds, LegOutcome
  <2> QED BY <1>10, <2>1, <2>2, <2>3, <2>4 DEF LegHolds, LegOutcome
<1>11. CASE leg.state = "PUSH"
  <2> DEFINE n == (l.pidx + 1) % 4
             s == IF l.pidx = 3 THEN "RUN" ELSE l.state
             j == Job[l.pidx + 1]
             m == [l EXCEPT !.q = NoCmd, !.pidx = n, !.state = s]
             o == [l EXCEPT !.q = j]
  <2>1. /\ s = (IF leg.pidx = 3 THEN "RUN" ELSE "PUSH")
        /\ n = (leg.pidx + 1) % 4 /\ j = Job[leg.pidx + 1]
    BY <1>1, <1>11 DEF LegHolds
  <2>2. leg' = IF l_valid /\ in_ready THEN m ELSE o
    BY <1>2, <1>11, Zenon DEF LegPush
  <2> HIDE DEF n, s, j
  <2>3. /\ LegHolds(m, s, NoCmd, n, leg.pend, ld, lc, reset_now)
        /\ LegHolds(o, "PUSH", j, leg.pidx, leg.pend, ld, lc, reset_now)
    BY <1>1, <1>11 DEF LegType, LegHolds
  <2> HIDE DEF m, o
  <2>4. ~ld
    BY <1>l, <1>11 DEF LegRegs
  <2>5. LegPushes
    BY <2>1, <2>2, <2>3, Zenon DEF LegPushes, LegHolds
  <2> QED BY <1>11, <2>1, <2>2, <2>3, <2>4, <2>5 DEF LegHolds, LegOutcome
<1>12. CASE leg.state = "RUN"
  <2> DEFINE c == map_err(err_code)
             m == [l EXCEPT !.pend = c, !.state = "ERRW"]
             f == Finish(l, "none")
  <2>3. (err /\ leg' = m) \/ (~err /\ idle /\ leg' = f) \/ leg' = l
    BY <1>2, <1>12, Zenon DEF LegRun
  <2>2. ~ld /\ c # "none"
    BY <1>l, <1>5, <1>12 DEF LegRegs
  <2> HIDE DEF c
  <2>1. /\ LegHolds(m, "ERRW", leg.q, leg.pidx, c, ld, lc, reset_now)
        /\ LegHolds(f, "IDLE", leg.q, leg.pidx, leg.pend, TRUE, "none", reset_now)
    BY <1>1, <1>3 DEF LegType, LegHolds
  <2> HIDE DEF m, f
  <2> QED BY <1>1, <1>12, <2>1, <2>2, <2>3 DEF LegHolds, LegOutcome
<1>13. CASE leg.state = "ERRW"
  <2> DEFINE f == Finish(l, l.pend)
  <2>1. leg' = f \/ leg' = l
    BY <1>2, <1>13, Zenon DEF LegErrWait
  <2>2. ~ld /\ l.pend = leg.pend /\ leg.pend # "none"
    BY <1>1, <1>l, <1>13 DEF LegRegs, LegHolds
  <2>3. LegHolds(f, "IDLE", leg.q, leg.pidx, leg.pend, TRUE, leg.pend, reset_now)
    BY <1>3, <2>2
  <2> HIDE DEF f
  <2> QED BY <1>1, <1>13, <2>1, <2>2, <2>3 DEF LegHolds, LegOutcome
<1> QED BY <1>0, <1>6, <1>7, <1>8, <1>9, <1>10, <1>11, <1>12, <1>13 DEF LegType

-----------------------------------------------------------------------------
(***************************************************************************)
(* The fetch unit, one edge at a time.                                     *)
(***************************************************************************)

\* The packet that is still there after the edge, if the scheduler takes one.
kept_pkt == IF f_valid /\ f_ready THEN NoCmd ELSE fetch.pkt

\* The fetch unit's registers, err_set apart.
FetchHolds(r, st, pkt, list) ==
    r \in [state : {st}, pkt : {pkt}, list : {list}, err_set : BOOLEAN]

\* A descriptor is decoded: the next of the list, and no bad one.
Decodes(pkt, list) ==
    /\ fetch.list # <<>> /\ Head(fetch.list) # BadDesc
    /\ pkt = Head(fetch.list) /\ list = Tail(fetch.list)

\* One edge of the fetch unit.
FetchEdge ==
    \/ /\ fetch.state = "IDLE" /\ pcpi.submit = NoList
       /\ FetchHolds(fetch', "IDLE", kept_pkt, fetch.list)
    \/ /\ fetch.state = "IDLE" /\ pcpi.submit # NoList
       /\ FetchHolds(fetch', "RUN", kept_pkt, pcpi.submit)
    \/ /\ fetch.state = "RUN" /\ \E s \in {"RUN", "ERR"} : FetchHolds(fetch', s, kept_pkt, fetch.list)
    \/ /\ fetch.state = "RUN" /\ fetch.pkt = NoCmd /\ Decodes(fetch'.pkt, fetch'.list)
       /\ fetch'.state \in {"RUN", "ERR"}
    \/ /\ fetch.state = "RUN" /\ fetch.list = <<>>
       /\ \E s \in {"DRAIN", "ERR"} : FetchHolds(fetch', s, kept_pkt, fetch.list)
    \/ /\ fetch.state = "DRAIN"
       /\ \/ FetchHolds(fetch', "DRAIN", kept_pkt, fetch.list)
          \/ FetchHolds(fetch', "IDLE", kept_pkt, <<>>)
    \/ fetch.state = "ERR" /\ FetchHolds(fetch', "ERR", kept_pkt, fetch.list)
    \/ /\ clear_error /\ fetch.state \in {"RUN", "ERR"}
       /\ fetch'.state \in {"DRAIN", "ERR"} /\ fetch'.pkt = NoCmd
       /\ fetch'.list = fetch.list \/ Decodes(Head(fetch.list), fetch'.list)

\* FetchStep's next registers, one alternative per state of the fetch unit.
LEMMA FetchMoves ==
    ASSUME PathTypeOK, NEW got, NEW rerr \in ReadErrs, fetch' = fetch_next(got, rerr)
    PROVE  FetchEdge
<1> DEFINE n == [fetch EXCEPT !.err_set = FALSE,
                              !.pkt = IF f_valid /\ f_ready THEN NoCmd ELSE @]
           n1 == CASE fetch.state = "IDLE" ->
                        IF pcpi.submit = NoList THEN n
                        ELSE [n EXCEPT !.state = "RUN", !.list = pcpi.submit]
                  [] fetch.state = "RUN" -> FetchRun(n, got)
                  [] fetch.state = "DRAIN" ->
                        IF got THEN [n EXCEPT !.state = "IDLE", !.list = <<>>] ELSE n
                  [] fetch.state = "ERR" -> IF clear_error THEN FetchAbandon(n) ELSE n
           n2 == IF clear_error /\ fetch.state = "RUN" THEN FetchAbandon(n1) ELSE n1
<1>0. fetch \in FetchType
  BY DEF PathTypeOK
<1>1. fetch' = IF rerr THEN FetchFail(n2) ELSE n2
  BY Zenon DEF fetch_next
<1>f. ASSUME NEW r, NEW st, NEW pkt, NEW list, FetchHolds(r, st, pkt, list)
      PROVE  FetchHolds(FetchFail(r), "ERR", pkt, list)
  BY <1>f DEF FetchHolds, FetchFail
<1>a. ASSUME NEW r, NEW st, NEW pkt, NEW list, FetchHolds(r, st, pkt, list)
      PROVE  FetchHolds(FetchAbandon(r), "DRAIN", NoCmd, list)
  BY <1>a DEF FetchHolds, FetchAbandon
<1>2. FetchHolds(n, fetch.state, kept_pkt, fetch.list) /\ n \in FetchType /\ n.list = fetch.list
  BY <1>0 DEF FetchType, FetchHolds, kept_pkt, Packet
<1> HIDE DEF n
<1>3. ASSUME fetch.state = "RUN"
      PROVE  LET r == FetchRun(n, got)
             IN  \/ \E s \in {"RUN", "ERR"} : FetchHolds(r, s, kept_pkt, fetch.list)
                 \/ \E pkt, list : /\ fetch.pkt = NoCmd /\ Decodes(pkt, list)
                                   /\ FetchHolds(r, "RUN", pkt, list)
                 \/ fetch.list = <<>> /\ FetchHolds(r, "DRAIN", kept_pkt, fetch.list)
  <2> DEFINE r == FetchRun(n, got)
             e == [n EXCEPT !.state = "ERR"]
             d == [n EXCEPT !.state = "DRAIN"]
             k == [n EXCEPT !.pkt = Head(n.list), !.list = Tail(@)]
             f == FetchFail(n)
  <2>1. \/ r = e \/ r = n
        \/ n.list = <<>> /\ r = d
        \/ r = f
        \/ n.list # <<>> /\ Head(n.list) # BadDesc /\ fetch.pkt = NoCmd /\ r = k
    BY Zenon DEF FetchRun
  <2>2. /\ FetchHolds(n, "RUN", kept_pkt, fetch.list)
        /\ FetchHolds(e, "ERR", kept_pkt, fetch.list)
        /\ FetchHolds(d, "DRAIN", kept_pkt, fetch.list)
        /\ FetchHolds(f, "ERR", kept_pkt, fetch.list)
    BY <1>2, <1>3, <1>f DEF FetchHolds
  <2>3. FetchHolds(k, "RUN", Head(fetch.list), Tail(fetch.list))
    BY <1>2, <1>3 DEF FetchType, FetchHolds
  <2> HIDE DEF r, e, d, k, f
  <2>4. CASE n.list # <<>> /\ Head(n.list) # BadDesc /\ fetch.pkt = NoCmd /\ r = k
    <3>1. Decodes(Head(fetch.list), Tail(fetch.list))
      BY <1>2, <2>4 DEF Decodes
    <3> QED BY <2>3, <2>4, <3>1 DEF r
  <2> QED BY <1>2, <2>1, <2>2, <2>4 DEF r
<1>4. CASE fetch.state = "RUN"
  <2> DEFINE r == FetchRun(n, got)
  <2>1. n1 = r
    BY <1>4
  <2> HIDE DEF n1
  <2>2. n2 = IF clear_error THEN FetchAbandon(r) ELSE r
    BY <1>4, <2>1
  <2> HIDE DEF n2, r
  <2>3. CASE \E s \in {"RUN", "ERR"} : FetchHolds(r, s, kept_pkt, fetch.list)
    <3>1. PICK s \in {"RUN", "ERR"} : FetchHolds(r, s, kept_pkt, fetch.list)
      BY <2>3
    <3>2. CASE clear_error
      <4>1. FetchHolds(n2, "DRAIN", NoCmd, fetch.list)
        BY <1>a, <2>2, <3>1, <3>2
      <4>2. FetchHolds(fetch', "DRAIN", NoCmd, fetch.list) \/ FetchHolds(fetch', "ERR", NoCmd, fetch.list)
        BY <1>1, <1>f, <4>1
      <4> QED BY <1>4, <3>2, <4>2 DEF FetchEdge, FetchHolds
    <3>3. CASE ~clear_error
      <4>1. FetchHolds(fetch', s, kept_pkt, fetch.list) \/ FetchHolds(fetch', "ERR", kept_pkt, fetch.list)
        BY <1>1, <1>f, <2>2, <3>1, <3>3
      <4> QED BY <1>4, <4>1 DEF FetchEdge
    <3> QED BY <3>2, <3>3
  <2>4. CASE \E pkt, list : fetch.pkt = NoCmd /\ Decodes(pkt, list) /\ FetchHolds(r, "RUN", pkt, list)
    <3>1. PICK pkt, list : fetch.pkt = NoCmd /\ Decodes(pkt, list) /\ FetchHolds(r, "RUN", pkt, list)
      BY <2>4
    <3>2. CASE clear_error
      <4>1. FetchHolds(n2, "DRAIN", NoCmd, list)
        BY <1>a, <2>2, <3>1, <3>2
      <4>2. FetchHolds(fetch', "DRAIN", NoCmd, list) \/ FetchHolds(fetch', "ERR", NoCmd, list)
        BY <1>1, <1>f, <4>1
      <4>3. Decodes(Head(fetch.list), list)
        BY <3>1 DEF Decodes
      <4> QED BY <1>4, <3>2, <4>2, <4>3 DEF FetchEdge, FetchHolds
    <3>3. CASE ~clear_error
      <4>1. FetchHolds(fetch', "RUN", pkt, list) \/ FetchHolds(fetch', "ERR", pkt, list)
        BY <1>1, <1>f, <2>2, <3>1, <3>3
      <4> QED BY <1>4, <3>1, <4>1 DEF FetchEdge, FetchHolds
    <3> QED BY <3>2, <3>3
  <2>5. CASE fetch.list = <<>> /\ FetchHolds(r, "DRAIN", kept_pkt, fetch.list)
    <3>2. CASE clear_error
      <4>1. FetchHolds(n2, "DRAIN", NoCmd, fetch.list)
        BY <1>a, <2>2, <2>5, <3>2
      <4>2. FetchHolds(fetch', "DRAIN", NoCmd, fetch.list) \/ FetchHolds(fetch', "ERR", NoCmd, fetch.list)
        BY <1>1, <1>f, <4>1
      <4> QED BY <1>4, <3>2, <4>2 DEF FetchEdge, FetchHolds
    <3>3. CASE ~clear_error
      <4>1. FetchHolds(fetch', "DRAIN", kept_pkt, fetch.list) \/ FetchHolds(fetch', "ERR", kept_pkt, fetch.list)
        BY <1>1, <1>f, <2>2, <2>5, <3>3
      <4> QED BY <1>4, <2>5, <4>1 DEF FetchEdge
    <3> QED BY <3>2, <3>3
  <2> QED BY <1>3, <1>4, <2>3, <2>4, <2>5 DEF r
<1>5. CASE fetch.state # "RUN"
  <2>1. ~rerr /\ fetch' = n1
    BY <1>1, <1>5 DEF ReadErrs
  <2>2. CASE fetch.state = "IDLE"
    <3>1. fetch' = IF pcpi.submit = NoList THEN n ELSE [n EXCEPT !.state = "RUN", !.list = pcpi.submit]
      BY <2>1, <2>2
    <3> HIDE DEF n1
    <3>2. FetchHolds([n EXCEPT !.state = "RUN", !.list = pcpi.submit], "RUN", kept_pkt, pcpi.submit)
      BY <1>2 DEF FetchHolds
    <3> QED BY <1>2, <2>2, <3>1, <3>2 DEF FetchEdge
  <2>3. CASE fetch.state = "DRAIN"
    <3>1. fetch' = IF got THEN [n EXCEPT !.state = "IDLE", !.list = <<>>] ELSE n
      BY <2>1, <2>3
    <3> HIDE DEF n1
    <3>2. FetchHolds([n EXCEPT !.state = "IDLE", !.list = <<>>], "IDLE", kept_pkt, <<>>)
      BY <1>2 DEF FetchHolds
    <3> QED BY <1>2, <2>3, <3>1, <3>2 DEF FetchEdge
  <2>4. CASE fetch.state = "ERR"
    <3>1. fetch' = IF clear_error THEN FetchAbandon(n) ELSE n
      BY <2>1, <2>4
    <3> HIDE DEF n1
    <3>2. FetchHolds(FetchAbandon(n), "DRAIN", NoCmd, fetch.list)
      BY <1>2, <1>a
    <3>3. CASE clear_error
      <4>1. FetchHolds(fetch', "DRAIN", NoCmd, fetch.list)
        BY <3>1, <3>2, <3>3
      <4>2. fetch'.state = "DRAIN" /\ fetch'.pkt = NoCmd /\ fetch'.list = fetch.list
        BY <4>1 DEF FetchHolds
      <4> QED BY <2>4, <3>3, <4>2 DEF FetchEdge
    <3>4. CASE ~clear_error
      <4>1. FetchHolds(fetch', "ERR", kept_pkt, fetch.list)
        BY <1>2, <2>4, <3>1, <3>4
      <4> QED BY <2>4, <4>1 DEF FetchEdge
    <3> QED BY <3>3, <3>4
  <2> QED BY <1>0, <1>5, <2>2, <2>3, <2>4 DEF FetchType
<1> QED BY <1>4, <1>5

-----------------------------------------------------------------------------
(***************************************************************************)
(* The three sources together.                                             *)
(***************************************************************************)

\* The core's own commands.  What the fetch unit holds is of them; a submitted
\* list finds it idle.
Own == {x \in Cmd : Software(x)}
Descriptors == Own \cup {BadDesc}

\* An idle fetch unit offers nothing and has no list left; a list holds the core's descriptors.
FetchRegs ==
    /\ fetch.pkt \in Own \cup {NoCmd} /\ fetch.list \in Seq(Descriptors)
    /\ pcpi.submit # NoList => fetch.state = "IDLE" /\ fetch.pkt = NoCmd

\* The lists software submits hold its own descriptors.
LEMMA ListOwn ==
    ASSUME NEW l \in List
    PROVE  l \in Seq(Descriptors)
<1>1. l \in Seq(Cmd \cup {BadDesc})
  BY UnitAssumption
<1>2. \A n \in 1 .. Len(l) : l[n] = BadDesc \/ Software(l[n])
  BY HistoryAssumption
<1>3. \A n \in 1 .. Len(l) : l[n] \in Descriptors
  BY <1>1, <1>2 DEF Descriptors, Own
<1>4. l \in [1 .. Len(l) -> Descriptors] /\ Len(l) \in Nat
  BY <1>1, <1>3
<1> QED BY <1>4, SeqDef

\* The commands a source offers to the scheduler: those of the job's places and
\* its descriptor, or the core's own.
LEMMA OffersOwn ==
    ASSUME PathTypeOK, CoreRegs, FetchRegs
    PROVE  /\ pcpi.q \in Own \cup {NoCmd}
           /\ l_valid \/ in_pkt \in Own \cup {NoCmd}
<1>1. pcpi.q \in Own \cup {NoCmd}
  <2>1. CASE pcpi.q # NoCmd
    <3>1. pcpi.insn.op = "run" /\ pcpi.q = pcpi.insn.cmd /\ pcpi.insn \in world.insn
      BY <2>1 DEF CoreRegs
    <3>2. Software(pcpi.q) /\ pcpi.q \in Cmd
      BY <2>1, <3>1, HistoryAssumption DEF PathTypeOK, PcpiType, Packet
    <3> QED BY <3>2 DEF Own
  <2> QED BY <2>1
<1>2. l_valid \/ in_pkt \in {fetch.pkt, pcpi.q}
  BY Zenon DEF in_pkt
<1> QED BY <1>1, <1>2 DEF FetchRegs

\* Every edge keeps what the sources hold.
LEMMA SourcesStep ==
    ASSUME PathTypeOK, CoreRegs, FetchRegs, LegRegs,
           NEW i, i = <<>> \/ (i[1] \in Decoded /\ i[1] \in world.insn),
           NEW start, start => Stores, NEW good \in Goods, NEW got, NEW rerr \in ReadErrs,
           pcpi' = pcpi_next(i, start), leg' = leg_next(start, good),
           fetch' = fetch_next(got, rerr), clear_error' = clear_next, world' = world
    PROVE  CoreRegs' /\ FetchRegs' /\ LegRegs'
<1>0. pcpi \in PcpiType /\ fetch \in FetchType /\ leg \in LegType
  BY DEF PathTypeOK
<1>1. FetchEdge
  BY FetchMoves
<1>2. pcpi.state = "EXEC" => ExecEdge /\ (pcpi'.state = "DONE" => Ends)
  BY ExecMoves
<1>3. pcpi.state # "EXEC" =>
          /\ pcpi'.state \in {"IDLE", "EXEC"} /\ pcpi'.submit = NoList
          /\ pcpi'.insn = pcpi.insn \/ pcpi'.insn \in world.insn
          /\ pcpi'.q = NoCmd /\ ~pcpi'.reset /\ ~pcpi'.trigger
  BY RestMoves, Zenon
<1>4. CoreRegs'
  <2>1. CASE pcpi.state = "EXEC"
    BY <1>2, <2>1 DEF CoreRegs, ExecEdge
  <2>2. CASE pcpi.state # "EXEC"
    BY <1>3, <2>2 DEF CoreRegs
  <2> QED BY <2>1, <2>2
<1>5. FetchRegs'
  <2>0. Own' = Own /\ Descriptors' = Descriptors
    BY DEF Own, Descriptors
  <2>1. ASSUME NEW pkt, NEW list, Decodes(pkt, list)
        PROVE  pkt \in Own /\ list \in Seq(Descriptors)
    BY <2>1, HeadTailProperties DEF FetchRegs, Decodes, Descriptors
  <2>2. kept_pkt \in Own \cup {NoCmd}
    BY DEF kept_pkt, FetchRegs
  <2>3. pcpi.submit # NoList => pcpi.submit \in Seq(Descriptors)
    BY <1>0, ListOwn DEF PcpiType
  <2>4. /\ fetch'.pkt \in {kept_pkt, NoCmd} \/ Decodes(fetch'.pkt, fetch'.list)
        /\ \/ fetch'.list \in {fetch.list, <<>>}
           \/ Decodes(Head(fetch.list), fetch'.list)
           \/ pcpi.submit # NoList /\ fetch'.list = pcpi.submit
    BY <1>1 DEF FetchEdge, FetchHolds, Decodes
  <2>5. fetch'.pkt \in Own \cup {NoCmd} /\ fetch'.list \in Seq(Descriptors)
    BY <2>1, <2>2, <2>3, <2>4, EmptySeq DEF FetchRegs
  <2>6. ASSUME pcpi'.submit # NoList
        PROVE  fetch'.state = "IDLE" /\ fetch'.pkt = NoCmd
    <3>1. pcpi.state = "EXEC" /\ ~fetch_busy
      BY <1>2, <1>3, <2>6 DEF ExecEdge
    <3>2. fetch.state = "IDLE" /\ fetch.pkt = NoCmd /\ pcpi.submit = NoList
      BY <3>1 DEF fetch_busy, CoreRegs
    <3>3. kept_pkt = NoCmd
      BY <3>2 DEF kept_pkt
    <3> QED BY <1>1, <3>2, <3>3 DEF FetchEdge, FetchHolds
  <2> QED BY <2>0, <2>5, <2>6 DEF FetchRegs
<1>6. LegRegs'
  <2>1. /\ leg'.reset_done <=> reset_now
        /\ LegOutcome
        /\ leg'.state = "ERRW" => leg'.pend # "none" /\ (leg.state = "ERRW" \/ err)
        /\ leg.state = "PUSH" => LegPushes
        /\ leg.state = "CHECK" /\ leg'.state = "PUSH" => leg'.pidx = 0
        /\ leg.state = "DESC" /\ leg'.state = "DESC" => leg'.q = JobDesc
        /\ leg.state = "IDLE" /\ leg'.state # "IDLE" => start \/ leg_accept(start)
    BY LegFields, Zenon
  <2>2. ASSUME reset_now
        PROVE  leg'.state = "IDLE" /\ pcpi'.reset /\ clear_error'
    <3>1. pcpi.reset /\ leg.state = "IDLE" /\ ~leg.reset_done
      BY <2>2 DEF reset_now, leg_busy
    <3>2. pcpi.state = "EXEC" /\ pcpi.insn.op = "reset" /\ ~pcpi.trigger
      BY <3>1 DEF CoreRegs
    <3>3. pcpi'.reset
      BY <1>2, <3>1, <3>2 DEF ExecEdge
    <3>4. ~start /\ ~leg_accept(start)
      BY <3>2 DEF Stores, leg_accept
    <3>5. leg'.state = "IDLE"
      BY <2>1, <3>1, <3>4
    <3> QED BY <2>2, <3>3, <3>5 DEF clear_next
  <2>3. leg'.q # NoCmd => \/ leg'.state = "DESC" /\ leg'.q = JobDesc
                          \/ leg'.state = "PUSH" /\ leg'.q = Job[leg'.pidx + 1]
    <3>1. CASE leg.state = "PUSH"
      BY <2>1, <3>1 DEF LegPushes
    <3>2. CASE leg.state = "DESC"
      BY <2>1, <3>2, LegMoves
    <3>3. CASE leg.state \notin {"PUSH", "DESC"}
      <4>1. leg.q = NoCmd
        BY <3>3 DEF LegRegs
      <4>2. leg'.q = leg.q
        BY <3>3, LegMoves
      <4> QED BY <4>1, <4>2
    <3> QED BY <3>1, <3>2, <3>3
  <2> QED BY <2>1, <2>2, <2>3 DEF LegRegs, LegOutcome
<1> QED BY <1>4, <1>5, <1>6

-----------------------------------------------------------------------------
(***************************************************************************)
(* The commands of a job: each is still to be pushed, in the scheduler, in *)
(* an engine, or completed; between jobs there is none of them.            *)
(***************************************************************************)

\* The four packets of a job.
JobSet == ToSet(Job)

\* The sequencer's states before a job's first packet.
Waits == leg.state \in {"IDLE", "FENCE", "DESC", "DESCW", "CHECK"}

\* Of a job's packets, those accepted and not yet finished are in the scheduler or in an engine.
JobCount ==
    /\ Waits => Engaged(JobSet) = 0 /\ (Piped(JobSet) = 0 \/ (err /\ clear_error))
    /\ leg.state \in {"FENCE", "DESC", "DESCW", "CHECK"} => ghost.job = 4
    /\ leg.state = "PUSH" /\ ~err => ghost.job = 4 - leg.pidx + Piped(JobSet) + Engaged(JobSet)
    /\ leg.state = "RUN" /\ ~err => ghost.job = Piped(JobSet) + Engaged(JobSet)
    /\ JobTrue

\* A job's packets are commands, and none of them is software's.
LEMMA JobCommands ==
    /\ JobSet \in SUBSET Cmd /\ JobDesc \notin JobSet /\ NoCmd \notin JobSet
    /\ Own \cap JobSet = {} /\ \A n \in 1 .. 4 : Job[n] \in JobSet
<1>1. Job \in [1 .. 4 -> Cmd]
  BY UnitAssumption
<1>2. JobSet = {Job[n] : n \in 1 .. 4}
  BY <1>1 DEF JobSet, ToSet
<1>3. \A x \in Own : x \notin JobSet
  BY DEF Own, Software, JobSet
<1>4. JobDesc \notin JobSet
  BY HistoryAssumption DEF JobSet
<1> QED BY <1>1, <1>2, <1>3, <1>4, SchedAssumption

\* The scheduler and the engines empty hold none of S.
LEMMA NoneThere ==
    ASSUME TypeOK, NEW S \in SUBSET Cmd
    PROVE  /\ eng_idle => Engaged(S) = 0
           /\ pipe_empty => Piped(S) = 0
           /\ Piped(S) = 0 => ~(dispatch /\ d2 \in S) /\ ~(reject /\ d2 \in S)
<1>1. ASSUME eng_idle
      PROVE  Engaged(S) = 0
  <2>1. mk["LD"] = <<>> /\ mk["ST"] = <<>> /\ mk["EX"] = <<>> /\ mk["VE"] = <<>>
    BY <1>1 DEF eng_idle, eng_busy, Eng
  <2> QED BY <2>1, NumberNone DEF Engaged
<1>2. ASSUME pipe_empty
      PROVE  Piped(S) = 0
  <2>1. inq = <<>> /\ d1 = NoCmd /\ d2 = NoCmd /\ NoCmd \notin S
    BY <1>2, SchedAssumption DEF pipe_empty
  <2> QED BY <2>1, NumberNone DEF Piped, Bit
<1>3. Piped(S) = 0 => d2 \notin S
  <2>1. Number(inq, S) \in Nat
    BY PlacesFinite DEF TypeOK
  <2> QED BY <2>1 DEF Piped, Bit
<1> QED BY <1>1, <1>2, <1>3

\* What an edge changes in the numbers of a set S of commands: those dispatched
\* pass from the scheduler to the engines, and one may come in.
Moved(S, in, dn, bad) ==
    /\ Piped(S) \in Nat /\ Engaged(S) \in Nat /\ Piped(S)' \in Int /\ Engaged(S)' \in Int
    /\ Finished(S, dn) \in Nat /\ Finished(S, dn) <= Engaged(S)
    /\ Finished(S, dn \ bad) \in Nat /\ Finished(S, dn \ bad) <= Engaged(S)
    /\ err \/ Piped(S) = 0 => Engaged(S)' = Engaged(S) - Finished(S, dn)
    /\ clear_error => Piped(S)' = 0
    /\ Piped(S) = 0 /\ ~(in_ready /\ in \in S) => Piped(S)' = 0
    /\ ~err /\ ~err' /\ ~clear_error =>
            /\ Finished(S, dn \ bad) = Finished(S, dn)
            /\ Piped(S)' + Engaged(S)'
                    = Piped(S) + Engaged(S) + Bit(in_ready /\ in \in S) - Finished(S, dn)

\* Every edge moves them like that.
LEMMA MovedByEdge ==
    ASSUME IInv, NEW S \in SUBSET Cmd, NEW in \in Packet, NEW rdy,
           NEW dn, dn \subseteq CanFinish, NEW bad, NEW ferr,
           SchedEdge(in, rdy, dn, bad, ferr)
    PROVE  Moved(S, in, dn, bad)
<1> DEFINE g == Bit(dispatch /\ d2 \in S)
           r == Bit(reject /\ d2 \in S)
           n == Bit(in_ready /\ in \in S)
           f == Finished(S, dn)
           k == Finished(S, dn \ bad)
           Piped1 == Piped(S)
           E == Engaged(S)
           Piped2 == Piped(S)'
           E2 == Engaged(S)'
<1>0. TypeOK
  BY DEF IInv
<1>1. /\ inq' = inq_next(in) /\ d1' = d1_next /\ d2' = d2_next
      /\ mk' = mk_next(dn) /\ SchedError(bad, ferr)
  BY Zenon DEF SchedEdge
<1>2. E \in Nat /\ f \in Nat /\ f <= E /\ E2 = E - f + g
  <2>1. E2 = Number(mk_next(dn)["LD"], S) + Number(mk_next(dn)["ST"], S)
                + Number(mk_next(dn)["EX"], S) + Number(mk_next(dn)["VE"], S)
    BY <1>1, Zenon DEF Engaged
  <2> QED BY <2>1, EngagedCount
<1>3. k \in Nat /\ k <= E
  <2>1. dn \ bad \subseteq CanFinish
    OBVIOUS
  <2> QED BY <2>1, EngagedCount, Zenon
<1>4. Piped1 \in Nat /\ g \in {0, 1} /\ r \in {0, 1} /\ n \in {0, 1}
  BY <1>0, PipedType, BitType
<1>5. ~clear_error => Piped2 = Piped1 + n - g - r
  <2>1. Piped2 = Number(inq_next(in), S) + Bit(d1_next \in S) + Bit(d2_next \in S)
    BY <1>1, Zenon DEF Piped
  <2> QED BY <1>0, <2>1, PipeCount
<1>6. clear_error => Piped2 = 0
  <2> SUFFICES ASSUME clear_error PROVE Piped2 = 0
    OBVIOUS
  <2>1. inq' = <<>> /\ d1' = NoCmd /\ d2' = NoCmd /\ NoCmd \notin S
    BY <1>1, SchedAssumption DEF inq_next, d1_next, d2_next
  <2>2. Number(inq', S) = 0 /\ Bit(d1' \in S) = 0 /\ Bit(d2' \in S) = 0
    BY <2>1, NumberNone DEF Bit
  <2>3. Piped2 = Number(inq', S) + Bit(d1' \in S) + Bit(d2' \in S)
    BY Zenon DEF Piped
  <2> QED BY <2>2, <2>3
<1>7. err => g = 0
  BY DEF Bit, dispatch
<1>8. Piped1 = 0 => g = 0 /\ r = 0
  BY <1>0, NoneThere DEF Bit
<1>9. ~(in_ready /\ in \in S) => n = 0
  BY DEF Bit
<1>10. ~err /\ ~err' /\ ~clear_error => k = f /\ r = 0
  <2> SUFFICES ASSUME ~err, ~err', ~clear_error PROVE k = f /\ r = 0
    OBVIOUS
  <2>1. ~reject /\ bad = {}
    BY <1>1 DEF SchedError
  <2>2. dn \ bad = dn
    BY <2>1
  <2> QED BY <2>1, <2>2 DEF Bit
<1> HIDE DEF g, r, n, f, k, Piped1, E, Piped2, E2
<1>11. /\ Piped2 \in Int /\ E2 \in Int
       /\ err \/ Piped1 = 0 => E2 = E - f
       /\ Piped1 = 0 /\ ~(in_ready /\ in \in S) => Piped2 = 0
       /\ ~err /\ ~err' /\ ~clear_error => k = f /\ Piped2 + E2 = Piped1 + E + n - f
  BY <1>2, <1>4, <1>5, <1>6, <1>7, <1>8, <1>9, <1>10
<1> QED BY <1>2, <1>3, <1>4, <1>6, <1>11, Zenon DEF Moved, n, f, k, Piped1, E, Piped2, E2

\* What the sequencer takes part in: a command of the job comes in when L_PUSH
\* hands one over.
LEMMA JobComesIn ==
    ASSUME PathTypeOK, CoreRegs, FetchRegs, LegRegs
    PROVE  in_ready /\ in_pkt \in JobSet <=> leg.state = "PUSH" /\ l_valid /\ in_ready
<1>1. CASE l_valid
  <2>1. in_pkt = leg.q /\ leg.q # NoCmd
    BY <1>1 DEF in_pkt, l_valid
  <2>2. CASE leg.state = "PUSH"
    <3>1. leg.q = Job[leg.pidx + 1] /\ leg.pidx + 1 \in 1 .. 4
      BY <2>1, <2>2 DEF LegRegs, PathTypeOK, LegType
    <3> QED BY <1>1, <2>1, <2>2, <3>1, JobCommands
  <2>3. CASE leg.state # "PUSH"
    <3>1. leg.q = JobDesc
      BY <2>1, <2>3 DEF LegRegs
    <3> QED BY <2>1, <2>3, <3>1, JobCommands
  <2> QED BY <2>2, <2>3
<1>2. CASE ~l_valid
  <2>1. in_pkt \in Own \cup {NoCmd}
    BY <1>2, OffersOwn
  <2> QED BY <1>2, <2>1, JobCommands
<1> QED BY <1>1, <1>2

\* A job's count survives an edge.
LEMMA JobCountStep ==
    ASSUME IInv, PathTypeOK, CoreRegs, FetchRegs, LegRegs, SequencerOK, SequencerOK', JobCount,
           NEW start, NEW good \in Goods, leg' = leg_next(start, good),
           clear_error' = clear_next, ~clear_error => (err => err'),
           NEW dn, NEW bad, Moved(JobSet, in_pkt, dn, bad),
           ghost'.job = IF leg.state = "IDLE" /\ leg'.state = "FENCE" THEN 4
                        ELSE ghost.job - Finished(JobSet, dn \ bad),
           err' \in BOOLEAN, leg' \in LegType
    PROVE  JobCount'
<1> DEFINE J == JobSet
           Piped1 == Piped(J)
           E == Engaged(J)
           Piped2 == Piped(J)'
           E2 == Engaged(J)'
           f == Finished(J, dn)
           k == Finished(J, dn \ bad)
           n == Bit(in_ready /\ in_pkt \in J)
           c == ghost.job
           c2 == ghost'.job
<1>0. TypeOK /\ leg \in LegType /\ err \in BOOLEAN
  BY DEF IInv, PathTypeOK
<1>1. /\ Piped1 \in Nat /\ E \in Nat /\ f \in Nat /\ f <= E /\ k \in Nat /\ k <= E
      /\ Piped2 \in Int /\ E2 \in Int
      /\ err \/ Piped1 = 0 => E2 = E - f
      /\ clear_error => Piped2 = 0
      /\ Piped1 = 0 /\ ~(leg.state = "PUSH" /\ l_valid /\ in_ready) => Piped2 = 0
      /\ ~err /\ ~err' /\ ~clear_error => k = f /\ Piped2 + E2 = Piped1 + E + n - f
  BY JobComesIn, Zenon DEF Moved
<1>2. n \in {0, 1} /\ (n = 1 <=> leg.state = "PUSH" /\ l_valid /\ in_ready)
  BY JobComesIn DEF Bit
<1>3. /\ Waits => E = 0 /\ (Piped1 = 0 \/ (err /\ clear_error))
      /\ leg.state \in {"FENCE", "DESC", "DESCW", "CHECK"} => c = 4
      /\ leg.state = "PUSH" /\ ~err => c = 4 - leg.pidx + Piped1 + E
      /\ leg.state = "RUN" /\ ~err => c = Piped1 + E
      /\ leg.done /\ leg.code = "none" => c = 0
  BY Zenon DEF JobCount, JobTrue
<1>4. c2 = IF leg.state = "IDLE" /\ leg'.state = "FENCE" THEN 4 ELSE c - k
  OBVIOUS
<1>5. /\ eng_idle => E = 0
      /\ pipe_empty => Piped1 = 0
      /\ idle => eng_idle /\ pipe_empty
  <2>1. J \in SUBSET Cmd
    BY JobCommands
  <2> QED BY <1>0, <2>1, NoneThere DEF idle
<1>6. JobCount' <=>
        /\ leg'.state \in {"IDLE", "FENCE", "DESC", "DESCW", "CHECK"}
                => E2 = 0 /\ (Piped2 = 0 \/ (err' /\ clear_error'))
        /\ leg'.state \in {"FENCE", "DESC", "DESCW", "CHECK"} => c2 = 4
        /\ leg'.state = "PUSH" /\ ~err' => c2 = 4 - leg'.pidx + Piped2 + E2
        /\ leg'.state = "RUN" /\ ~err' => c2 = Piped2 + E2
        /\ leg'.done /\ leg'.code = "none" => c2 = 0
  BY Zenon DEF JobCount, JobTrue, Waits, JobSet
<1> HIDE DEF Piped1, E, Piped2, E2, f, k, n, c, c2
<1>7. /\ LegOutcome
      /\ leg'.state = "ERRW" => leg.state = "ERRW" \/ err
      /\ leg.state = "PUSH" => LegPushes
      /\ leg.state = "CHECK" /\ leg'.state = "PUSH" => leg'.pidx = 0
      /\ leg.state = "DESCW" => leg'.state \in {"DESCW", "ERRW", "CHECK"}
      /\ leg.state = "RUN" => leg'.state \in {"RUN", "ERRW", "IDLE"}
  BY LegFields, Zenon
<1>8. clear_error => leg.state \in {"IDLE", "FENCE"}
  BY DEF SequencerOK
<1>9. CASE Waits
  <2>1. E2 = 0 /\ k = 0 /\ Piped2 = 0
    BY <1>1, <1>3, <1>9 DEF Waits
  <2>2. leg'.state \in {"FENCE", "DESC", "DESCW", "CHECK"} => c2 = 4
    <3>1. \/ leg.state = "IDLE" /\ leg'.state \in {"IDLE", "FENCE"}
          \/ leg.state \in {"FENCE", "DESC", "DESCW", "CHECK"}
      BY <1>9, LegMoves DEF Waits
    <3>2. CASE leg.state = "IDLE"
      BY <1>4, <3>1, <3>2
    <3>3. CASE leg.state \in {"FENCE", "DESC", "DESCW", "CHECK"}
      BY <1>3, <1>4, <2>1, <3>3
    <3> QED BY <3>1, <3>2, <3>3
  <2>3. leg'.state = "PUSH" => leg.state = "CHECK" /\ leg'.pidx = 0 /\ c2 = 4
    <3>1. leg'.state = "PUSH" => leg.state = "CHECK"
      BY <1>9, LegMoves DEF Waits
    <3> QED BY <1>3, <1>4, <1>7, <2>1, <3>1
  <2>4. leg'.state # "RUN"
    BY <1>9, LegMoves DEF Waits
  <2>5. leg'.done /\ leg'.code = "none" => c2 = 0
    BY <1>3, <1>4, <1>7, <1>9, <2>1 DEF LegOutcome, Waits
  <2> QED BY <1>6, <2>1, <2>2, <2>3, <2>4, <2>5
<1>10. CASE leg.state = "PUSH"
  <2>1. ~clear_error /\ leg'.state \in {"PUSH", "RUN"} /\ leg.pidx \in 0 .. 3
    BY <1>0, <1>7, <1>8, <1>10 DEF LegPushes, LegType
  <2>2. ~leg'.done
    BY <1>7, <2>1 DEF LegOutcome
  <2>3. ~err' => ~err /\ c2 = 4 - leg.pidx + Piped2 + E2 - n
    <3> SUFFICES ASSUME ~err' PROVE ~err /\ c2 = 4 - leg.pidx + Piped2 + E2 - n
      OBVIOUS
    <3>1. ~err
      BY <2>1
    <3>2. c = 4 - leg.pidx + Piped1 + E /\ k = f /\ Piped2 + E2 = Piped1 + E + n - f /\ c2 = c - k
      BY <1>1, <1>3, <1>4, <1>10, <2>1, <3>1
    <3> DEFINE x == leg.pidx
    <3>3. /\ Piped1 \in Int /\ E \in Int /\ f \in Int /\ n \in Int /\ x \in Int
          /\ Piped2 \in Int /\ E2 \in Int /\ c = 4 - x + Piped1 + E
      BY <1>1, <1>2, <2>1, <3>2
    <3> HIDE DEF x
    <3>4. c2 = 4 - x + Piped2 + E2 - n
      <4>1. c2 = c - f /\ Piped2 + E2 = Piped1 + E + n - f
        BY <3>2
      <4> QED BY <3>3, <4>1
    <3> QED BY <3>1, <3>4 DEF x
  <2>4. CASE l_valid /\ in_ready
    <3>1. /\ n = 1 /\ leg'.pidx = (leg.pidx + 1) % 4
          /\ leg'.state = IF leg.pidx = 3 THEN "RUN" ELSE "PUSH"
      BY <1>2, <1>7, <1>10, <2>4 DEF LegPushes
    <3>2. CASE leg.pidx = 3
      BY <1>1, <1>6, <2>2, <2>3, <3>1, <3>2
    <3>3. CASE leg.pidx # 3
      <4>1. leg'.pidx = leg.pidx + 1
        BY <2>1, <3>1, <3>3
      <4> QED BY <1>1, <1>6, <2>1, <2>2, <2>3, <3>1, <3>3, <4>1
    <3> QED BY <3>2, <3>3
  <2>5. CASE ~(l_valid /\ in_ready)
    <3>1. n = 0 /\ leg'.pidx = leg.pidx /\ leg'.state = "PUSH"
      BY <1>2, <1>7, <1>10, <2>5 DEF LegPushes
    <3> QED BY <1>1, <1>6, <2>1, <2>2, <2>3, <3>1
  <2> QED BY <2>4, <2>5
<1>11. CASE leg.state = "RUN"
  <2>1. ~clear_error /\ n = 0 /\ leg'.state \in {"RUN", "ERRW", "IDLE"}
    BY <1>2, <1>7, <1>8, <1>11
  <2>2. CASE leg'.state = "RUN"
    <3>1. ~leg'.done
      BY <1>7, <2>2 DEF LegOutcome
    <3>2. ASSUME ~err' PROVE c2 = Piped2 + E2
      <4>1. ~err
        BY <2>1, <3>2
      <4>2. c = Piped1 + E /\ k = f /\ Piped2 + E2 = Piped1 + E + n - f /\ c2 = c - k
        BY <1>1, <1>3, <1>4, <1>11, <2>1, <3>2, <4>1
      <4> QED BY <1>1, <2>1, <4>2
    <3> QED BY <1>6, <2>2, <3>1, <3>2
  <2>3. CASE leg'.state = "ERRW"
    <3>1. ~leg'.done
      BY <1>7, <2>3 DEF LegOutcome
    <3> QED BY <1>6, <2>3, <3>1
  <2>4. CASE leg'.state = "IDLE"
    <3>1. ~err /\ idle
      BY <1>11, <2>4, LegMoves
    <3>2. Piped1 = 0 /\ E = 0 /\ c = 0
      BY <1>3, <1>5, <1>11, <3>1
    <3>3. Piped2 = 0 /\ E2 = 0 /\ c2 = 0
      BY <1>1, <1>4, <1>11, <3>2
    <3> QED BY <1>6, <2>4, <3>3
  <2> QED BY <2>1, <2>2, <2>3, <2>4
<1>12. CASE leg.state = "ERRW"
  <2>1. err /\ ~clear_error /\ err'
    BY <1>8, <1>12 DEF SequencerOK
  <2>2. leg'.done /\ leg'.code = "none" => FALSE
    BY <1>7, <1>12 DEF LegOutcome
  <2>3. leg'.state = "ERRW" \/ (job_failed /\ leg'.state = "IDLE")
    BY <1>12, LegMoves
  <2>4. job_failed => E2 = 0 /\ clear_error'
    <3>1. job_failed => E = 0 /\ clear_error'
      BY <1>5 DEF job_failed, clear_next
    <3> QED BY <1>1, <2>1, <3>1
  <2> QED BY <1>6, <2>1, <2>2, <2>3, <2>4
<1> QED BY <1>0, <1>9, <1>10, <1>11, <1>12 DEF LegType, Waits

\* The invariant of the command path's sources and of the job's count.
PathInv == SequencerOK /\ CoreRegs /\ FetchRegs /\ LegRegs /\ JobCount

\* The history's count of the job's commands.
LEMMA HistoryJob ==
    ASSUME NEW start, NEW dn, dn \subseteq CanFinish, NEW bad, Remember(start, dn, bad)
    PROVE  ghost'.job = IF leg.state = "IDLE" /\ leg'.state = "FENCE" THEN 4
                        ELSE ghost.job - Finished(JobSet, dn \ bad)
<1> DEFINE ends == Cardinality({e \in dn \ bad : Head(mk[e]) \in ToSet(Job)})
<1>1. dn \ bad \subseteq CanFinish
  OBVIOUS
<1>2. Cardinality({e \in dn \ bad : Head(mk[e]) \in JobSet}) = Finished(JobSet, dn \ bad)
  BY <1>1, FinishedIs
<1>3. ends = Finished(JobSet, dn \ bad)
  BY <1>2, Zenon DEF JobSet
<1> HIDE DEF ends
<1>4. ghost'.job = IF leg.state = "IDLE" /\ leg'.state = "FENCE" THEN 4 ELSE ghost.job - ends
  <2> USE DEF ends
  <2> QED BY DEF Remember
<1> QED BY <1>3, <1>4

\* After reset.
LEMMA InitPathInv ==
    ASSUME UnitInit
    PROVE  PathInv
<1>1. /\ inq = <<>> /\ d1 = NoCmd /\ d2 = NoCmd
      /\ mk = [e \in Eng |-> <<>>]
  BY DEF UnitInit, Init, SchedInit
<1>2. TypeOK
  BY InitIInv DEF UnitInit, IInv
<1>3. SequencerOK /\ CoreRegs /\ FetchRegs
  BY EmptySeq DEF UnitInit, Init, SequencerOK, CoreRegs, FetchRegs
<1>4. LegRegs
  BY DEF UnitInit, LegRegs
<1>5. eng_idle /\ pipe_empty
  BY <1>1 DEF eng_idle, eng_busy, pipe_empty
<1>6. Engaged(JobSet) = 0 /\ Piped(JobSet) = 0
  BY <1>2, <1>5, JobCommands, NoneThere
<1>7. JobCount
  BY <1>6 DEF UnitInit, JobCount, JobTrue
<1> QED BY <1>3, <1>4, <1>7 DEF PathInv

\* Every edge keeps it.
LEMMA PathInvStep ==
    ASSUME IInv, PathTypeOK, PathInv, [UnitNext]_unitVars
    PROVE  PathInv'
<1>1. CASE UnitNext
  <2>1. PICK i, start, good, got, rerr, rdy, dn, bad :
            /\ i = <<>> \/ (i[1] \in Decoded /\ i[1] \in world.insn)
            /\ start => Stores
            /\ good \in Goods /\ rerr \in ReadErrs
            /\ dn \subseteq CanFinish /\ rdy \subseteq CanTake(dn)
            /\ bad \subseteq dn \cap {"LD", "ST"} /\ bad \subseteq world.bus
            /\ UnitEdge(i, start, good, got, rerr, rdy, dn, bad)
    BY <1>1, UnitInputs, Zenon
  <2> DEFINE ferr == IF fetch.err_set THEN "SHAPE" ELSE "none"
  <2>2. /\ SchedEdge(in_pkt, rdy, dn, bad, ferr)
        /\ clear_error' = clear_next /\ world' = world
        /\ pcpi' = pcpi_next(i, start) /\ leg' = leg_next(start, good)
        /\ fetch' = fetch_next(got, rerr) /\ Remember(start, dn, bad)
    BY <2>1, Zenon DEF UnitEdge
  <2> HIDE DEF ferr
  <2>3. SequencerOK /\ CoreRegs /\ FetchRegs /\ LegRegs /\ JobCount
    BY DEF PathInv
  <2>4. ~clear_error => (err => err')
    BY <2>2, Zenon DEF SchedEdge, SchedError
  <2>5. SequencerOK'
    BY <2>1, <2>2, <2>3, <2>4, SequencerStep, Zenon
  <2>6. CoreRegs' /\ FetchRegs' /\ LegRegs'
    BY <2>1, <2>2, <2>3, SourcesStep, Zenon
  <2>7. Moved(JobSet, in_pkt, dn, bad)
    BY <2>1, <2>2, InPacket, JobCommands, MovedByEdge, Zenon
  <2>8. ghost'.job = IF leg.state = "IDLE" /\ leg'.state = "FENCE" THEN 4
                     ELSE ghost.job - Finished(JobSet, dn \ bad)
    BY <2>1, <2>2, HistoryJob, Zenon
  <2>9. PathTypeOK'
    BY PathStep
  <2>10. err' \in BOOLEAN /\ leg' \in LegType
    BY <2>9 DEF PathTypeOK, LegType
  <2>11. JobCount'
    BY <2>1, <2>2, <2>3, <2>4, <2>5, <2>7, <2>8, <2>10, JobCountStep, Zenon
  <2> QED BY <2>5, <2>6, <2>11 DEF PathInv
<1>2. CASE UNCHANGED unitVars
  <2>1. /\ UNCHANGED <<inq, d1, d2, mk, err, clear_error, pcpi, leg, fetch, ghost, world>>
    BY <1>2 DEF unitVars, vars, schedVars
  <2>2. SequencerOK' /\ CoreRegs' /\ LegRegs'
    BY <2>1 DEF PathInv, SequencerOK, CoreRegs, LegRegs
  <2>3. FetchRegs'
    BY <2>1 DEF PathInv, FetchRegs, Descriptors, Own
  <2>4. Engaged(JobSet)' = Engaged(JobSet) /\ Piped(JobSet)' = Piped(JobSet)
    BY <2>1 DEF Engaged, Piped, JobSet
  <2>5. JobCount'
    BY <2>1, <2>4 DEF PathInv, JobCount, JobTrue, Waits
  <2> QED BY <2>2, <2>3, <2>5 DEF PathInv
<1> QED BY <1>1, <1>2

\* mat_wait and STATUS (sa_legacy.v, L_RUN): a job that ends without an error
\* code ends when its four commands have completed, whatever the core, its lists
\* and mat_resets do meanwhile.
THEOREM JobDone == UnitSpec => []JobTrue
<1>1. UnitInit => Init /\ PathTypeOK /\ PathInv
  BY UnitInitPath, InitPathInv
<1>2. PathTypeOK /\ [UnitNext]_unitVars => PathTypeOK'
  BY PathStep
<1>3. IInv /\ PathTypeOK /\ PathInv /\ [UnitNext]_unitVars => PathInv'
  BY PathInvStep
<1>4. PathInv => JobTrue
  BY DEF PathInv, JobCount
<1> QED BY <1>1, <1>2, <1>3, <1>4, UnitImplementsSched, Inductive, PTL DEF UnitSpec

-----------------------------------------------------------------------------
(***************************************************************************)
(* What the core is owed.  Where mat_reset is the only one to clear, an    *)
(* engine's commands that have not completed without an error are all      *)
(* somewhere: on their way in a list, in the scheduler, or in the engine,  *)
(* unless the sticky error is set.                                         *)
(***************************************************************************)

\* The descriptors of a list that a fence on engine e has to see completed.
Listed(e) == For(e) \cup {BadDesc}

\* In the fetch unit's list.
InList(e) == IF fetch.state \in {"RUN", "ERR"} THEN Number(fetch.list, Listed(e)) ELSE 0
\* In the list the decoder submits in this cycle.
InSubmit(e) == IF pcpi.submit = NoList THEN 0 ELSE Number(pcpi.submit, Listed(e))
\* Issued and not yet taken in by the scheduler.
Coming(e) == InList(e) + Bit(fetch.pkt \in For(e)) + InSubmit(e)

\* All that is on its way to engine e or in it.
Pending(e) == Piped(For(e)) + Number(mk[e], For(e)) + Coming(e)

\* A number of commands.
LEMMA ComingType ==
    ASSUME PathTypeOK, NEW e
    PROVE  InList(e) \in Nat /\ InSubmit(e) \in Nat /\ Coming(e) \in Nat
<1>1. fetch.list \in Seq(Words) /\ (pcpi.submit # NoList => pcpi.submit \in Seq(Words))
  BY UnitAssumption DEF PathTypeOK, FetchType, PcpiType, Words
<1>2. InList(e) \in Nat /\ InSubmit(e) \in Nat
  BY <1>1, PlacesFinite DEF InList, InSubmit
<1> QED BY <1>2, BitType DEF Coming

\* The commands of a list are not lost on their way to the scheduler, unless the
\* sticky error or clear_error stops the fetch unit.
LEMMA ComingStep ==
    ASSUME PathTypeOK, PathTypeOK', CoreRegs, FetchRegs, FetchEdge, ~err, ~clear_error,
           pcpi.state = "EXEC" => ExecEdge /\ (pcpi'.state = "DONE" => Ends),
           pcpi.state # "EXEC" => pcpi'.submit = NoList,
           NEW e \in Eng
    PROVE  Coming(e)' + Bit(f_valid /\ f_ready /\ fetch.pkt \in For(e))
             >= Coming(e) + (IF Responds("submit") THEN Number(pcpi.insn.list, Listed(e)) ELSE 0)
<1> DEFINE S == For(e)
           L == Listed(e)
           o == Bit(f_valid /\ f_ready /\ fetch.pkt \in S)
           k == Bit(kept_pkt \in S)
           b == Bit(fetch.pkt \in S)
           b2 == Bit(fetch'.pkt \in S)
           i == InList(e)
           i2 == InList(e)'
           s == InSubmit(e)
           s2 == InSubmit(e)'
           z == IF Responds("submit") THEN Number(pcpi.insn.list, L) ELSE 0
<1>0. NoCmd \notin S /\ BadDesc \notin S /\ L = S \cup {BadDesc}
  BY SchedAssumption, UnitAssumption DEF For, Listed
<1>1. /\ i \in Nat /\ i2 \in Nat /\ s \in Nat /\ s2 \in Nat
      /\ b \in {0, 1} /\ b2 \in {0, 1} /\ o \in {0, 1} /\ k \in {0, 1}
  <2>1. i \in Nat /\ s \in Nat
    BY ComingType
  <2>2. fetch'.list \in Seq(Words) /\ (pcpi'.submit # NoList => pcpi'.submit \in Seq(Words))
    BY UnitAssumption DEF PathTypeOK, FetchType, PcpiType, Words
  <2>3. i2 \in Nat /\ s2 \in Nat
    BY <2>2, PlacesFinite DEF InList, InSubmit, Listed, For, Software
  <2>4. b \in {0, 1} /\ b2 \in {0, 1} /\ o \in {0, 1} /\ k \in {0, 1}
    BY BitType
  <2> QED BY <2>1, <2>3, <2>4
<1>2. k = b - o
  BY <1>0 DEF kept_pkt, Bit
<1>3. Coming(e) = i + b + s /\ Coming(e)' = i2 + b2 + s2
  BY DEF Coming
<1>4. /\ i2 = IF fetch'.state \in {"RUN", "ERR"} THEN Number(fetch'.list, L) ELSE 0
      /\ s2 = IF pcpi'.submit = NoList THEN 0 ELSE Number(pcpi'.submit, L)
      /\ i = IF fetch.state \in {"RUN", "ERR"} THEN Number(fetch.list, L) ELSE 0
      /\ s = IF pcpi.submit = NoList THEN 0 ELSE Number(pcpi.submit, L)
  BY DEF InList, InSubmit, Listed, For, Software
<1>5. s2 = z /\ s2 \in Nat
  <2>1. CASE Responds("submit")
    <3>1. pcpi.state = "EXEC" /\ pcpi'.state = "DONE" /\ pcpi.insn.op = "submit"
      BY <2>1 DEF Responds
    <3>2. pcpi'.submit = pcpi.insn.list
      BY <3>1 DEF Ends
    <3>3. pcpi.insn.list \in List
      BY <3>1 DEF PathTypeOK, PcpiType, Decoded, InsnType
    <3> QED BY <1>1, <1>4, <2>1, <3>2, <3>3, UnitAssumption
  <2>2. CASE ~Responds("submit")
    <3>1. pcpi'.submit = NoList
      BY <2>2 DEF Responds, ExecEdge
    <3> QED BY <1>1, <1>4, <2>2, <3>1
  <2> QED BY <2>1, <2>2
<1>6. fetch.list \in Seq(Descriptors)
  BY DEF FetchRegs
<1> SUFFICES i2 + b2 + o >= i + b + s
  <2> HIDE DEF i, i2, s, s2, b, b2, o, z
  <2>1. Coming(e)' + o >= Coming(e) + z
    BY <1>1, <1>3, <1>5
  <2> QED BY <2>1 DEF o, z
<1>7. ASSUME fetch'.pkt = kept_pkt, i2 = i + s
      PROVE  i2 + b2 + o >= i + b + s
  <2>1. b2 = k
    BY <1>7
  <2> HIDE DEF i, i2, s, b, b2, o, k
  <2> QED BY <1>1, <1>2, <1>7, <2>1
<1>8. pcpi.submit # NoList => fetch.state = "IDLE"
  BY DEF FetchRegs
<1>9. CASE /\ fetch.state = "IDLE" /\ pcpi.submit = NoList
           /\ FetchHolds(fetch', "IDLE", kept_pkt, fetch.list)
  <2>1. fetch'.pkt = kept_pkt /\ fetch'.state = "IDLE"
    BY <1>9 DEF FetchHolds
  <2>2. i2 = 0 /\ i = 0 /\ s = 0
    BY <1>4, <1>9, <2>1
  <2> QED BY <1>7, <2>1, <2>2
<1>10. CASE /\ fetch.state = "IDLE" /\ pcpi.submit # NoList
            /\ FetchHolds(fetch', "RUN", kept_pkt, pcpi.submit)
  <2>1. fetch'.pkt = kept_pkt /\ fetch'.state = "RUN" /\ fetch'.list = pcpi.submit
    BY <1>10 DEF FetchHolds
  <2>2. i2 = s /\ i = 0
    BY <1>4, <1>10, <2>1
  <2> QED BY <1>1, <1>7, <2>1, <2>2
<1>11. CASE \E t \in {"RUN", "ERR"} :
                fetch.state \in {"RUN", "ERR"} /\ FetchHolds(fetch', t, kept_pkt, fetch.list)
  <2>1. fetch'.pkt = kept_pkt /\ fetch'.state \in {"RUN", "ERR"} /\ fetch'.list = fetch.list
    BY <1>11 DEF FetchHolds
  <2>2. i2 = i /\ s = 0
    BY <1>4, <1>8, <1>11, <2>1
  <2> QED BY <1>1, <1>7, <2>1, <2>2
<1>12. CASE /\ fetch.state = "RUN" /\ fetch.pkt = NoCmd /\ Decodes(fetch'.pkt, fetch'.list)
            /\ fetch'.state \in {"RUN", "ERR"}
  <2>1. /\ fetch.list # <<>> /\ Head(fetch.list) # BadDesc
        /\ fetch'.pkt = Head(fetch.list) /\ fetch'.list = Tail(fetch.list)
    BY <1>12 DEF Decodes
  <2>2. Number(Tail(fetch.list), L) = Number(fetch.list, L) - Bit(Head(fetch.list) \in L)
    BY <1>6, <2>1, NumberTail
  <2>3. Bit(Head(fetch.list) \in L) = b2 /\ b = 0 /\ s = 0
    BY <1>0, <1>4, <1>8, <1>12, <2>1 DEF Bit
  <2>4. i2 = i - b2
    BY <1>4, <1>12, <2>1, <2>2, <2>3
  <2> HIDE DEF i, i2, s, b, b2, o
  <2> QED BY <1>1, <2>3, <2>4
<1>13. CASE /\ fetch.state = "RUN" /\ fetch.list = <<>>
            /\ \E t \in {"DRAIN", "ERR"} : FetchHolds(fetch', t, kept_pkt, fetch.list)
  <2>1. fetch'.pkt = kept_pkt /\ fetch'.state \in {"DRAIN", "ERR"} /\ fetch'.list = <<>>
    BY <1>13 DEF FetchHolds
  <2>2. i2 = 0 /\ i = 0 /\ s = 0
    BY <1>4, <1>8, <1>13, <2>1, NumberNone
  <2> QED BY <1>1, <1>7, <2>1, <2>2
<1>14. CASE /\ fetch.state = "DRAIN"
            /\ \/ FetchHolds(fetch', "DRAIN", kept_pkt, fetch.list)
               \/ FetchHolds(fetch', "IDLE", kept_pkt, <<>>)
  <2>1. fetch'.pkt = kept_pkt /\ fetch'.state \in {"DRAIN", "IDLE"}
    BY <1>14 DEF FetchHolds
  <2>2. i2 = 0 /\ i = 0 /\ s = 0
    BY <1>4, <1>8, <1>14, <2>1
  <2> QED BY <1>1, <1>7, <2>1, <2>2
<1> QED BY <1>9, <1>10, <1>11, <1>12, <1>13, <1>14 DEF FetchEdge

\* An edge that counts: neither the sticky error nor clear_error is set.
Counts == ~err /\ ~err' /\ ~clear_error

\* What the scheduler takes in for engine e is of the fetch unit or of the core.
LEMMA CoreComesIn ==
    ASSUME PathTypeOK, LegRegs, ~err, NEW e \in Eng
    PROVE  Bit(in_ready /\ in_pkt \in For(e))
             = Bit(f_valid /\ f_ready /\ fetch.pkt \in For(e))
                 + Bit(p_valid /\ p_ready /\ pcpi.q \in For(e))
<1>1. NoCmd \notin For(e) /\ \A x \in For(e) : x \notin JobSet /\ x # JobDesc
  BY SchedAssumption DEF For, Software, JobSet
<1>2. CASE l_valid
  <2>1. leg.q \in JobSet \cup {JobDesc} /\ leg.q # NoCmd
    <3>1. leg.pidx + 1 \in 1 .. 4
      BY DEF PathTypeOK, LegType
    <3> QED BY <1>2, <3>1, JobCommands DEF LegRegs, l_valid
  <2>2. in_pkt = leg.q
    BY <1>2 DEF in_pkt
  <2> QED BY <1>1, <1>2, <2>1, <2>2 DEF Bit, f_ready, p_ready
<1>3. CASE ~l_valid /\ f_valid
  <2>1. in_pkt = fetch.pkt
    BY <1>3 DEF in_pkt
  <2> QED BY <1>3, <2>1 DEF Bit, f_ready, p_ready
<1>4. CASE ~l_valid /\ ~f_valid
  <2>1. in_pkt = pcpi.q
    BY <1>4 DEF in_pkt
  <2> QED BY <1>1, <1>4, <2>1 DEF Bit, f_ready, p_ready, p_valid
<1> QED BY <1>2, <1>3, <1>4

\* The history's numbers of the core's commands.
LEMMA HistoryCore ==
    ASSUME NEW start, NEW dn, NEW bad, Remember(start, dn, bad), NEW e \in Eng
    PROVE  /\ ghost'.owed[e] = IF Responds("reset") THEN InEngine(e)
                               ELSE Less(ghost.owed[e] + Issued(e), Completed(e, dn, bad))
           /\ ghost'.prior[e] =
                 IF leg.state = "IDLE" /\ leg'.state = "FENCE" THEN ghost'.owed[e]
                 ELSE IF leg'.state = "IDLE" THEN 0
                 ELSE Less(ghost.prior[e], Completed(e, dn, bad))
           /\ DOMAIN ghost'.owed = Eng /\ DOMAIN ghost'.prior = Eng
<1> DEFINE owed == [x \in Eng |->
                        IF Responds("reset") THEN InEngine(x)
                        ELSE Less(ghost.owed[x] + Issued(x), Completed(x, dn, bad))]
           prior == IF leg.state = "IDLE" /\ leg'.state = "FENCE" THEN owed
                    ELSE IF leg'.state = "IDLE" THEN [x \in Eng |-> 0]
                    ELSE [x \in Eng |-> Less(ghost.prior[x], Completed(x, dn, bad))]
<1>1. /\ DOMAIN owed = Eng /\ DOMAIN prior = Eng
      /\ owed[e] = IF Responds("reset") THEN InEngine(e)
                   ELSE Less(ghost.owed[e] + Issued(e), Completed(e, dn, bad))
      /\ prior[e] = IF leg.state = "IDLE" /\ leg'.state = "FENCE" THEN owed[e]
                    ELSE IF leg'.state = "IDLE" THEN 0
                    ELSE Less(ghost.prior[e], Completed(e, dn, bad))
  OBVIOUS
<1>2. \E job : ghost' = [owed |-> owed, prior |-> prior, job |-> job]
  BY Zenon DEF Remember
<1> HIDE DEF owed, prior
<1>3. ghost'.owed = owed /\ ghost'.prior = prior
  BY <1>2
<1> QED BY <1>1, <1>3, Zenon

\* What completes was in the engine; without an error, that is all that leaves.
LEMMA CompletedIs ==
    ASSUME IInv, NEW dn, dn \subseteq CanFinish, NEW e \in Eng
    PROVE  Finishing(e, For(e), dn) = Bit(Completed(e, dn, {}))
<1>1. ASSUME e \in dn
      PROVE  Head(mk[e]) \in For(e) <=> Software(Head(mk[e]))
  <2>1. TypeOK
    BY DEF IInv
  <2>2. mk[e] # <<>> /\ 1 \in 1 .. Len(mk[e]) /\ mk[e] \in Seq(Cmd)
    BY <1>1, <2>1, FinishesOne DEF TypeOK
  <2>3. Head(mk[e]) = mk[e][1] /\ Head(mk[e]) \in Cmd
    BY <2>2
  <2>4. mk[e][1].eng = e
    BY <2>2 DEF IInv, MasksCoverQueue
  <2> QED BY <2>3, <2>4 DEF For
<1> QED BY <1>1 DEF Finishing, Completed, Bit

\* The commands an edge adds to what the core is owed.
LEMMA IssuedIs ==
    ASSUME PathTypeOK, CoreRegs, FetchRegs, ~err,
           pcpi.state = "EXEC" => (pcpi'.state = "DONE" => Ends),
           NEW e \in Eng
    PROVE  /\ Issued(e) \in Nat
           /\ Issued(e) <= Bit(p_valid /\ p_ready /\ pcpi.q \in For(e))
                 + (IF Responds("submit") THEN Number(pcpi.insn.list, Listed(e)) ELSE 0)
<1> DEFINE b == Bit(p_valid /\ p_ready /\ pcpi.q \in For(e))
           z == IF Responds("submit") THEN Number(pcpi.insn.list, Listed(e)) ELSE 0
<1>1. b \in {0, 1}
  BY BitType
<1>2. CASE Responds("run")
  <2>1. pcpi.state = "EXEC" /\ pcpi'.state = "DONE" /\ pcpi.insn.op = "run"
    BY <1>2 DEF Responds
  <2>2. p_valid /\ p_ready
    BY <2>1 DEF Ends
  <2>3. pcpi.q \in Own /\ pcpi.q = pcpi.insn.cmd
    <3>1. pcpi.q # NoCmd
      BY <2>2 DEF p_valid
    <3> QED BY <3>1, OffersOwn DEF CoreRegs
  <2>4. pcpi.insn.cmd.eng = e => b = 1
    BY <2>2, <2>3 DEF Bit, For, Own
  <2>5. ~Responds("submit")
    BY <2>1 DEF Responds
  <2>6. Issued(e) = IF pcpi.insn.cmd.eng = e THEN 1 ELSE 0
    BY <1>2, <2>5 DEF Issued
  <2> HIDE DEF b
  <2>7. z = 0
    BY <2>5
  <2> HIDE DEF z
  <2> QED BY <1>1, <2>4, <2>6, <2>7 DEF b, z
<1>3. CASE ~Responds("run") /\ Responds("submit")
  <2>1. pcpi.insn.list \in List
    BY <1>3 DEF Responds, PathTypeOK, PcpiType, Decoded, InsnType
  <2>2. pcpi.insn.list \in Seq(Words)
    BY <2>1, UnitAssumption DEF Words
  <2>3. z \in Nat /\ Issued(e) = z
    BY <1>3, <2>2, PlacesFinite DEF Issued, Listed
  <2> HIDE DEF b, z
  <2>4. z <= b + z
    BY <1>1, <2>3
  <2> QED BY <2>3, <2>4 DEF b, z
<1>4. CASE ~Responds("run") /\ ~Responds("submit")
  <2>1. Issued(e) = 0 /\ z = 0
    BY <1>4 DEF Issued
  <2> HIDE DEF b, z
  <2>2. 0 <= b + z
    BY <1>1, <2>1
  <2> QED BY <2>1, <2>2 DEF b, z
<1> QED BY <1>2, <1>3, <1>4

\* One edge that counts: what is owed is still somewhere.
LEMMA OwedStep ==
    ASSUME IInv, PathTypeOK, PathTypeOK', CoreRegs, FetchRegs, LegRegs, FetchEdge, Counts,
           pcpi.state = "EXEC" => ExecEdge /\ (pcpi'.state = "DONE" => Ends),
           pcpi.state # "EXEC" => pcpi'.submit = NoList,
           NEW rdy, NEW dn, dn \subseteq CanFinish, NEW bad, NEW ferr,
           SchedEdge(in_pkt, rdy, dn, bad, ferr),
           NEW start, Remember(start, dn, bad), ~Responds("reset"),
           NEW e \in Eng, ghost.owed[e] \in Nat, ghost.owed[e] <= Pending(e)
    PROVE  ghost'.owed[e] \in Nat /\ ghost'.owed[e] <= Pending(e)'
<1> DEFINE S == For(e)
           Piped1 == Piped(S)
           Piped2 == Piped(S)'
           M == Number(mk[e], S)
           M2 == Number(mk'[e], S)
           C == Coming(e)
           C2 == Coming(e)'
           in == Bit(in_ready /\ in_pkt \in S)
           fo == Bit(f_valid /\ f_ready /\ fetch.pkt \in S)
           po == Bit(p_valid /\ p_ready /\ pcpi.q \in S)
           g == Bit(dispatch /\ d2 \in S)
           F == Finishing(e, S, dn)
           z == IF Responds("submit") THEN Number(pcpi.insn.list, Listed(e)) ELSE 0
           w == ghost.owed[e]
           w2 == ghost'.owed[e]
           a == Issued(e)
           n == w + a
           S2 == Pending(e)
           T2 == Pending(e)'
<1>0. TypeOK /\ ~err /\ ~err' /\ ~clear_error /\ S \in SUBSET Cmd
  BY DEF IInv, Counts, For
<1>1. /\ inq' = inq_next(in_pkt) /\ d1' = d1_next /\ d2' = d2_next
      /\ mk' = mk_next(dn) /\ SchedError(bad, ferr)
  BY Zenon DEF SchedEdge
<1>2. ~reject /\ bad = {}
  BY <1>0, <1>1 DEF SchedError
<1>3. Piped2 = Piped1 + in - g
  <2>1. Piped2 = Number(inq_next(in_pkt), S) + Bit(d1_next \in S) + Bit(d2_next \in S)
    BY <1>1, Zenon DEF Piped, For, Software
  <2>2. Bit(reject /\ d2 \in S) = 0
    BY <1>2 DEF Bit
  <2>3. in_pkt \in Packet
    BY InPacket
  <2>4. Number(inq_next(in_pkt), S) + Bit(d1_next \in S) + Bit(d2_next \in S)
            = Piped1 + in - g - Bit(reject /\ d2 \in S)
    BY <1>0, <2>3, PipeCount
  <2>5. Piped1 \in Nat /\ in \in {0, 1} /\ g \in {0, 1}
    BY <1>0, PipedType, BitType
  <2> HIDE DEF Piped1, Piped2, in, g
  <2> QED BY <2>1, <2>2, <2>4, <2>5
<1>4. M2 = M - F + g
  <2>1. Bit(dispatch /\ d2.eng = e /\ d2 \in S) = g
    BY DEF Bit, For
  <2>2. M2 = Number(mk_next(dn)[e], S)
    BY <1>1
  <2> QED BY <1>0, <2>1, <2>2, EngineCount DEF Finishing
<1>5. C2 + fo >= C + z
  BY <1>0, ComingStep
<1>6. in = fo + po
  BY <1>0, CoreComesIn
<1>7. a \in Nat /\ a <= po + z
  BY <1>0, IssuedIs
<1>8. F = Bit(Completed(e, dn, bad)) /\ w2 = Less(w + a, Completed(e, dn, bad))
  BY <1>2, CompletedIs, HistoryCore
<1>9. /\ Piped1 \in Nat /\ M \in Nat /\ C \in Nat /\ C2 \in Nat
      /\ F \in {0, 1} /\ F <= M /\ g \in {0, 1} /\ fo \in {0, 1} /\ po \in {0, 1}
      /\ g <= Piped1
  <2>1. Piped1 \in Nat /\ g \in {0, 1} /\ fo \in {0, 1} /\ po \in {0, 1}
    BY <1>0, PipedType, BitType
  <2>2. M \in Nat /\ F \in {0, 1} /\ F <= M
    BY FinishingLess
  <2>3. C \in Nat
    BY ComingType
  <2>4. C2 \in Nat
    <3>1. fetch'.list \in Seq(Words) /\ (pcpi'.submit # NoList => pcpi'.submit \in Seq(Words))
      BY UnitAssumption DEF PathTypeOK, FetchType, PcpiType, Words
    <3>2. InList(e)' \in Nat /\ InSubmit(e)' \in Nat
      BY <3>1, PlacesFinite DEF InList, InSubmit, Listed, For, Software
    <3>3. C2 = InList(e)' + Bit(fetch'.pkt \in S) + InSubmit(e)'
      BY DEF Coming
    <3> QED BY <3>2, <3>3, BitType
  <2>5. g <= Piped1
    <3>1. Piped1 = 0 => g = 0
      BY <1>0, NoneThere DEF Bit
    <3> HIDE DEF Piped1, g
    <3> QED BY <2>1, <3>1
  <2> QED BY <2>1, <2>2, <2>3, <2>4, <2>5
<1>10. z \in Nat
  <2>1. CASE Responds("submit")
    <3>1. pcpi.insn.list \in List
      BY <2>1 DEF Responds, PathTypeOK, PcpiType, Decoded, InsnType
    <3>2. pcpi.insn.list \in Seq(Words)
      BY <3>1, UnitAssumption DEF Words
    <3> QED BY <2>1, <3>2, PlacesFinite
  <2> QED BY <2>1
<1>11. S2 = Piped1 + M + C /\ T2 = Piped2 + M2 + C2 /\ w \in Nat /\ w <= S2
  BY DEF Pending, For, Software
<1>12. F = 1 <=> Completed(e, dn, bad)
  BY <1>8 DEF Bit
<1>13. n = w + a /\ w2 = Less(n, Completed(e, dn, bad))
  BY <1>8
<1> HIDE DEF Piped1, Piped2, M, M2, C, C2, in, fo, po, g, F, z, w, w2, a, n, S2, T2
<1>14. T2 >= S2 + po + z - F /\ T2 \in Nat
  BY <1>3, <1>4, <1>5, <1>6, <1>9, <1>10, <1>11
<1>15. S2 \in Nat /\ po \in Nat /\ F \in {0, 1}
  BY <1>9, <1>11
<1>16. w2 \in Nat /\ w2 <= T2
  <2>1. w + a <= S2 + po + z
    BY <1>7, <1>10, <1>11, <1>15
  <2>2. n \in Nat /\ n <= S2 + po + z
    BY <1>7, <1>11, <1>13, <2>1
  <2>3. w2 = IF Completed(e, dn, bad) /\ n > 0 THEN n - 1 ELSE n
    BY <1>13 DEF Less
  <2> QED BY <1>10, <1>12, <1>14, <1>15, <2>2, <2>3
<1> QED BY <1>16 DEF w2, T2

\* Where nothing fails: no error, and none of the commands about can raise one.
Quiet == NothingFails => ~err /\ CoreSafe /\ PipeSafe /\ EnginesSafe

\* Only mat_reset clears.
Clears ==
    /\ NoJobs => leg.state = "IDLE"
    /\ NoJobFails => leg.state # "ERRW" /\ (clear_error => leg.reset_done)

\* Outside an error, what the history says the core is owed is still on its way or in its engine.
Owes ==
    /\ ghost.owed \in [Eng -> Nat] /\ ghost.prior \in [Eng -> Nat]
    /\ NoJobFails /\ ~err => \A e \in Eng : ghost.owed[e] <= Pending(e)
    /\ NothingFails /\ leg.state = "FENCE" => \A e \in Eng : ghost.prior[e] <= ghost.owed[e]

\* The invariant the two statements about fences need.
Kept == Quiet /\ Clears /\ Owes /\ FenceTrue /\ FencesFirst

\* Nothing is pending for an engine that a fence lets pass.
LEMMA Emptied ==
    ASSUME TypeOK, NEW e \in Eng, pipe_empty, mk[e] = <<>>,
           fetch.state = "IDLE", fetch.pkt = NoCmd, pcpi.submit = NoList
    PROVE  Pending(e) = 0
<1>1. Piped(For(e)) = 0
  BY NoneThere DEF For
<1>2. Number(mk[e], For(e)) = 0
  BY NumberNone
<1>3. NoCmd \notin For(e)
  BY SchedAssumption DEF For
<1>4. Coming(e) = 0
  BY <1>3 DEF Coming, InList, InSubmit, Bit
<1> QED BY <1>1, <1>2, <1>4 DEF Pending

\* A number of commands.
LEMMA PendingType ==
    ASSUME TypeOK, PathTypeOK, NEW e \in Eng
    PROVE  /\ Pending(e) \in Nat /\ Number(mk[e], For(e)) \in Nat
           /\ Number(mk[e], For(e)) <= Pending(e)
<1>1. Piped(For(e)) \in Nat /\ Coming(e) \in Nat
  BY PipedType, ComingType
<1>2. Number(mk[e], For(e)) \in Nat
  BY PlacesFinite DEF TypeOK
<1> QED BY <1>1, <1>2 DEF Pending

\* The history's numbers are numbers.
LEMMA LessType ==
    ASSUME NEW n \in Nat, NEW b
    PROVE  /\ Less(n, b) \in Nat /\ Less(n, b) <= n
           /\ n = 0 => Less(n, b) = 0
BY DEF Less

\* What an edge issues is a number of commands for each engine.
LEMMA IssuedType ==
    ASSUME PathTypeOK, NEW e
    PROVE  Issued(e) \in Nat
<1>1. CASE Responds("submit")
  <2>1. pcpi.insn.list \in List
    BY <1>1 DEF Responds, PathTypeOK, PcpiType, Decoded, InsnType
  <2>2. pcpi.insn.list \in Seq(Words)
    BY <2>1, UnitAssumption DEF Words
  <2> QED BY <2>2, PlacesFinite DEF Issued
<1>2. CASE ~Responds("submit")
  BY <1>2 DEF Issued
<1> QED BY <1>1, <1>2

\* Where nothing fails, nothing does after an edge.
LEMMA QuietKept ==
    ASSUME IInv, PathTypeOK, LegRegs, Quiet, NothingFails,
           NEW i, i = <<>> \/ (i[1] \in Decoded /\ i[1] \in world.insn), NEW start,
           NEW got, NEW rerr \in ReadErrs,
           pcpi' = pcpi_next(i, start), fetch' = fetch_next(got, rerr), world' = world,
           NEW rdy, NEW dn, dn \subseteq CanFinish,
           NEW bad, bad \subseteq dn, bad \subseteq world.bus,
           SchedEdge(in_pkt, rdy, dn, bad, IF fetch.err_set THEN "SHAPE" ELSE "none")
    PROVE  ~err' /\ CoreSafe' /\ PipeSafe' /\ EnginesSafe'
<1>1. ~err /\ CoreSafe /\ PipeSafe /\ EnginesSafe
  BY DEF Quiet
<1>2. OnlyJobsFail
  BY DEF OnlyJobsFail, NothingFails
<1>3. CoreSafe'
  BY <1>1, <1>2, CoreStep, Zenon
<1>4. SchedEdge(in_pkt, rdy, dn, bad, "none")
  BY <1>1 DEF CoreSafe
<1>5. l_valid /\ in_ready => leg.q \in Safe
  <2> SUFFICES ASSUME l_valid PROVE leg.q \in Safe
    OBVIOUS
  <2>1. leg.q \in {JobDesc} \cup {Job[n] : n \in 1 .. 4}
    <3>1. leg.pidx + 1 \in 1 .. 4
      BY DEF PathTypeOK, LegType
    <3> QED BY <3>1 DEF LegRegs, l_valid
  <2>2. JobDesc \in Cmd /\ JobDesc.ok /\ \A n \in 1 .. 4 : Job[n] \in Cmd /\ Job[n].ok
    BY UnitAssumption
  <2>3. world.bus = {}
    BY DEF NothingFails
  <2> QED BY <2>1, <2>2, <2>3 DEF Safe
<1>6. IF err THEN clear_error ELSE PipeSafe
  BY <1>1
<1> QED BY <1>1, <1>3, <1>4, <1>5, <1>6, QuietStep, Zenon

\* What the decoder does in an edge, as far as the history sees it.
CoreMoves ==
    /\ pcpi.state = "EXEC" =>
            /\ ExecEdge
            /\ pcpi'.state = "DONE" => Ends
            /\ pcpi.reset /\ leg.reset_done => pcpi'.state = "DONE"
    /\ pcpi.state # "EXEC" => pcpi'.state \in {"IDLE", "EXEC"} /\ pcpi'.submit = NoList

\* clear_error comes from mat_reset alone after an edge too.
LEMMA ClearsKept ==
    ASSUME PathTypeOK, CoreRegs, LegRegs, Quiet, Clears,
           NEW start, start => Stores, NEW good, leg' = leg_next(start, good),
           clear_error' = clear_next, world' = world
    PROVE  Clears'
<1>1. (NoJobs' <=> NoJobs) /\ (NothingFails' <=> NothingFails) /\ (NoJobFails' <=> NoJobFails)
  BY DEF NoJobs, NothingFails, NoJobFails
<1>2. /\ leg'.reset_done <=> reset_now
      /\ leg'.state = "ERRW" => leg.state = "ERRW" \/ err
      /\ leg.state = "IDLE" /\ leg'.state # "IDLE" => start \/ leg_accept(start)
  BY LegFields, Zenon
<1>3. NoJobs => leg'.state = "IDLE"
  <2> SUFFICES ASSUME NoJobs PROVE ~start /\ ~leg_accept(start)
    BY <1>2 DEF Clears
  <2>1. ~start
    BY DEF NoJobs, Stores
  <2>2. ~pcpi.trigger
    BY DEF NoJobs, CoreRegs
  <2> QED BY <2>1, <2>2 DEF leg_accept
<1>4. NoJobFails => leg'.state # "ERRW"
  BY <1>2, <1>3 DEF NoJobFails, Clears, Quiet
<1>5. NoJobFails /\ clear_error' => leg'.reset_done
  BY <1>2 DEF Clears, clear_next, job_failed
<1> QED BY <1>1, <1>3, <1>4, <1>5 DEF Clears

\* mat_reset's clear_error reaches the scheduler in the cycle mat_reset returns.
LEMMA ClearIsReset ==
    ASSUME CoreRegs, LegRegs, Clears, NoJobFails, clear_error, CoreMoves
    PROVE  Responds("reset")
<1>1. leg.reset_done /\ pcpi.reset
  BY DEF Clears, LegRegs
<1>2. pcpi.state = "EXEC" /\ pcpi.insn.op = "reset"
  BY <1>1 DEF CoreRegs
<1> QED BY <1>1, <1>2 DEF CoreMoves, Responds

\* The history's records hold numbers of commands for each engine.
LEMMA HistoryType ==
    ASSUME PathTypeOK, TypeOK', NEW start, NEW dn, NEW bad, Remember(start, dn, bad),
           ghost.owed \in [Eng -> Nat], ghost.prior \in [Eng -> Nat]
    PROVE  ghost'.owed \in [Eng -> Nat] /\ ghost'.prior \in [Eng -> Nat]
<1>1. ASSUME NEW e \in Eng
      PROVE  ghost'.owed[e] \in Nat /\ ghost'.prior[e] \in Nat
  <2> DEFINE n == ghost.owed[e] + Issued(e)
  <2>1. n \in Nat /\ ghost.prior[e] \in Nat
    BY IssuedType
  <2>2. InEngine(e) \in Nat
    BY PlacesFinite DEF InEngine, TypeOK
  <2>3. /\ ghost'.owed[e] = IF Responds("reset") THEN InEngine(e)
                            ELSE Less(n, Completed(e, dn, bad))
        /\ ghost'.prior[e] =
              IF leg.state = "IDLE" /\ leg'.state = "FENCE" THEN ghost'.owed[e]
              ELSE IF leg'.state = "IDLE" THEN 0
              ELSE Less(ghost.prior[e], Completed(e, dn, bad))
    BY HistoryCore
  <2> HIDE DEF n
  <2>4. Less(n, Completed(e, dn, bad)) \in Nat /\ Less(ghost.prior[e], Completed(e, dn, bad)) \in Nat
    BY <2>1 DEF Less
  <2> QED BY <2>2, <2>3, <2>4
<1>2. ghost'.owed = [e \in Eng |-> ghost'.owed[e]] /\ ghost'.prior = [e \in Eng |-> ghost'.prior[e]]
  BY DEF Remember
<1> QED BY <1>1, <1>2

\* The owed commands are pending after an edge too.
LEMMA OwesKept ==
    ASSUME IInv, IInv', PathTypeOK, PathTypeOK', CoreRegs, FetchRegs, LegRegs, FetchEdge,
           Clears, Owes, CoreMoves, NoJobFails, ~err', ~clear_error => (err => err'),
           NEW rdy, NEW dn, dn \subseteq CanFinish, NEW bad, NEW ferr,
           SchedEdge(in_pkt, rdy, dn, bad, ferr),
           NEW start, Remember(start, dn, bad), NEW e \in Eng
    PROVE  ghost'.owed[e] <= Pending(e)'
<1>1. CASE Responds("reset")
  <2>1. ghost'.owed[e] = InEngine(e)
    BY <1>1, HistoryCore
  <2>2. InEngine(e) <= Pending(e)'
    <3> DEFINE S == For(e)
               M == Number(mk'[e], S)
               Piped1 == Piped(S)'
               C == Coming(e)'
    <3>1. fetch'.list \in Seq(Words) /\ (pcpi'.submit # NoList => pcpi'.submit \in Seq(Words))
      BY UnitAssumption DEF PathTypeOK, FetchType, PcpiType, Words
    <3>2. InList(e)' \in Nat /\ InSubmit(e)' \in Nat
      BY <3>1, PlacesFinite DEF InList, InSubmit, Listed, For, Software
    <3>3. C = InList(e)' + Bit(fetch'.pkt \in S) + InSubmit(e)'
      BY DEF Coming
    <3>4. Piped1 = Number(inq', S) + Bit(d1' \in S) + Bit(d2' \in S)
      BY DEF Piped, For, Software
    <3>5. M \in Nat /\ Number(inq', S) \in Nat
      BY PlacesFinite DEF IInv, TypeOK
    <3>6. Pending(e)' = Piped1 + M + C /\ InEngine(e) = M
      BY DEF Pending, InEngine, For, Software
    <3>7. Piped1 \in Nat /\ C \in Nat
      BY <3>2, <3>3, <3>4, <3>5, BitType
    <3> HIDE DEF S, M, Piped1, C
    <3> QED BY <3>5, <3>6, <3>7
  <2> QED BY <2>1, <2>2
<1>2. CASE ~Responds("reset")
  <2>1. ~clear_error
    BY <1>2, ClearIsReset
  <2>2. Counts
    BY <2>1 DEF Counts
  <2>3. ghost.owed[e] \in Nat /\ ghost.owed[e] <= Pending(e)
    BY <2>2 DEF Owes, Counts
  <2>4. /\ pcpi.state = "EXEC" => ExecEdge /\ (pcpi'.state = "DONE" => Ends)
        /\ pcpi.state # "EXEC" => pcpi'.submit = NoList
    BY DEF CoreMoves
  <2> QED BY <1>2, <2>2, <2>3, <2>4, OwedStep
<1> QED BY <1>1, <1>2

\* The edge in which mat_fence returns: nothing was pending for its engines.
LEMMA TellsKept ==
    ASSUME IInv, PathTypeOK, CoreRegs, Owes, CoreMoves, NoJobFails,
           NEW start, NEW dn, NEW bad, Remember(start, dn, bad)
    PROVE  FenceTrue'
<1> SUFFICES ASSUME pcpi'.state = "DONE", pcpi'.insn.op = "fence", ~pcpi'.rd,
                    NEW e \in IF pcpi'.insn.mask = {} THEN Eng ELSE pcpi'.insn.mask
             PROVE  ghost'.owed[e] = 0
  BY Zenon DEF FenceTrue
<1>1. pcpi.state = "EXEC" /\ pcpi'.insn = pcpi.insn
  BY DEF CoreMoves, ExecEdge
<1>2. ~err /\ fence_ok(pcpi.insn.mask) /\ ~fetch_busy
  BY <1>1 DEF CoreMoves, Ends
<1>3. pcpi.insn.mask \subseteq Eng
  BY <1>1 DEF PathTypeOK, PcpiType, Decoded, InsnType
<1>4. e \in Eng /\ mk[e] = <<>> /\ pipe_empty
  BY <1>1, <1>2, <1>3 DEF fence_ok, eng_busy
<1>5. fetch.state = "IDLE" /\ fetch.pkt = NoCmd /\ pcpi.submit = NoList
  BY <1>1, <1>2 DEF fetch_busy, CoreRegs
<1>6. Pending(e) = 0
  BY <1>4, <1>5, Emptied DEF IInv
<1>7. ghost.owed[e] = 0
  BY <1>2, <1>4, <1>6 DEF Owes
<1>8. Issued(e) = 0 /\ ~Responds("reset")
  BY <1>1 DEF Issued, Responds
<1>9. ghost'.owed[e] = Less(ghost.owed[e] + Issued(e), Completed(e, dn, bad))
  BY <1>4, <1>8, HistoryCore
<1>10. ghost.owed[e] + Issued(e) = 0
  BY <1>7, <1>8
<1> QED BY <1>9, <1>10 DEF Less

\* What was issued before a job is owed when L_FENCE begins, and nothing is owed
\* when it lets the job pass.
LEMMA FirstKept ==
    ASSUME IInv, PathTypeOK, CoreRegs, LegRegs, Quiet, Owes, FencesFirst, CoreMoves, NothingFails,
           NEW start, NEW good \in Goods, leg' = leg_next(start, good),
           NEW dn, NEW bad, Remember(start, dn, bad), ghost'.owed \in [Eng -> Nat],
           NEW e \in Eng
    PROVE  /\ leg'.state = "FENCE" => ghost'.prior[e] <= ghost'.owed[e]
           /\ leg'.state \notin {"IDLE", "FENCE"} => ghost'.prior[e] = 0
<1> DEFINE w == ghost.owed[e]
           p == ghost.prior[e]
           n == w + Issued(e)
           w2 == ghost'.owed[e]
           p2 == ghost'.prior[e]
<1>1. /\ w \in Nat /\ p \in Nat /\ n \in Nat /\ w2 \in Nat /\ w <= n
  <2>1. w \in Nat /\ p \in Nat /\ Issued(e) \in Nat /\ w2 \in Nat
    BY IssuedType DEF Owes
  <2> HIDE DEF w, p, w2
  <2> QED BY <2>1
<1>2. /\ w2 = IF Responds("reset") THEN InEngine(e) ELSE Less(n, Completed(e, dn, bad))
      /\ p2 = IF leg.state = "IDLE" /\ leg'.state = "FENCE" THEN w2
              ELSE IF leg'.state = "IDLE" THEN 0
              ELSE Less(p, Completed(e, dn, bad))
  BY HistoryCore
<1>3. ASSUME leg.state = "FENCE"
      PROVE  ~Responds("reset") /\ p <= w
  <2>1. ~leg.reset_done
    BY <1>3 DEF LegRegs
  <2>2. ~Responds("reset")
    BY <2>1 DEF Responds, CoreMoves, Ends
  <2> QED BY <1>3, <2>2 DEF Owes
<1>4. ASSUME leg.state = "FENCE", leg'.state \in {"DESC", "CHECK"}
      PROVE  p = 0
  <2>1. ~err /\ idle
    BY <1>4, LegFields, Zenon
  <2>2. CoreSafe /\ NoJobFails
    BY DEF Quiet, NoJobFails
  <2>3. pipe_empty /\ mk[e] = <<>>
    BY <2>1 DEF idle, eng_idle, eng_busy
  <2>4. Pending(e) = 0
    BY <2>2, <2>3, Emptied DEF CoreSafe, IInv
  <2>5. w <= 0
    BY <2>1, <2>2, <2>4 DEF Owes
  <2>6. p <= w
    BY <1>3, <1>4
  <2> HIDE DEF w, p
  <2> QED BY <1>1, <2>5, <2>6
<1>5. leg.state \notin {"IDLE", "FENCE"} => p = 0
  BY DEF FencesFirst
<1>6. /\ leg'.state = "FENCE" => leg.state \in {"IDLE", "FENCE"}
      /\ leg.state = "FENCE" /\ leg'.state \notin {"IDLE", "FENCE"} => leg'.state \in {"DESC", "CHECK"}
      /\ leg.state = "IDLE" => leg'.state \in {"IDLE", "FENCE"}
  BY LegMoves
<1> HIDE DEF w, p, n, w2, p2
<1>7. ASSUME leg'.state = "FENCE"
      PROVE  p2 <= w2
  <2>1. CASE leg.state = "IDLE"
    BY <1>1, <1>2, <1>7, <2>1
  <2>2. CASE leg.state = "FENCE"
    <3>1. p <= n
      BY <1>1, <1>3, <2>2
    <3>2. w2 = Less(n, Completed(e, dn, bad)) /\ p2 = Less(p, Completed(e, dn, bad))
      BY <1>2, <1>3, <1>7, <2>2
    <3> QED BY <1>1, <3>1, <3>2 DEF Less
  <2> QED BY <1>6, <1>7, <2>1, <2>2
<1>8. ASSUME leg'.state \notin {"IDLE", "FENCE"}
      PROVE  p2 = 0
  <2>1. p = 0 /\ leg.state # "IDLE"
    BY <1>4, <1>5, <1>6, <1>8
  <2>2. p2 = Less(p, Completed(e, dn, bad))
    BY <1>2, <1>8, <2>1
  <2> QED BY <2>1, <2>2 DEF Less
<1> QED BY <1>7, <1>8 DEF w2, p2

\* After reset.
LEMMA InitKept ==
    ASSUME UnitInit
    PROVE  Kept
<1>1. /\ inq = <<>> /\ d1 = NoCmd /\ d2 = NoCmd /\ ~err /\ ~clear_error
      /\ mk = [e \in Eng |-> <<>>]
  BY DEF UnitInit, Init, SchedInit
<1>2. /\ leg.state = "IDLE" /\ pcpi.state = "IDLE"
      /\ fetch.state = "IDLE" /\ fetch.pkt = NoCmd /\ pcpi.submit = NoList
      /\ ghost = [owed |-> [e \in Eng |-> 0], prior |-> [e \in Eng |-> 0], job |-> 0]
  BY DEF UnitInit
<1>3. PathTypeOK /\ TypeOK
  BY UnitInitPath, InitIInv DEF UnitInit, IInv
<1>4. Quiet
  <2>1. CoreSafe
    BY DEF UnitInit, CoreSafe
  <2>2. PipeSafe /\ EnginesSafe
    BY <1>1, EmptySeq DEF PipeSafe, EnginesSafe
  <2> QED BY <1>1, <2>1, <2>2 DEF Quiet
<1>5. Clears
  BY <1>1, <1>2 DEF Clears
<1>6. Owes
  <2>1. \A e \in Eng : Pending(e) \in Nat
    BY <1>3, PendingType
  <2>2. /\ ghost.owed \in [Eng -> Nat] /\ ghost.prior \in [Eng -> Nat]
        /\ \A e \in Eng : ghost.owed[e] = 0
    BY <1>2
  <2>3. \A e \in Eng : ghost.owed[e] <= Pending(e)
    BY <2>1, <2>2
  <2> QED BY <1>2, <2>2, <2>3 DEF Owes
<1>7. FenceTrue /\ FencesFirst
  BY <1>2 DEF FenceTrue, FencesFirst
<1> QED BY <1>4, <1>5, <1>6, <1>7 DEF Kept

\* Every edge keeps it.
LEMMA KeptStep ==
    ASSUME IInv, PathTypeOK, PathInv, Kept, [UnitNext]_unitVars
    PROVE  Kept'
<1>0. SequencerOK /\ CoreRegs /\ FetchRegs /\ LegRegs
  BY DEF PathInv
<1>1. CASE UnitNext
  <2>1. PICK i, start, good, got, rerr, rdy, dn, bad :
            /\ i = <<>> \/ (i[1] \in Decoded /\ i[1] \in world.insn)
            /\ start => Stores
            /\ good \in Goods /\ rerr \in ReadErrs
            /\ dn \subseteq CanFinish /\ rdy \subseteq CanTake(dn)
            /\ bad \subseteq dn \cap {"LD", "ST"} /\ bad \subseteq world.bus
            /\ UnitEdge(i, start, good, got, rerr, rdy, dn, bad)
    BY <1>1, UnitInputs, Zenon
  <2> DEFINE ferr == IF fetch.err_set THEN "SHAPE" ELSE "none"
  <2>2. /\ SchedEdge(in_pkt, rdy, dn, bad, ferr)
        /\ clear_error' = clear_next /\ world' = world
        /\ pcpi' = pcpi_next(i, start) /\ leg' = leg_next(start, good)
        /\ fetch' = fetch_next(got, rerr) /\ Remember(start, dn, bad)
    BY <2>1, Zenon DEF UnitEdge
  <2>3. Quiet /\ Clears /\ Owes /\ FenceTrue /\ FencesFirst
    BY DEF Kept
  <2>4. PathTypeOK' /\ IInv'
    <3>1. Next
      BY <1>1, UnitStepIsTick
    <3> QED BY <3>1, PathStep, StepIInv, Zenon
  <2>5. (NothingFails' <=> NothingFails) /\ (NoJobFails' <=> NoJobFails)
    BY <2>2 DEF NoJobs, NothingFails, NoJobFails
  <2>6. ~clear_error => (err => err')
    BY <2>2, Zenon DEF SchedEdge, SchedError
  <2>7. FetchEdge
    BY <2>1, <2>2, FetchMoves, Zenon
  <2>8. CoreMoves
    <3>1. CASE pcpi.state = "EXEC"
      BY <1>0, <2>2, <3>1, ExecMoves, Zenon DEF CoreMoves
    <3>2. CASE pcpi.state # "EXEC"
      BY <1>0, <2>1, <2>2, <3>2, RestMoves, Zenon DEF CoreMoves
    <3> QED BY <3>1, <3>2
  <2>9. NothingFails => ~err' /\ CoreSafe' /\ PipeSafe' /\ EnginesSafe'
    <3>1. bad \subseteq dn
      BY <2>1
    <3> QED BY <1>0, <2>1, <2>2, <2>3, <3>1, QuietKept, Zenon
  <2> HIDE DEF ferr
  <2>10. Clears'
    BY <1>0, <2>1, <2>2, <2>3, ClearsKept, Zenon
  <2>11. ghost'.owed \in [Eng -> Nat] /\ ghost'.prior \in [Eng -> Nat]
    <3>1. TypeOK' /\ ghost.owed \in [Eng -> Nat] /\ ghost.prior \in [Eng -> Nat]
      BY <2>3, <2>4 DEF IInv, Owes
    <3> QED BY <2>2, <3>1, HistoryType, Zenon
  <2>12. NoJobFails /\ ~err' => \A e \in Eng : ghost'.owed[e] <= Pending(e)'
    BY <1>0, <2>1, <2>2, <2>3, <2>4, <2>6, <2>7, <2>8, OwesKept, Zenon
  <2>13. FenceTrue'
    <3>1. CASE NoJobFails
      BY <1>0, <2>2, <2>3, <2>8, <3>1, TellsKept, Zenon
    <3>2. CASE ~NoJobFails
      BY <2>5, <3>2, Zenon DEF FenceTrue
    <3> QED BY <3>1, <3>2
  <2>14. NothingFails => \A e \in Eng :
            /\ leg'.state = "FENCE" => ghost'.prior[e] <= ghost'.owed[e]
            /\ leg'.state \notin {"IDLE", "FENCE"} => ghost'.prior[e] = 0
    BY <1>0, <2>1, <2>2, <2>3, <2>8, <2>11, FirstKept, Zenon
  <2>15. Quiet'
    BY <2>5, <2>9 DEF Quiet
  <2>16. Owes'
    BY <2>5, <2>11, <2>12, <2>14 DEF Owes
  <2>17. FencesFirst'
    BY <2>5, <2>14 DEF FencesFirst
  <2> QED BY <2>5, <2>10, <2>13, <2>15, <2>16, <2>17 DEF Kept
<1>2. CASE UNCHANGED unitVars
  <2>1. UNCHANGED <<inq, d1, d2, mk, err, clear_error, pcpi, leg, fetch, ghost, world>>
    BY <1>2 DEF unitVars, vars, schedVars
  <2>2. (NothingFails' <=> NothingFails) /\ (NoJobs' <=> NoJobs) /\ (NoJobFails' <=> NoJobFails)
    BY <2>1 DEF NoJobs, NothingFails, NoJobFails
  <2>3. Quiet'
    BY <2>1, <2>2 DEF Kept, Quiet, CoreSafe, PipeSafe, EnginesSafe, Safe
  <2>4. Clears'
    BY <2>1, <2>2 DEF Kept, Clears
  <2>5. \A e \in Eng : Pending(e)' = Pending(e)
    BY <2>1 DEF Pending, Piped, Coming, InList, InSubmit, Listed, For, Software
  <2>6. Owes'
    BY <2>1, <2>2, <2>5 DEF Kept, Owes
  <2>7. FenceTrue' /\ FencesFirst'
    BY <2>1, <2>2 DEF Kept, FenceTrue, FencesFirst
  <2> QED BY <2>3, <2>4, <2>6, <2>7 DEF Kept
<1> QED BY <1>1, <1>2

\* Whatever the core runs: outside an error, every command issued and not completed is in a list,
\* in the scheduler or in its engine (sa_cmdfetch.v, sa_sched.v and the arbiter of sa_unit.v lose none).
THEOREM KeptAlways == UnitSpec => []Kept
<1>1. UnitInit => Init /\ PathTypeOK /\ PathInv /\ Kept
  BY UnitInitPath, InitPathInv, InitKept
<1>2. PathTypeOK /\ [UnitNext]_unitVars => PathTypeOK'
  BY PathStep
<1>3. IInv /\ PathTypeOK /\ PathInv /\ [UnitNext]_unitVars => PathInv'
  BY PathInvStep
<1>4. IInv /\ PathTypeOK /\ PathInv /\ Kept /\ [UnitNext]_unitVars => Kept'
  BY KeptStep
<1> QED BY <1>1, <1>2, <1>3, <1>4, UnitImplementsSched, Inductive, PTL DEF UnitSpec

\* mat_fence (sa_pcpi.v) tells the truth: where no job can fail, and so mat_reset
\* is the only one to drop commands, a fence that returns without the error bit
\* returns when every command of the core for its engines, alone or in a list,
\* has completed.
THEOREM FenceTells == UnitSpec => []FenceTrue
BY KeptAlways, PTL DEF Kept

\* "The sequencer fences first" (sa_legacy.v, L_FENCE): where nothing fails, a job
\* goes on only when what the core issued before it has completed.
THEOREM FencesBefore == UnitSpec => []FencesFirst
BY KeptAlways, PTL DEF Kept

=============================================================================
