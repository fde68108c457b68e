---------------------------- MODULE SaSchedOrder -----------------------------
(***************************************************************************)
(* The scheduler implements the in-order program of SaInOrder.  A history  *)
(* variable keeps the program order of the dispatched commands, which the  *)
(* code splits over four engine queues.                                    *)
(***************************************************************************)
EXTENDS SaSched, SequencesExt

VARIABLE disp       \* dispatched commands that are not done, in program order

ovars == <<vars, disp>>

\* The commands in the input pipeline, oldest first.
pipe ==
    (IF d2 = NoCmd THEN <<>> ELSE <<d2>>)
        \o (IF d1 = NoCmd THEN <<>> ELSE <<d1>>)
        \o inq

OInit == Init /\ disp = <<>>

\* An engine in dn is done with the head of its mask queue.
Release(s, e, dn) == IF e \in dn THEN RemoveFirst(s, Head(mk[e])) ELSE s
Released(dn) ==
    Release(Release(Release(Release(disp, "LD", dn), "ST", dn), "EX", dn), "VE", dn)

\* What is done leaves disp; a dispatch appends to it.
OTick(in, rdy, dn, bad, ferr) ==
    /\ Tick(in, rdy, dn, bad, ferr)
    /\ disp' = Released(dn) \o (IF dispatch THEN <<d2>> ELSE <<>>)

ONext ==
    \E dn \in SUBSET CanFinish :
    \E rdy \in SUBSET CanTake(dn),
       bad \in SUBSET (IF err THEN {} ELSE dn \cap {"LD", "ST"}),
       in \in (IF in_ready THEN Cmd ELSE {}) \cup {NoCmd},
       ferr \in (IF err THEN {} ELSE {"SHAPE"}) \cup {"none"} :
            OTick(in, rdy, dn, bad, ferr)

OSpec == OInit /\ [][ONext]_ovars

-----------------------------------------------------------------------------
MayRunTogether(c, d) == c.eng = d.eng \/ ~Conflict(c, d)

P == INSTANCE SaInOrder WITH
        MayOverlap <- MayRunTogether,
        running <- disp,
        waiting <- pipe,
        halted <- err,
        clear <- clear_error

\* Splitting the program over four engines loses nothing: commands start in
\* program order, none starts while an earlier conflicting one runs, none is
\* lost, doubled or reordered in the pipeline, an invalid command and what is
\* behind it never run, and clear_error removes exactly what has not started.  That
\* includes a command accepted in the cycle of clear_error, which the hardware drops
\* and the comment at sa_sched.v 441 says is kept: this is the promise of the code.
InOrderProgram == P!PSpec

\* When fence_ok holds for a mask, every command accepted before it on an
\* engine of the mask is done: none is in the pipeline or in flight.
FenceMeansDone ==
    \A mask \in SUBSET Eng :
        fence_ok(mask) =>
            \A i \in 1 .. Len(disp \o pipe) :
                mask # {} /\ (disp \o pipe)[i].eng \notin mask

=============================================================================
