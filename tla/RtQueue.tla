------------------------------ MODULE RtQueue -------------------------------
(***************************************************************************)
(* What a submission ring promises its user, whatever its size: a queue of *)
(* jobs that are completed one at a time in the order they were submitted, *)
(* and for each of them one record, which stays until it is returned.      *)
(***************************************************************************)
EXTENDS Naturals, Sequences

CONSTANTS Job, Status

VARIABLES
    pending,    \* the jobs submitted and not completed, oldest first
    ready,      \* the records of completed jobs not yet returned
    open        \* the queue has not been closed

queueVars == <<pending, ready, open>>

Known == {pending[i] : i \in 1 .. Len(pending)} \cup {r.job : r \in ready}

Init ==
    /\ pending = <<>>
    /\ ready = {}
    /\ open = TRUE

Submit ==
    /\ open
    /\ \E j \in Job \ Known : pending' = Append(pending, j)
    /\ UNCHANGED <<ready, open>>

Complete ==
    /\ open
    /\ pending # <<>>
    /\ pending' = Tail(pending)
    /\ \E st \in Status :
           ready' = ready \cup {[job |-> Head(pending), status |-> st]}
    /\ UNCHANGED open

Return ==
    /\ \E r \in ready : ready' = ready \ {r}
    /\ UNCHANGED <<pending, open>>

\* The queue is abandoned: what has not been completed never is.
Close ==
    /\ open
    /\ open' = FALSE
    /\ pending' = <<>>
    /\ UNCHANGED ready

Next == Submit \/ Complete \/ Return \/ Close

Spec == Init /\ [][Next]_queueVars
=============================================================================
