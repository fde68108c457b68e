----------------------------- MODULE LlmGreedy -----------------------------
(***************************************************************************)
(* What sa-llm-run promises: it prints the prompt, then tokens each of     *)
(* which is the greedy choice after the ones before it.  Which chunks,     *)
(* buckets, lists or processor computed a token does not show.             *)
(***************************************************************************)
EXTENDS LlmStep

VARIABLES
    job,    \* what was asked: the model and the prompt's tokens
    out     \* the tokens printed so far

\* The k-th token printed.  Between zeros of both signs the choice is free.
RightToken(s, k) ==
    IF k <= Len(job.toks) THEN s[k] = job.toks[k]
    ELSE LET l == After(job.model, SubSeq(s, 1, k - 1))
         IN  /\ s[k] \in Largest(l)
             /\ Value(l[s[k]]) # 0 => s[k] = Argmax(l)

Init == out = <<>>

Next ==
    /\ UNCHANGED job
    /\ Len(out) < Len(out') /\ SubSeq(out', 1, Len(out)) = out
    /\ \A k \in Len(out) + 1 .. Len(out') : RightToken(out', k)

Spec == Init /\ [][Next]_<<job, out>>
=============================================================================
