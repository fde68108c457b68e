------------------------------ MODULE LlmStep ------------------------------
(***************************************************************************)
(* What the compiled model is to the programs that run it: a step writes   *)
(* the token of its position into the KV cache and returns the logits of   *)
(* the tokens its mask lets it attend to (external: the compiled module).  *)
(* A float is an integer in the order of the float's bits, with -1 for     *)
(* negative zero, so that 0 and -1 are equal as floats.  Logits are never  *)
(* NaN.                                                                    *)
(***************************************************************************)
EXTENDS Integers, Sequences, FiniteSetsExt

CONSTANTS
    Vocab,          \* the number of tokens
    Logits(_, _)    \* (model, position -> token) -> token -> float

ASSUME VocabAssumption == Vocab \in Nat \ {0}

Id == 0 .. Vocab - 1
Value(f) == IF f = -1 THEN 0 ELSE f

\* The tokens with the largest logit, as floats compare.
Largest(l) == {v \in Id : \A u \in Id : Value(l[u]) <= Value(l[v])}

\* sa-llm-run's argmax: the first of them.
Argmax(l) == Min(Largest(l))

\* The logits after the tokens of a sequence.
After(model, seq) == Logits(model, [i \in 0 .. Len(seq) - 1 |-> seq[i + 1]])
=============================================================================
