---------------------------- MODULE MCSaLlmRun ----------------------------
(***************************************************************************)
(* Instances of SaLlmRun: four tokens in two blocks, six positions in      *)
(* buckets of two, a model that is a hash of the tokens it attends to.     *)
(***************************************************************************)
EXTENDS SaLlmRun, TLC

\* Every token at every position changes the logits; ties and zeros of both
\* signs occur.
MCLogits(model, seen) ==
    LET sum == FoldSet(LAMBDA i, n : n + (i + 2) * (seen[i] + 1), model, DOMAIN seen)
    IN  [v \in Id |-> ((sum * (v + 3) + sum \div 5) % 5) - 2]

Base == [model |-> 0, toks |-> <<1>>, generate |-> 0, stop |-> -1, prefill |-> 0, all |-> FALSE,
         dyn |-> TRUE, rvsched |-> FALSE, r5 |-> FALSE, code |-> 0, posdep |-> FALSE, hostop |-> FALSE,
         longer |-> {}, fails |-> FALSE, slow |-> FALSE, frames |-> [p \in 1 .. 3 |-> [b \in 0 .. 2 |-> 1]]]

Models == 0 .. 6
Prompts == {<<1>>, <<3, 0>>, <<2, 1, 3>>, <<0, 2, 2, 1, 3>>}

\* The host alone: chunks, padding, stop tokens, failing calls.
HostWorlds ==
    {[Base EXCEPT !.model = m, !.toks = t, !.generate = g, !.stop = s, !.prefill = p, !.all = a, !.dyn = d, !.fails = f] :
        m \in Models, t \in Prompts, g \in {0, 2, 5}, s \in {-1, 2}, p \in {0, 2, 3},
        a \in BOOLEAN, d \in BOOLEAN, f \in {FALSE}}

\* The core generates: frames that differ between buckets or between passes.
Same == [p \in 1 .. 3 |-> [b \in 0 .. 2 |-> 1]]
Own == [p \in 1 .. 3 |-> [b \in 0 .. 2 |-> b + 1]]
Middle == [p \in 1 .. 3 |-> [b \in 0 .. 2 |-> IF b = 1 THEN 2 ELSE 1]]
Moved == [p \in 1 .. 3 |-> [b \in 0 .. 2 |-> IF p = 1 THEN 1 ELSE b + 1]]
Shifted == [p \in 1 .. 3 |-> [b \in 0 .. 2 |-> IF p = 3 THEN 2 ELSE 1]]

CoreWorlds ==
    {[Base EXCEPT !.model = m, !.toks = t, !.generate = g, !.stop = s, !.prefill = p, !.rvsched = TRUE,
                  !.r5 = r, !.code = IF r THEN 1 ELSE 0, !.frames = fr, !.fails = f, !.slow = f] :
        m \in Models, t \in Prompts, g \in {1, 5}, s \in {-1, 2}, p \in {0, 2},
        r \in BOOLEAN, fr \in {Same, Own, Middle}, f \in BOOLEAN}

\* Steps that cannot be recorded, or not as the table needs them.
OddWorlds ==
    {[Base EXCEPT !.model = m, !.toks = t, !.generate = g, !.rvsched = TRUE,
                  !.posdep = o[1], !.hostop = o[2], !.longer = o[3], !.frames = o[4], !.fails = f] :
        m \in {0, 3}, t \in Prompts, g \in {1, 2, 5}, f \in BOOLEAN,
        o \in {<<TRUE, FALSE, {}, Same>>, <<TRUE, FALSE, {}, Own>>, <<FALSE, TRUE, {}, Same>>,
                <<FALSE, FALSE, {1, 2}, Same>>, <<FALSE, FALSE, {2}, Own>>,
                <<FALSE, FALSE, {}, Moved>>, <<FALSE, FALSE, {}, Shifted>>}}

MCWorld == HostWorlds \cup CoreWorlds \cup OddWorlds
=============================================================================
