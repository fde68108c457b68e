----------------------------- MODULE SaLlmRun -----------------------------
(***************************************************************************)
(* sa-llm-run (compiler/runtime/tools/sa_llm_run.c): a prompt through the  *)
(* model in chunks or position by position, then greedy generation by the  *)
(* host, or with --rvsched by the RISC-V core, whose table the host        *)
(* records first.  World: what is asked, where the allocator puts the      *)
(* recordings and what may fail.                                           *)
(***************************************************************************)
EXTENDS RvsCore

CONSTANTS World

\* What is asked: a prompt that fits the KV cache; --rvsched needs --pad (dyn).
IsWorld(x) ==
    /\ x.toks \in Seq(Id) /\ Len(x.toks) \in 1 .. MaxLen
    /\ x.generate \in Nat /\ x.prefill \in Nat /\ x.stop \in Int /\ x.code \in Nat
    /\ \A b \in {x.all, x.dyn, x.rvsched, x.r5, x.posdep, x.hostop, x.fails, x.slow} : b \in BOOLEAN
    /\ x.rvsched => x.dyn
    /\ x.frames \in [1 .. 3 -> [0 .. MaxLen \div Pad - 1 -> Frame]]

ASSUME WorldAssumption ==
    /\ \A x \in World : IsWorld(x)
    /\ \A m \in {x.model : x \in World} : \A n \in 1 .. MaxLen :
            \A seen \in [0 .. n - 1 -> Id] : Logits(m, seen) \in [Id -> Int]

VARIABLES
    w,      \* the world
    h,      \* run()'s variables
    valid,  \* its mask
    sched,  \* the schedule being recorded
    out,    \* the tokens printed
    rows    \* the rows written to --prefill_all_out

vars == <<w, h, valid, sched, out, rows, coreVars>>

ntok == Len(w.toks)
Most(a, b) == IF a < b THEN a ELSE b
Longer(a, b) == IF a > b THEN a ELSE b
\* Where the host's loop ends: after every step, or with --rvsched after the
\* prompt's.
HostEnd(steps) == IF w.rvsched THEN Most(steps, ntok) ELSE steps
\* The attention's length at a position.
Length(pos) == IF w.dyn THEN (pos \div Pad + 1) * Pad ELSE MaxLen

LlmInit ==
    /\ w \in World
    /\ h = [pc |-> IF w.prefill > 0 /\ Len(w.toks) >= w.prefill THEN "prefill" ELSE "decode",
            status |-> "ok", pos |-> 0, pos0 |-> 0, token |-> w.toks[1],
            steps |-> Most(Len(w.toks) + w.generate, MaxLen),
            host_end |-> HostEnd(Most(Len(w.toks) + w.generate, MaxLen)), s0 |-> 0, written |-> 0, pass |-> 0, bucket |-> 0, done |-> 0]
    /\ valid = [i \in Position |-> 0]
    /\ sched = Created(0, 1, 1) /\ out = <<>> /\ rows = <<>>
    /\ CoreInit

Failed(status) == h' = [h EXCEPT !.status = status, !.pc = "end"]

-----------------------------------------------------------------------------
(* The prompt in chunks of M, the last one at P - M.                       *)

Row(cache, mask, pos, len) ==
    LET a == Attended(cache, mask, len)
    IN  Logits(w.model, [i \in {j \in DOMAIN a : j <= pos} |-> a[i]])

\* (mutant) the rows of the last chunk start at its own first position
NewRows_All(s) == 0 .. w.prefill - 1
NewRows(s) == h.written - s .. w.prefill - 1

Prefill ==
    LET M == w.prefill
        s == IF h.s0 + M >= ntok THEN ntok - M ELSE h.s0
        last == s + M >= ntok
        mask == [i \in Position |-> IF i <= s + M - 1 THEN 1 ELSE valid[i]]
        cache == [i \in Position |-> IF i \in s .. s + M - 1 THEN w.toks[i + 1] ELSE kv[i]]
        row(i) == Row(cache, mask, s + i, Length(s + M - 1))
        best == Argmax(row(M - 1))
        steps == IF best = w.stop THEN ntok ELSE h.steps
    IN  /\ h.pc = "prefill"
        /\ valid' = mask
        /\ \/ /\ kv' = cache
              /\ rows' = IF w.all THEN rows \o [i \in 1 .. Cardinality(NewRows(s)) |-> row(Min(NewRows(s)) + i - 1)]
                         ELSE rows
              /\ IF last
                 THEN /\ out' = w.toks
                      /\ h' = [h EXCEPT !.written = s + M, !.token = best, !.pos0 = ntok, !.pos = ntok,
                                        !.steps = steps, !.host_end = HostEnd(steps), !.pc = "decode"]
                 ELSE /\ h' = [h EXCEPT !.written = s + M, !.s0 = @ + M]
                      /\ UNCHANGED out
           \/ w.fails /\ Failed("CALL") /\ UNCHANGED <<kv, rows, out>>
        /\ UNCHANGED <<w, sched, tab, mem, core>>

-----------------------------------------------------------------------------
(* The host's loop.  Its end was fixed before the first step: a stop token *)
(* shortens steps, which is what the core is asked for, and not the loop.  *)

Decode ==
    LET token == IF h.pos < ntok THEN w.toks[h.pos + 1] ELSE h.token
        mask == [valid EXCEPT ![h.pos] = 1]
        cache == [kv EXCEPT ![h.pos] = token]
        best == Argmax(Logits(w.model, Attended(cache, mask, Length(h.pos))))
    IN  /\ h.pc = "decode" /\ h.pos < h.host_end
        /\ valid' = mask
        /\ \/ /\ kv' = cache
              /\ out' = Append(out, token)
              /\ h' = [h EXCEPT !.pos = @ + 1, !.token = best,
                                !.steps = IF h.pos + 1 >= ntok /\ best = w.stop THEN h.pos + 1 ELSE @]
           \/ w.fails /\ Failed("CALL") /\ UNCHANGED <<kv, out>>
        /\ UNCHANGED <<w, sched, rows, tab, mem, core>>

start == Longer(h.pos0, h.host_end)

Decoded ==
    /\ h.pc = "decode" /\ h.pos >= h.host_end
    /\ IF w.rvsched /\ h.steps > start
       THEN LET b0 == start \div Pad
                b1 == (h.steps - 1) \div Pad
            IN  /\ sched' = Created(b0, b1 - b0 + 1, h.steps - start)
                /\ h' = [h EXCEPT !.pc = "record", !.pass = 1, !.bucket = b0, !.pos = start]
       ELSE h' = [h EXCEPT !.pc = "end"] /\ UNCHANGED sched
    /\ UNCHANGED <<w, valid, out, rows, coreVars>>

-----------------------------------------------------------------------------
(* The recordings: rvs_record, at a position of a bucket.  The step does   *)
(* not run, but its inputs are written to where they lie.                  *)

RecordOf(b, pos) ==
    Recording(w.frames[h.pass][b], Length(pos), IF w.posdep THEN pos + 1 ELSE 0, w.code,
              IF b \in w.longer THEN <<"step", "step", "max">> ELSE <<"step", "max">>)

rvs_record(b, pos) ==
    LET f == w.frames[h.pass][b]
    IN  /\ valid' = Masked(valid, Length(pos), pos)
        /\ mem' = [mem EXCEPT ![f].token = 0, ![f].pos = pos, ![f].valid = Masked(@, Length(pos), pos)]
        /\ sched' = Recorded(sched, b, RecordOf(b, pos))

RecordError(b, pos) ==
    IF w.hostop THEN "UNIMPLEMENTED" ELSE RecordStatus(sched, b, RecordOf(b, pos))

LastBucket == sched.b0 + sched.nb - 1

Record ==
    LET pos == IF h.bucket = sched.b0 THEN start ELSE h.bucket * Pad
    IN  /\ h.pc = "record"
        /\ rvs_record(h.bucket, pos)
        /\ IF RecordError(h.bucket, pos) # "ok" THEN Failed(RecordError(h.bucket, pos))
           ELSE h' = [h EXCEPT !.bucket = @ + 1, !.pc = IF h.bucket = LastBucket THEN "pass" ELSE @]
        /\ UNCHANGED <<w, out, rows, tab, kv, core>>

\* sa_rvsched_end_pass
EndPass ==
    /\ h.pc = "pass"
    /\ IF EndStatus(sched) # "ok" THEN Failed(EndStatus(sched)) /\ UNCHANGED <<sched, tab>>
       ELSE /\ sched' = Ended(sched)
            /\ h' = [h EXCEPT !.pass = @ + 1, !.bucket = sched.b0, !.pc = IF h.pass = 1 THEN "record" ELSE "first"]
            /\ tab' = IF h.pass = 1 THEN tab ELSE Table(sched, w.r5)
    /\ UNCHANGED <<w, valid, out, rows, mem, kv, core>>

\* Another position of the first and of the last bucket, compared.
Check(pc, next, b, pos, wanted) ==
    /\ h.pc = pc
    /\ IF wanted
       THEN /\ rvs_record(b, pos)
            /\ IF RecordError(b, pos) # "ok" THEN Failed(RecordError(b, pos)) ELSE h' = [h EXCEPT !.pc = next]
       ELSE h' = [h EXCEPT !.pc = next] /\ UNCHANGED <<valid, mem, sched>>
    /\ UNCHANGED <<w, out, rows, tab, kv, core>>
CheckFirst ==
    Check("first", "last", sched.b0, start + 1,
          (start + 1) \div Pad = sched.b0 /\ start + 1 < h.steps)
CheckLast == Check("last", "run", LastBucket, (LastBucket + 1) * Pad - 1, sched.nb > 1)

-----------------------------------------------------------------------------
(* The run: sa_rvsched_run's request, its wait and its reading.            *)

Run ==
    /\ h.pc = "run"
    /\ tab' = [tab EXCEPT !.pos = start, !.steps = h.steps - start, !.token = h.token, !.stop = w.stop,
                          !.done = 0, !.status = "none"]
    /\ core' = [CoreOff EXCEPT !.pc = "step", !.pos = start, !.token = h.token]
    /\ h' = [h EXCEPT !.pc = "wait"]
    /\ UNCHANGED <<w, valid, sched, out, rows, mem, kv>>

Core ==
    /\ h.pc # "end" /\ CoreNext(w.model, w.fails)
    /\ UNCHANGED <<w, h, valid, sched, out, rows>>

\* The core is done, or the transport gives up; the count of steps is read.
Wait ==
    /\ h.pc = "wait"
    /\ \/ /\ core.pc = "off"
          /\ h' = [h EXCEPT !.pc = "read", !.done = tab.done,
                            !.status = IF tab.status = "ok" THEN "ok" ELSE "INTERNAL"]
       \/ w.slow /\ core.pc # "off"
          /\ h' = [h EXCEPT !.pc = "read", !.done = tab.done, !.status = "DEADLINE"]
    /\ UNCHANGED <<w, valid, sched, out, rows, coreVars>>

\* The tokens: the one fed to each step is printed.
Read ==
    /\ h.pc = "read"
    /\ out' = out \o [i \in 1 .. h.done |-> IF i = 1 THEN h.token ELSE tab.out[i - 1]]
    /\ h' = [h EXCEPT !.pc = "end", !.token = IF h.done > 0 THEN tab.out[h.done] ELSE @,
                      !.steps = IF h.done > 0 THEN start + h.done ELSE @]
    /\ UNCHANGED <<w, valid, sched, rows, coreVars>>

\* (mutant) the last token is printed whatever happened
Says_Always == w.generate > 0
Says == h.status = "ok" /\ w.generate > 0

End ==
    /\ h.pc = "end"
    /\ out' = IF Says THEN Append(out, h.token) ELSE out
    /\ h' = [h EXCEPT !.pc = "exit"]
    /\ UNCHANGED <<w, valid, sched, rows, coreVars>>

LlmNext ==
    \/ Prefill \/ Decode \/ Decoded \/ Record \/ EndPass \/ CheckFirst \/ CheckLast
    \/ Run \/ Core \/ Wait \/ Read \/ End

Spec == LlmInit /\ [][LlmNext]_vars
-----------------------------------------------------------------------------
(***************************************************************************)
(* Properties.                                                             *)
(***************************************************************************)

\* Chunks that overlap, attention lengths, buckets patched by the core, masks,
\* block maxima, stop tokens, items that fail and a host that gives up while the
\* core goes on do not show: what is printed is always a greedy continuation.
G == INSTANCE LlmGreedy WITH job <- [model |-> w.model, toks |-> w.toks]
Greedy == G!Spec

\* A run that ends without an error printed everything: all the tokens that fit
\* (the prompt, what --generate asks for and the choice after the last step).
\* With --rvsched it ends early exactly at the first stop token that is generated,
\* whether the prompt's last step, its last chunk or the core chose it.  Without,
\* only at one that the prefill chose: past any other the host goes on, although
\* --stop_token is documented as "Stop generating after this token" (line 36).
Complete ==
    h.pc = "exit" /\ h.status = "ok" =>
        LET full == Most(ntok + w.generate, MaxLen) + IF w.generate > 0 THEN 1 ELSE 0
            said == SubSeq(out, Most(ntok, Len(out)) + 1, Len(out))
        IN  IF w.rvsched
            THEN \/ Len(out) = full /\ \A k \in 1 .. Len(said) - 1 : said[k] # w.stop
                 \/ /\ ntok < Len(out) /\ Len(out) < full
                    /\ \A k \in 1 .. Len(said) : (said[k] = w.stop) <=> (k = Len(said))
            ELSE Len(out) = IF h.pos0 > 0 /\ Len(said) > 0 /\ said[1] = w.stop THEN ntok + 1 ELSE full

\* --prefill_all_out holds the logits of every position of the prompt once, in
\* order, although the last chunk overlaps the one before it.
RowsOnce ==
    /\ Len(rows) <= ntok
    /\ \A i \in 1 .. Len(rows) : rows[i] = G!After(w.model, SubSeq(w.toks, 1, i))
    /\ h.pc = "exit" /\ h.status = "ok" /\ w.all /\ h.pos0 > 0 => Len(rows) = ntok
=============================================================================
