------------------------------- MODULE RvsCore -------------------------------
(***************************************************************************)
(* The step table of the decode loop (compiler/runtime/sa/sa_rvsched.c):   *)
(* the steps of every bucket of attention lengths are recorded twice (the  *)
(* first pass tells how large the table is, the second one runs with the   *)
(* table allocated), the words that differ between buckets are collected   *)
(* and a third recording of some steps is compared with the second.        *)
(*                                                                         *)
(* A recording is the items of a step (lists or calls, with their words)   *)
(* and its inputs and results, which lie at addresses the allocator chose: *)
(* a frame.  The words of the step's list are the frame, the attention     *)
(* length, and, in a model whose lists depend on the position, the         *)
(* position; the words of the block maxima's are the frame.                *)
(***************************************************************************)
EXTENDS LlmStep, Integers, Sequences, FiniteSets, SequencesExt

CONSTANTS
    Pad,        \* positions per bucket
    Slack       \* further words the second pass may differ in (64)

ASSUME TableAssumption == Pad \in Nat \ {0} /\ Slack \in Nat

Recording(frame, length, pos, code, kinds) ==
    [items |-> [i \in 1 .. Len(kinds) |->
                   [kind |-> kinds[i], code |-> IF kinds[i] = "max" THEN code ELSE 0,
                    words |-> IF kinds[i] = "max" THEN <<frame>> ELSE <<frame, length, pos>>]],
     io |-> frame]

NoRecording == [items |-> <<>>, io |-> 0]
NoShape == <<>>
Shape(r) == [i \in 1 .. Len(r.items) |-> <<r.items[i].code, Len(r.items[i].words)>>]

\* sa_rvsched_create
Created(b0, nb, steps) ==
    [b0 |-> b0, nb |-> nb, max |-> steps, pass |-> 1, cap |-> 0, shape |-> NoShape,
     rec |-> [b \in b0 .. b0 + nb - 1 |-> NoRecording]]

Bucket(s) == s.b0 .. s.b0 + s.nb - 1

\* sa_rvsched_record_end: the recording kept, or in the third pass compared.  A step
\* always has items here and the command buffer has room for them (109 refuses else).
RecordStatus(s, b, r) ==
    CASE b \notin Bucket(s) -> "OUT_OF_RANGE"
      [] b \in Bucket(s) /\ s.pass = 3 /\ s.rec[b] # r -> "FAILED_PRECONDITION"
      [] OTHER -> "ok"
Recorded(s, b, r) ==
    IF b \in Bucket(s) /\ s.pass # 3 THEN [s EXCEPT !.rec[b] = r] ELSE s

\* sa_rvs_diff: the words that differ from the first bucket's in any bucket.
Alike(s) == \A b \in Bucket(s) : Shape(s.rec[b]) = Shape(s.rec[s.b0])
Words(r) == {x \in (1 .. Len(r.items)) \X (1 .. 3) : x[2] <= Len(r.items[x[1]].words)}
\* (mutant) only the last bucket is compared with the first
Diff_Last(s) ==
    SetToSeq({x \in Words(s.rec[s.b0]) :
        s.rec[s.b0 + s.nb - 1].items[x[1]].words[x[2]] # s.rec[s.b0].items[x[1]].words[x[2]]})
\* Each once.  The code lists them as it meets them; here in any order, since the
\* table's values follow the same one.
Diff(s) ==
    SetToSeq({x \in Words(s.rec[s.b0]) : \E b \in Bucket(s) :
        s.rec[b].items[x[1]].words[x[2]] # s.rec[s.b0].items[x[1]].words[x[2]]})

\* sa_rvsched_end_pass.  Memory does not run out, every bucket has the logits' shape
\* of the CONSTANTs, and the kernel is the one of that shape (278-285, 332 refuse else).
EndStatus(s) ==
    CASE ~Alike(s) -> "UNIMPLEMENTED"
      [] Alike(s) /\ s.pass = 2 /\ Shape(s.rec[s.b0]) # s.shape -> "FAILED_PRECONDITION"
      [] Alike(s) /\ s.pass = 2 /\ Shape(s.rec[s.b0]) = s.shape /\ Len(Diff(s)) > s.cap -> "RESOURCE_EXHAUSTED"
      [] OTHER -> "ok"

Ended(s) ==
    IF s.pass = 1
    THEN [s EXCEPT !.pass = 2, !.shape = Shape(s.rec[s.b0]),
                   !.cap = Len(Diff(s)) + Len(Diff(s)) \div 4 + Slack,
                   !.rec = [b \in Bucket(s) |-> NoRecording]]
    ELSE [s EXCEPT !.pass = 3]

\* The table the second pass leaves in device memory.
Table(s, r5) ==
    [items |-> s.rec[s.b0].items, words |-> Diff(s), b0 |-> s.b0, nb |-> s.nb, r5 |-> r5,
     buckets |-> [b \in Bucket(s) |-> s.rec[b].io],
     values |-> [b \in Bucket(s) |-> [n \in 1 .. Len(Diff(s)) |->
                    s.rec[b].items[Diff(s)[n][1]].words[Diff(s)[n][2]]]],
     pos |-> 0, steps |-> 0, token |-> 0, stop |-> -1,
     out |-> [n \in 1 .. s.max |-> 0], done |-> 0, status |-> "none"]
NoTable == [items |-> <<>>, done |-> 0, status |-> "none"]

-----------------------------------------------------------------------------
(***************************************************************************)
(* The decode loop on the RISC-V core (rvs_run of firmware/include/        *)
(* rvsched.h) over a table in device memory: inputs and patched words, the *)
(* items of a step, the argmax from the block maxima, the token reported   *)
(* and then counted.  The host may read the table between any two of these *)
(* (SaLlmRun.tla).                                                         *)
(***************************************************************************)
CONSTANTS
    MaxLen,     \* the longest attention: positions of the KV cache
    Blocks,     \* block maxima of the logits
    Frame,      \* places of a step's inputs and results
    NoToken     \* what an unwritten position of the KV cache holds

ASSUME CoreAssumption == Blocks \in Nat \ {0} /\ Vocab % Blocks = 0 /\ MaxLen \in Nat /\ MaxLen % Pad = 0

VARIABLES
    tab,    \* the table
    mem,    \* frame -> token, pos, valid mask, logits, block maxima
    kv,     \* the KV cache: position -> token
    core    \* the loop's variables

coreVars == <<tab, mem, kv, core>>

Position == 0 .. MaxLen - 1
Block == Vocab \div Blocks
Upto(n) == [i \in Position |-> IF i <= n THEN 1 ELSE 0]
Masked(old, len, n) == [i \in Position |-> IF i < len THEN Upto(n)[i] ELSE old[i]]

\* What a step with a given token cache may look at.
Attended(cache, valid, len) == [i \in {j \in Position : j < len /\ valid[j] = 1} |-> cache[i]]

CoreOff == [pc |-> "off", s |-> 0, pos |-> 0, token |-> 0, cur |-> -1, item |-> 1]
NoFrame == [token |-> 0, pos |-> 0, valid |-> [i \in Position |-> 0],
            logits |-> [v \in Id |-> 0], bmax |-> [b \in 0 .. Blocks - 1 |-> 0]]

CoreInit ==
    /\ tab = NoTable /\ core = CoreOff
    /\ mem = [f \in Frame |-> NoFrame]
    /\ kv = [i \in Position |-> NoToken]

Finish(status) ==
    /\ tab' = [tab EXCEPT !.status = status]
    /\ core' = [core EXCEPT !.pc = "off"]

\* The words of the table's lists and the mask, at a change of the bucket.
Patched(b) ==
    [i \in 1 .. Len(tab.items) |->
        [tab.items[i] EXCEPT !.words = [k \in 1 .. Len(@) |->
            IF \E n \in 1 .. Len(tab.words) : tab.words[n] = <<i, k>>
            THEN tab.values[b][CHOOSE n \in 1 .. Len(tab.words) : tab.words[n] = <<i, k>>]
            ELSE @[k]]]]

\* (mutant) a new bucket's mask is taken to be that of the bucket before
NewMask_Kept(old, b) == [old EXCEPT ![core.pos] = 1]
NewMask(old, b) == IF b # core.cur THEN Masked(old, (b + 1) * Pad, core.pos)
                   ELSE [old EXCEPT ![core.pos] = 1]

CoreStep ==
    LET b == core.pos \div Pad
        f == tab.buckets[b]
    IN  /\ core.pc = "step"
        /\ IF core.s = tab.steps THEN Finish("ok") /\ UNCHANGED mem
           ELSE IF b \notin tab.b0 .. tab.b0 + tab.nb - 1 THEN Finish("RANGE") /\ UNCHANGED mem
           ELSE /\ tab' = IF b # core.cur THEN [tab EXCEPT !.items = Patched(b)] ELSE tab
                /\ mem' = [mem EXCEPT ![f].valid = NewMask(@, b),
                                      ![f].token = core.token, ![f].pos = core.pos]
                /\ core' = [core EXCEPT !.cur = b, !.item = 1, !.pc = "items"]
        /\ UNCHANGED kv

\* An item: the model's step (its addresses are the words of its list), or the
\* block maxima of its logits.  A position among the words is where it writes.
RunStep(model, f, len, at) ==
    LET pos == IF at = 0 THEN mem[f].pos ELSE at - 1
        cache == [kv EXCEPT ![pos] = mem[f].token]
    IN  /\ kv' = cache
        /\ mem' = [mem EXCEPT ![f].logits = Logits(model, Attended(cache, mem[f].valid, len))]
RunMax(f) ==
    /\ mem' = [mem EXCEPT ![f].bmax = [j \in 0 .. Blocks - 1 |->
                  Max({mem[f].logits[v] : v \in j * Block .. (j + 1) * Block - 1})]]
    /\ UNCHANGED kv

CoreItem(model, fails) ==
    /\ core.pc = "items" /\ core.item <= Len(tab.items)
    /\ LET item == tab.items[core.item]
       IN  \/ /\ IF item.kind = "max" THEN RunMax(item.words[1])
                 ELSE RunStep(model, item.words[1], item.words[2], item.words[3])
              /\ core' = [core EXCEPT !.item = @ + 1]
              /\ UNCHANGED tab
           \/ fails /\ Finish("ITEM") /\ UNCHANGED <<mem, kv>>

\* The block with the largest maximum: by the order of the bits, or by the
\* kernel compiled for the core, which compares floats.
BestBlock(bmax) ==
    LET Order(x) == IF tab.r5 THEN Value(x) ELSE x
    IN  Min({j \in 0 .. Blocks - 1 :
                \A k \in 0 .. Blocks - 1 : Order(bmax[k]) <= Order(bmax[j])})
\* The first position in it with that value (0: none).
InBlock(logits, j, m) ==
    LET found == {i \in 0 .. Block - 1 : Value(logits[j * Block + i]) = Value(m)}
    IN  IF found = {} THEN 0 ELSE Min(found)

CoreArgmax(fails) ==
    /\ core.pc = "items" /\ core.item > Len(tab.items)
    /\ LET f == tab.buckets[core.cur]
           j == BestBlock(mem[f].bmax)
       IN  \/ /\ core' = [core EXCEPT !.pc = "out",
                                      !.token = j * Block + InBlock(mem[f].logits, j, mem[f].bmax[j])]
              /\ UNCHANGED tab
           \/ fails /\ tab.r5 /\ Finish("ARGMAX")
    /\ UNCHANGED <<mem, kv>>

\* The step's record, then the count of the steps, then the next step.
CoreOut ==
    /\ core.pc = "out"
    /\ tab' = [tab EXCEPT !.out[core.s + 1] = core.token]
    /\ core' = [core EXCEPT !.pc = "done"]
    /\ UNCHANGED <<mem, kv>>

\* (mutant) the stop token is looked for in the token fed to the step
Stops_Fed == mem[tab.buckets[core.cur]].token = tab.stop
Stops == core.token = tab.stop

CoreDone ==
    /\ core.pc = "done"
    /\ tab' = [tab EXCEPT !.done = core.s + 1, !.status = IF Stops THEN "ok" ELSE @]
    /\ core' = IF Stops THEN [core EXCEPT !.pc = "off"]
               ELSE [core EXCEPT !.pc = "step", !.s = @ + 1, !.pos = @ + 1]
    /\ UNCHANGED <<mem, kv>>

CoreNext(model, fails) ==
    CoreStep \/ CoreItem(model, fails) \/ CoreArgmax(fails) \/ CoreOut \/ CoreDone
=============================================================================
