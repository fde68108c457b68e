--------------------------------- MODULE SaHal ---------------------------------
(***************************************************************************)
(* The path of a command buffer through the HAL driver of                  *)
(* compiler/runtime/sa: queue_execute (sa_device.c) replays its commands   *)
(* into an sa command buffer (sa_command_buffer.c), which records the      *)
(* dispatches of sa-desc executables in the batch of the context           *)
(* (SaBatch), calls generated RISC-V code (sa_rv.c) and runs the rest on   *)
(* the host; whatever does not join the batch flushes it first.  While a   *)
(* step is recorded for the decode schedule (context->record) nothing runs *)
(* on the device: the lists and calls are copied.                          *)
(*                                                                         *)
(* Everything a client issued and the driver accepted has a number, in the *)
(* order of the calls; seen is what became of it.                          *)
(*                                                                         *)
(* The context also owns the arena (SaArena) of the device's buffers.      *)
(***************************************************************************)
EXTENDS SaBatch, SaArena

CONSTANTS
    Export,     \* exports of loaded executables (sa_export_t)
    World       \* environments and clients: how SA_NO_BATCH, SA_RV... are set, ...

(***************************************************************************)
(* d: its list form.  rv_only: RISC-V code only, the list form is a RET.   *)
(* embedded: the executable holds its code.  mapped: the SA_RV directory   *)
(* has its code.  named: SA_RV_ONLY, if set, names it.  A world: immediate *)
(* (SA_NO_BATCH), board (the transport is the board), rv (SA_RV), only     *)
(* (SA_RV_ONLY), fails (what may go wrong), and the client: its exports,   *)
(* whether it has commands for the host, records a step, allocates, and at *)
(* most how many commands a command buffer has, how many of all take       *)
(* effect, how many command buffers there are.                             *)
(***************************************************************************)
ASSUME HalAssumption ==
    /\ \A x \in Export : /\ x.d \in Dispatch
                         /\ {x.rv_only, x.embedded, x.mapped, x.named} \subseteq BOOLEAN
    /\ \A w \in World : /\ {w.immediate, w.board, w.host, w.records, w.allocates} \subseteq BOOLEAN
                        /\ w.exports \subseteq Export /\ {w.cmds, w.issues, w.cbs} \subseteq Nat
                        /\ w.rv \in {"none", "dir", "embedded"}
                        /\ w.only \in {"none", "rv_only", "names"}
                        /\ w.fails \subseteq {"list", "call", "host", "load", "memory"}

VARIABLES
    world,      \* the environment (constant)
    cb,         \* the command buffer: state, the command under way, counts
    rv,         \* sa_rv.state and the exports' rv_state
    rec,        \* the recorder
    ids,        \* the numbers of the entries of the batch
    seen        \* ghost: <<number, fate>> in the order things happened

halVars == <<world, cb, rv, rec, ids, seen>>

NoCmdYet == [op |-> "none"]
Issued == Len(seen) + Len(ids)

-----------------------------------------------------------------------------
(* Generated code (sa_rv.c) *)

\* sa_rv_load: sa_rv.state afterwards, and whether it failed.  The state is
\* set before anything can fail: a second call finds "no code".
RvLoad(w, fail) ==
    CASE w.rv = "none" -> [state |-> 1, ok |-> TRUE]
      [] w.rv = "embedded" -> IF w.board /\ ~fail THEN [state |-> 3, ok |-> TRUE]
                                                  ELSE [state |-> 1, ok |-> FALSE]
      [] w.rv = "dir" -> IF fail THEN [state |-> 1, ok |-> FALSE]
                                 ELSE [state |-> 2, ok |-> TRUE]

\* sa_rv_lookup: does export x run as RISC-V code?
RvLookup(w, state, x) ==
    IF x.rv_only
    THEN \/ x.embedded /\ w.board
         \/ state = 2 /\ x.mapped
    ELSE /\ state \in {2, 3}
         /\ w.only = "none" \/ (w.only = "names" /\ x.named)
         /\ IF state = 3 THEN x.embedded ELSE x.mapped

-----------------------------------------------------------------------------
(* The recorder (sa_record_add): an item, or one more not recorded *)

NoRecord == [on |-> FALSE, items |-> <<>>, dropped |-> 0, from |-> 0, verdict |-> "none"]

\* (mutant) an item there is no memory for is forgotten
RecordAdd_Silent(r, item, mem) ==
    IF ~r.on THEN r ELSE IF mem THEN [r EXCEPT !.items = Append(@, item)] ELSE r

RecordAdd(r, item, mem) ==
    IF ~r.on THEN r
    ELSE IF mem THEN [r EXCEPT !.items = Append(@, item)] ELSE [r EXCEPT !.dropped = @ + 1]

Memory == IF "memory" \in world.fails THEN BOOLEAN ELSE {TRUE}

\* How the device answers a list or a call: not at all while recording.
Answers(kind) == IF kind \in world.fails /\ ~rec.on THEN {"ran", "failed"}
                 ELSE {IF rec.on THEN "recorded" ELSE "ran"}

-----------------------------------------------------------------------------
(* The calls *)

Fates(S, fate) == [i \in DOMAIN S |-> <<S[i], fate>>]

HalInit ==
    /\ BatchInit /\ ArenaInit
    /\ world \in World
    /\ cb = [state |-> "none", cmd |-> NoCmdYet, n |-> 0, count |-> 0, first |-> 1]
    /\ rv = [state |-> 0, of |-> [x \in Export |-> 0]]
    /\ rec = NoRecord
    /\ ids = <<>> /\ seen = <<>>

\* Commands that flush the batch before they do anything.  An export looked
\* up and found to have RISC-V code is called; else its list joins the batch,
\* which a full one flushes first.
\* (mutant) a fill, update or copy overtakes the batch
Flushes_NotHost(c) ==
    \/ c.op \in {"begin", "end"}
    \/ c.op = "dispatch" /\ (rv.of[c.x] = 2 \/ (~world.immediate /\ Full(c.x.d)))

Flushes(c) ==
    \/ c.op \in {"begin", "end", "host"}
    \/ c.op = "dispatch" /\ (rv.of[c.x] = 2 \/ (~world.immediate /\ Full(c.x.d)))

\* A command fails: queue_execute returns, and leaves the batch as it is.
Fail == cb' = [cb EXCEPT !.state = "failed", !.cmd = NoCmdYet]

\* A command is over.
Over == cb' = [cb EXCEPT !.state = IF cb.cmd.op = "end" THEN "done" ELSE "apply",
                         !.cmd = NoCmdYet]

\* queue_execute: a command buffer, starting with begin
Execute ==
    /\ cb.state \in {"none", "done", "failed"} /\ cb.count < world.cbs
    /\ ~(rec.on /\ cb.state = "failed")
    /\ cb' = [state |-> "apply", cmd |-> [op |-> "begin"], n |-> 0,
              count |-> cb.count + 1, first |-> Issued + 1]
    /\ UNCHANGED <<vars, world, rv, rec, ids, seen>>

\* The next command of the command buffer
Command(c) ==
    /\ cb.state = "apply" /\ cb.cmd = NoCmdYet
    /\ IF c.op = "end" THEN TRUE ELSE cb.n < world.cmds
    /\ c.op \in {"dispatch", "host"} => Issued < world.issues
    /\ cb' = [cb EXCEPT !.cmd = c, !.n = @ + 1]
    /\ UNCHANGED <<vars, world, rv, rec, ids, seen>>

\* sa_executable_append: the first dispatch of an export looks its code up;
\* an export with RISC-V code only and none found is refused.
LookUp(fail) ==
    /\ cb.cmd.op = "dispatch" /\ list = <<>>
    /\ rv.of[cb.cmd.x] = 0
    /\ fail => "load" \in world.fails
    /\ LET load == IF rv.state = 0 THEN RvLoad(world, fail)
                                   ELSE [state |-> rv.state, ok |-> TRUE]
           x == cb.cmd.x
       IN  IF load.ok
           THEN /\ rv' = [state |-> load.state,
                          of |-> [rv.of EXCEPT ![x] = IF RvLookup(world, load.state, x)
                                                      THEN 2 ELSE 1]]
                /\ UNCHANGED cb
           ELSE rv' = [rv EXCEPT !.state = load.state] /\ Fail
    /\ UNCHANGED <<vars, world, rec, ids, seen>>

Looked == cb.cmd.op = "dispatch" => rv.of[cb.cmd.x] # 0

Refused == cb.cmd.op = "dispatch" /\ cb.cmd.x.rv_only /\ rv.of[cb.cmd.x] # 2

Refuse ==
    /\ cb.state = "apply" /\ Looked /\ Refused
    /\ Fail
    /\ UNCHANGED <<vars, world, rv, rec, ids, seen>>

\* A command that needs the batch flushed: its list is built and recorded.
FlushList(mem) ==
    /\ cb.cmd.op # "none" /\ Looked /\ ~Refused /\ Flushes(cb.cmd)
    /\ Submit
    /\ rec' = RecordAdd(rec, [kind |-> "list", of |-> ids], mem)
    /\ UNCHANGED <<world, cb, rv, ids, seen>>

\* The transport returned (recording: it was not asked).  The entries are
\* gone whatever the answer; the command goes on only if the list succeeded.
FlushDone(answer) ==
    /\ Return
    /\ seen' = seen \o Fates(ids, answer)
    /\ ids' = <<>>
    /\ IF answer = "failed" THEN Fail ELSE UNCHANGED cb
    /\ UNCHANGED <<world, rv, rec>>

Ready(op) == /\ cb.cmd.op = op /\ list = <<>> /\ Looked /\ ~Refused
             /\ Flushes(cb.cmd) => entries = <<>>
Flushed == IF Flushes(cb.cmd) THEN FlushEmpty ELSE UNCHANGED vars

\* begin and end do nothing but the flush.
Bracket ==
    /\ Ready("begin") \/ Ready("end")
    /\ Flushed /\ Over
    /\ UNCHANGED <<world, rv, rec, ids, seen>>

\* execution_barrier, wait_events
BarrierCmd ==
    /\ Ready("barrier")
    /\ Barrier /\ Over
    /\ UNCHANGED <<world, rv, rec, ids, seen>>

\* fill, update, copy, and the dispatch of another format's executable: the
\* host does it, also while a step is recorded.
HostCmd(ok) ==
    /\ Ready("host") /\ (~ok => "host" \in world.fails)
    /\ Flushed
    /\ seen' = Append(seen, <<Issued + 1, IF ok THEN "host" ELSE "failed">>)
    /\ IF ok THEN Over ELSE Fail
    /\ UNCHANGED <<world, rv, rec, ids>>

\* sa_rv_call
Call(answer, mem) ==
    /\ Ready("dispatch") /\ rv.of[cb.cmd.x] = 2
    /\ Flushed
    /\ rec' = RecordAdd(rec, [kind |-> "call", of |-> <<Issued + 1>>], mem)
    /\ seen' = Append(seen, <<Issued + 1, answer>>)
    /\ IF answer = "failed" THEN Fail ELSE Over
    /\ UNCHANGED <<world, rv, ids>>

\* sa_context_dispatch: a list of its own
RunNow(answer, mem) ==
    /\ Ready("dispatch") /\ rv.of[cb.cmd.x] = 1 /\ world.immediate
    /\ rec' = RecordAdd(rec, [kind |-> "list", of |-> <<Issued + 1>>], mem)
    /\ seen' = Append(seen, <<Issued + 1, answer>>)
    /\ IF answer = "failed" THEN Fail ELSE Over
    /\ UNCHANGED <<vars, world, rv, ids>>

\* sa_context_batch_add
AddCmd ==
    /\ Ready("dispatch") /\ rv.of[cb.cmd.x] = 1 /\ ~world.immediate
    /\ Add(cb.cmd.x.d)
    /\ ids' = Append(ids, Issued + 1)
    /\ Over
    /\ UNCHANGED <<world, rv, rec, seen>>

-----------------------------------------------------------------------------
(* The recording of a step (sa_rvsched_record_begin, _end; the client,     *)
(* sa_llm_run, records only after everything succeeded, and compares the   *)
(* counts of what the host did)                                            *)

Between == cb.state \in {"none", "done"}

RecordBegin ==
    /\ world.records /\ Between /\ rec = NoRecord
    /\ rec' = [NoRecord EXCEPT !.on = TRUE, !.from = Issued + 1]
    /\ UNCHANGED <<vars, world, cb, rv, ids, seen>>

SinceRecord == {i \in DOMAIN seen : seen[i][1] >= rec.from}

HostDid == \E i \in SinceRecord : seen[i][2] = "host"

RecordEnd ==
    /\ rec.on /\ cb.state \in {"done", "failed"}
    /\ rec' = [rec EXCEPT !.on = FALSE,
                          !.verdict = IF \/ cb.state = "failed"
                                         \/ HostDid
                                         \/ rec.dropped > 0 \/ rec.items = <<>>
                                      THEN "refused" ELSE "kept"]
    /\ UNCHANGED <<vars, world, cb, rv, ids, seen>>

\* The commands a client may record in this world
Commands == {[op |-> "end"], [op |-> "barrier"]}
              \cup {[op |-> "dispatch", x |-> x] : x \in world.exports}
              \cup (IF world.host THEN {[op |-> "host"]} ELSE {})

DispatchNext ==
    \/ Execute \/ Refuse \/ Bracket \/ BarrierCmd \/ AddCmd \/ RecordBegin \/ RecordEnd
    \/ \E c \in Commands : Command(c)
    \/ \E fail \in BOOLEAN : LookUp(fail)
    \/ \E ok \in BOOLEAN : HostCmd(ok)
    \/ \E a \in Answers("list") : FlushDone(a)
    \/ \E mem \in Memory :
          \/ FlushList(mem)
          \/ \E a \in Answers("call") : Call(a, mem)
          \/ \E a \in Answers("list") : RunNow(a, mem)

HalNext ==
    \/ DispatchNext /\ UNCHANGED arenaVars
    \/ world.allocates /\ ArenaNext /\ UNCHANGED <<vars, halVars>>

HalSpec == HalInit /\ [][HalNext]_<<vars, halVars, arenaVars>>

-----------------------------------------------------------------------------
(***************************************************************************)
(* Commands take effect once, in the order of the program, whether they    *)
(* were batched, called or done by the host, across full batches, failed   *)
(* lists and command buffers that failed; and when queue_execute returns   *)
(* OK all of its command buffer has, and succeeded.                        *)
(***************************************************************************)
ProgramOrder ==
    /\ [i \in DOMAIN seen |-> seen[i][1]] \o ids = [i \in 1 .. Issued |-> i]
    /\ cb.state = "done" =>
          /\ ids = <<>>
          /\ \A i \in DOMAIN seen : seen[i][1] >= cb.first => seen[i][2] # "failed"

\* The numbers an item sequence stands for
Flat(items) ==
    LET flat[k \in 0 .. Len(items)] ==
          IF k = 0 THEN <<>> ELSE flat[k - 1] \o items[k].of
    IN  flat[Len(items)]

(***************************************************************************)
(* A recording that is kept is the step: its items are everything the step *)
(* did, in order, and none of it ran while it was recorded (sa_context.h:  *)
(* "they are not run").                                                    *)
(***************************************************************************)
RecordExact ==
    rec.verdict = "kept" =>
        LET n == Len(Flat(rec.items))
        IN  /\ Flat(rec.items) = [i \in 1 .. n |-> rec.from + i - 1]
            /\ \A i \in DOMAIN seen :
                  seen[i][1] >= rec.from => (seen[i][2] = "recorded" <=> seen[i][1] < rec.from + n)
=============================================================================
