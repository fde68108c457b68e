# A verification project for the Torch-to-RISC-V accelerator

TLA+ models of the accelerator's control logic, of its firmware and host
runtime, and of the compiler that writes its command lists; the TLC
configurations that check them on small instances; and theorems that the TLA+
proof system checks. Everything is read off the source; line numbers below and
in `PROJECT.json` refer to it.

    tlc -workers 2 -config SaSched.cfg MCSaSchedOrder.tla        # a run
    tlc -workers 2 -config SahwBackend.cfg MCCompiler.tla        # another
    tlapm SaSchedProofs.tla                                      # proofs; also of
    # SaUnitProofs SaFetchProofs SaDmaProofs RtDeviceProofs
    # RtBoardProofs SaHalProofs SaLlmProofs

`PROJECT.json` lists the runs, the mutants that show each property can fail,
the map from definitions to source lines, the hazards and the findings.

## 1. The system

A PyTorch model is compiled (IREE with the plugin in `compiler/plugins/sa`) to
command lists and RISC-V code. On the board a Linux host (`compiler/runtime/sa`)
hands work to a PicoRV32 core that runs a resident firmware (`firmware/rt`). The
core drives the matrix unit (`rtl/sysarray`) by custom instructions. The unit
reads operands from DDR into local banks, computes, and writes results back.

    linalg --> sahl (buffers, micro-kernels) --> sahw (commands) --> lists, RISC-V code
                                                                        |
    sa-llm-run --> HAL driver --> batches ----------------------------> DDR
                                     |                                   |
    host runtime --ring in DDR--> firmware --custom insns--> sa_pcpi --+ |
                                     |                                 v |
                                     +--CSR / mat_trigger--> sa_legacy | |
    descriptor lists in DDR ------------> sa_cmdfetch ------> arbiter -+ |
                                                                 |       |
                                                              sa_sched   |
                                                    +-------+----+---+-------+
                                                  sa_ld   sa_st    sa_ex   sa_ve
                                                    +---- SPAD / ACC banks --+

### Components

| Component | State | Operations and interactions | What is hard | What makes it correct |
|---|---|---|---|---|
| `sa_sched` | input FIFO, stages d1 and d2, four engine queues, four mask queues, sticky error | accepts a packet, checks it, dispatches or rejects; engines pop and report done; fence; clear_error | four engines and six queues move in one cycle; errors and a flush at any time | conflicting accesses never overlap, in-order effect, fences, no deadlock |
| `sa_cmdfetch` | BASE / PARAM registers, read channel, FIFO, words of one descriptor, decoder state, loop and call stacks, LDPARAM, counters | mat_submit, mat_cfg, mat_reset; reads DDR; offers packets to the scheduler | prefetch runs ahead of control flow; dynamic fields; errors and reset in any state | a list behaves as a sequential program |
| `sa_pcpi` | instruction state, configuration registers | decodes custom instructions, waits for results | waits on three other blocks; one instruction outstanding | each instruction completes once, ordered after what it depends on |
| `sa_legacy` | job registers, sequencer, completion counters, interrupt pulses | mat_trigger, mat_wait, mat_reset, mat_notify, CSRs | sequencer shares the scheduler; a latched result is consumed once | a job is its four commands, reset leaves nothing behind |
| `sa_unit` | arbiters | legacy over fetch over PCPI at the scheduler's input; owners of the AXI ports | priorities; a valid that must hold | no beat to the wrong owner |
| `sa_ld`, `sa_st` | burst generator, per-port queues of expected beats, counters | one command; bursts on several ports; done | ports complete out of order | done once, after the last beat or response |
| `sa_ex`, `sa_array`, `sa_ve`, `sa_gemv`, `sa_vefp`, `sa_fp32_*` | streaming counters, pipelines | one command (EX: one streams while one drains) | overlap of two commands | within the banks of the packet; what a command leaves is a function of what it reads |
| firmware `rt` | ring tail, completion ring | polls RING_TAIL, runs a record, writes the completion | two CPUs, caches, ordering | each record completed once, in order |
| `rvsched` | table of items, inputs and patches; tokens, step counters | decode steps on the core, argmax, stop token, error exit | the table is compared out of recordings; host and core share it | the tokens are those the host would have chosen |
| host runtime: transport | RING_TAIL, one list buffer | submit, wait with timeout, open, close | a late completion after a timeout, a second process | a status belongs to the submission waited for |
| host runtime: batches | recorded dispatches, range sets, the list | add, barrier, flush | DDR order is the list's business; loads are moved forward | a barrier orders what it separates |
| host runtime: HAL driver | command buffer replayed, code table, recorder of steps | dispatch, barrier, fill, copy, call, record | what does not join a batch must flush it; any step may fail | program order, once; a recording is the step |
| host runtime: arena | block headers in the heap | malloc, realloc, aligned free | merges forward only, an interior pointer | no overlap, no false refusal |
| `sa-llm-run` | KV cache, mask, position, schedule | prefill by chunks, decode, recordings, the core's loop | overlapping chunks, buckets, a stop token, a core that goes on | greedy continuation |
| Python driver (`driver/`) | ring counters, kept buffers, records | submit, wait, close | slots, records and buffers are reused at different times | a client gets the record of its own entry |
| compiler: kernels | micro-kernels of linear layers, contractions, attention, feed-forward pairs | schedule, expand, lower | double buffering, blocks of a dynamic T, local memory estimated before it is allocated | DDR holds what the layer means; what was accepted fits |
| compiler: back end | templates of prefix, head and body | fuse VEs, assign registers, serialise, emit RISC-V | values live across loops, cached configuration keys | list and code do what the template means |
| firmware images | double buffers | gemm, vector | | DDR holds the product |
| frontend, `llm` scripts, `sim` | | | | tools and test doubles |
| `picorv32` | | | | third-party core |

`PROJECT.json` gives every component with what is modelled of it.

### Hazards

The list is in `PROJECT.json` (`hazards`), each at its line. The themes:

- **four engines over shared banks** - overlap, order, release of a mask entry
  (`sa_sched.v` 350-353, 423, 434), a fence that overlooks a command that is
  between two registers (454), head-of-line blocking (384);
- **prefetch against control flow** - words read past a jump (`sa_cmdfetch.v`
  497), space reserved for beats that cannot be refused (120), a PARAM that an
  earlier descriptor is about to write (195), stack and count boundaries;
- **mat_reset against everything** - `sa_cmdfetch.v` 339, `sa_legacy.v` 345;
- **two CPUs and a ring in DDR** - a slot, a record or a buffer reused too early
  (`pynq_matmul.py` 937, 990), a timeout and the late answer
  (`sa_transport_board.c` 135), the next process (348), the order of record and
  RING_HEAD (`rt_fw.c` 152);
- **DDR order** - a barrier that several dispatches depend on, range sets that a
  FENCE clears by halves, prefixes that move (`sa_context.c` 404-421), host
  commands that overtake a batch (`sa_command_buffer.c` 136);
- **recordings** - an item lost while a step is recorded (`sa_context.c` 224),
  words of one bucket left in the lists of the next (`rvsched.h` 101), a
  schedule that is interrupted (`sa_rvsched.c` 378);
- **bursts on several ports** - what belongs where when ports answer in any order
  (`sa_ld.v` 287, `sa_st.v` 225), skipped lanes, page and row ends;
- **the compiler's own assumptions** - a VE merged over a command that writes
  what it reads (`SahlPipeline.cpp` 158), a register reused before its last use
  (`SahwSerialize.cpp` 79), a configuration key believed to be set
  (`SahwToRiscv.cpp` 229), block counts by multiply and shift
  (`SahlExpandKernels.cpp` 1135), double buffers (470), local memory given back
  while something points into it (`SahlToSahw.cpp` 170), estimates made before
  anything is allocated (`SahlKernels.cpp` 303).

Hazards that no property covers: after a timeout the next dispatch overwrites
the list scratch the entry given up on still points at, so the firmware runs the
new list twice (`sa_context.c` 471; `RtBoard` has the address in its entries, but
to run a list twice is no wrong answer there). Three more are real and outside
the models' precision: a read error of a speculative burst beyond the end of a list fails a list
that never needed it (`sa_cmdfetch.v` 544; `SaFetch` takes its list as failed, as the code does);
`clear_error` is registered (`sa_legacy.v` 278), so a command can be dispatched
between the test and the pulse (in `SaUnit`, allowed by `ErrorContained`);
`notify_pend` saturates at 255 (216), which the core's rate cannot reach.

## 2. Plan

| Step | Modules | Content | State |
|---|---|---|---|
| 1 | `SaSched`, `SaInOrder`, `SaSchedOrder`, `SaSchedProofs` | the scheduler, its promise to software, the proofs of exclusion, of the promise and of fences | done |
| 2 | `SaDesc`, `SaList`, `SaFetch`, `SaFetchProofs` | the fetch unit, the sequential meaning of a list, the proof that what is decoded is where the decoder is | done |
| 3 | `SaUnit`, `SaUnitProofs` | the command path composed: PCPI, sequencer, fetch, scheduler; the proofs that it implements the scheduler's specification, that a job's error stays with the job, that a job that ends is done, and that fences tell the truth | done |
| 4 | `RtFw`, `RtQueue`, `RtDevice`, `RtBoard`, `RtDeviceProofs`, `RtBoardProofs` | the submission ring with its two hosts; the proofs that an entry runs its own list, that the ring is a queue, that an answer is one's own | done |
| 5 | `SaBatch`, `SaArena`, `SaHal`, `SaHalProofs` | dispatches to one list, the allocator, the HAL driver around both; the proofs that a list keeps the order of DDR and the weights, that the driver keeps the order of the program, that a recording is the step, that the arena loses nothing | done |
| 6 | `SaDma`, `SaDmaProofs` | load and store engine: bursts over several ports; the proof that the ports stay in step | done |
| 7 | `LlmStep`, `LlmGreedy`, `RvsCore`, `SaLlmRun`, `SaLlmProofs` | the decode schedule: table, core, host; the promise of greedy decoding and the proof that it is kept | done |
| 8 | `SahwTemplate`, `SahwPasses`, `SahwList`, `SahwBackend` | the compiler's back end against the meaning of a template | done |
| 9 | `SaMachine`, `Sahl`, `SahlLower`, `SahlLinear`, `SahlContract`, `SahlAttn`, `FwKernels`, `SahlKernels`, `MCCompiler` | micro-kernels expanded, lowered and run on the accelerator's memories, against what the layer means | done |
| 10 | `SaCheck`, `SaEx` | packet checks (`CmdType` derived from shapes and addresses), overlap of two EX commands | open |
| 11 | `SaNotify` | notify pulses, interrupt status | open |

Theorems worth proving after those of section 5: `InPlace` and `DoneTrue` of the DMA engines and
the refinement of `SaList` by `SaFetch`.

## 3. Modules and code

| Module | Models | State ↔ code | Actions ↔ code |
|---|---|---|---|
| `SaSched` | `sa_sched.v` 73-454 | `inq` FIFO, `d1` `d2` stages, `eq` engine queues (qm_), `mk` mask queues (mr, mw), `run` what an engine holds, `err`, `clear_error` | `Tick(in, rdy, dn, bad, ferr)` is one clock edge: all `always` blocks at once, for any packet offered, any set of engines that take, finish or fail |
| `SaInOrder` | promise: commands start in order, may overlap unless they conflict | `running`, `waiting`, `halted`, `clear` | `PStep`: engines finish their oldest command (`MayFinish`), one command starts (`MayStart`) or is dropped (`MustDrop`), one is accepted |
| `SaSchedOrder` | refinement `SaSched` ⇒ `SaInOrder`; what a true fence means | `disp`, a history: the commands dispatched and not done, in program order | `OTick`: an edge, with what it does to `disp` |
| `SaDesc` | words of a descriptor, wrap-around address arithmetic, dynamic fields | | operators shared by `SaList` and `SaFetch` |
| `SaList` | promise: a list is a sequential program; it ends at END or its count, and is cut short by a wrong descriptor, a read error, a halted scheduler or mat_reset only | program counter, loop and call stacks, registers, the error reported | one descriptor per step, executed or reported wrong |
| `SaFetch` | `sa_cmdfetch.v` 87-560; refinement ⇒ `SaList` | record `c` holds the registers of the unit; `ar`, `bursts` the read channel; `inq`/`busy` the scheduler seen from it | `Cycle(in)`: one clock edge with the inputs `in` |
| `SaUnit` | `sa_pcpi.v`, `sa_legacy.v` 216-360, arbiter of `sa_unit.v` | PCPI instruction state, sequencer state, list position, and all of `SaSched` | `UnitCycle`: one clock edge of the whole command path |
| `SaSchedProofs`, `SaUnitProofs`, `SaFetchProofs`, `SaDmaProofs`, `RtDeviceProofs`, `RtBoardProofs`, `SaHalProofs`, `SaLlmProofs` | theorems (section 5) | | |
| `RtFw` | `rt_fw.c` 88-161 | ring slots, mailbox words, list buffers in DDR; `pc` between two memory accesses | one action per load or store another CPU can see |
| `RtQueue` | promise: a queue of jobs | pending, ready | submit, complete, return |
| `RtDevice` | class `Device` of `driver/pynq_matmul.py` | its counters, kept buffers, records | one action per poll and per visible store |
| `RtBoard` | `sa_transport_board.c` 122-229, 321-349 | its tail, the entry waited for, the processes | write type, words, doorbell, answer, timeout, end and open |
| `SaDma` | `sa_ld.v` 100-430, `sa_st.v` 77-360 | `g` the generator, `ch` AR / AW, `q` burst queues, `sel` and `beat` the beat selection, `rx` R skid, `rd` `sk` `cnt` local read and W skid; `bus` `owe` what the slave still has to do | `LoadEdge`, `StoreEdge`: one clock edge |
| `SaBatch` | `sa_context.c` 296-505, `sa_command_buffer.c` 79-175 | recorded entries, flag, range sets, list | `Add`, `Barrier`, `Submit`, `Return` |
| `SaArena` | the first-fit arena of `sa_context.c`, in units of 16 bytes | the heap's words, headers included | `Malloc`, `Realloc`, `Free` of three clients |
| `SaHal` | `sa_device.c` (queue_execute), `sa_command_buffer.c`, `sa_rv.c`, the recorder of `sa_context.c`; composes `SaBatch` and `SaArena` | `cb` the command buffer replayed, `rv` the code table, `rec` the recorder, `ids` and `seen` who ran | one action per command of a buffer: begin, dispatch, barrier, fill or copy, call of generated code, end, each with its failures |
| `LlmStep`, `LlmGreedy` | the compiled model seen through its exports (external); the promise of greedy decoding | | |
| `RvsCore` | `sa_rvsched.c` (recordings compared, words that change, buckets, table) and `rvs_run` of `rvsched.h` | the recordings and the table; token, flags, step counters | operators of the table; a step of the schedule: patches, mask, items, argmax, output |
| `SaLlmRun` | `sa_llm_run.c` over `RvsCore` | position, tokens, cache rows, mask, phase | prefill chunk, decode step, record, run the schedule, read it back, each with its failures |
| `SahwTemplate` | what a template of prefix, head and body means | | operators: the commands issued, in order |
| `SahwPasses` | `SahlPipeline.cpp`, `SahwPasses.cpp` | | VE pairs merged, masks folded, tests of the code in its order; prefix split, live ranges, PARAM assignment |
| `SahwList` | `SahwSerialize.cpp`, `DescList`, `SahwToRiscv.cpp` | configuration keys believed set | a template to descriptors and back to commands; the commands compiled code issues, Top-k |
| `SahwBackend` | the three composed, as the plugin runs them | `work`: a template, a kernel or a router case on its way | one action per pass |
| `SaMachine` | what each command does to DDR, SPAD, ACC (`sa_funcsim.py`; limits from `sa_sched.v`) | the memories as functions to terms | one operator per command |
| `Sahl` | the operations of the dialect | | constructors |
| `SahlLower` | `SahlToSahw.cpp`, `SahlLocalMemory.h`, `SahlLowerGeneric.cpp` | allocator, views, cursors, claims | one operator per operation, one per pattern |
| `SahlLinear`, `SahlContract`, `SahlAttn` | `SahlExpandKernels.cpp`, `linearSchedule` of `SahlKernels.cpp` | | one operator per expansion and per step of it |
| `FwKernels` | `gemm_fw.c`, `vector_fw.c` | buffers of two halves | the loops of the images |
| `SahlKernels` | a kernel compiled, compiled again on "ACC full", run on the machine, and what it should have left | | |

`MC*` modules hold the instances. Abstractions common to all of them:

- A command packet of the scheduler is its engine, whether the checks pass and with
  which code, and the banks it reads and writes (`CmdType`); the checks are step 10.
- Fields of a descriptor are numbers modulo `Modulus` (2^32 in the code),
  small enough that every wrap occurs.
- In the ring models the content of a buffer is the number of the job that wrote it.
- DDR of `SaBatch` is a set of cells, a range a set of cells; the arena counts units
  of 16 bytes, its alignment.
- A lane of the machine's memories holds a *term*: which operands were combined and
  how. Two programs agree when they leave the same terms in the same places; no
  number is computed, so nothing depends on rounding. A product of a row and a
  column is the set of its factors: the order of accumulation is not told apart.
- The compiled model of the language model run is any function of the rows it is
  given; scores are small integers and −1 stands for −0.
- Registers that only mirror state for software (`st_addr`, `CYCLES`, counters
  of `sa_perf`) are left out.

The compiler modules are pure: operators from input to output. Their runs enumerate
inputs as initial states and take one step per pass, so that each pass is checked on
what the pass before it wrote.

## 4. Runs

All runs pass unless marked *violated*; those are findings 1 and 2 of section 6.

| Run | Question | Result and bounds |
|---|---|---|
| `SaSched` | Do queues stay in their memories, do masks cover what is in flight, may two engines ever conflict; is the pipeline an in-order program; does a true fence mean done? | holds, with errors and clear_error at any time; QIN 1, QENG 2, QMSK 2, four commands over shared and separate banks, one of them invalid; 52 000 states |
| `SaFetch` | Is prefetching with loops, calls, patching, LDPARAM, fences, errors and mat_reset a sequential execution of the list, does nothing leak into the next list, and does a list end? | refinement of `SaList`, the counters of space and words, and `ListEnds` hold: a wrong descriptor is reported where one is executed and nowhere else (the abstract list permits a read error in any step, since a speculative burst may fail); five memory images (below), submitted from the start, with a count, misaligned, or twice; 96 000 states |
| `SaUnit` | Does `mat_fence` without the error bit mean what it says where no job fails; is a job its four commands or an error, does its error stay with it, does it wait for what was issued before? | holds; any program of up to five instructions in four worlds (below), QIN 2; 342 000 states |
| `SaUnit_live` | Does every instruction of the core end, so that it is never stalled for ever (but for a BASE or PARAM register behind a list that failed, section 6)? | holds; QIN 3, programs of three instructions with errors, in two worlds; 22 000 states |
| `RtDevice` | Is driver + firmware a queue: own record, own list, in order, with timeouts; does a submit into a full ring get its slot? | refinement, invariant and liveness hold; ring 2, counters modulo 8, 4 entries; 232 000 states |
| `RtBoard` | Is an OK the completion of the own list, with timeouts and late answers? | holds (`OkIsOwnAlone`) wherever a process ends, with entries left or not, if the firmware is done with them when the next one opens; ring 2, modulo 8, 8 jobs, 2 entries given up; 4.7 million states |
| `RtBoard_reopen` | the same with one process (`MaxEarly` 1) that opens while the firmware works for the one before | *violated* |
| `SaHal` | Does a list keep the order a barrier asks for and fit; does a command buffer run in program order, once, and OK mean all of it done; is a recording the step; do allocations stay apart and is a refusal justified? | holds; batches of up to 4 dispatches, EntryCap 4, DescCap 47, SetCap 4; command buffers in every environment of failures; heap of 12 units, three clients, sizes 1 and 4, padding 1; 760 000 states |
| `SaDma` | Is every lane of a load or store moved to its place once, whatever the order of the ports; is done true, err exact, no burst illegal? | holds; two ports, eight programs of one or two commands, errors on any beat or response; 66 000 states |
| `SahwBackend` | Do list, generated code and fused template mean what the template means; does a kernel, expanded and lowered, leave in DDR what the layer computes, nothing else, within its memories; does what the schedule accepted fit? | holds; 8 362 initial states: some 7 700 templates, 600 kernels, the router's Top-k on every order, tie and NaN; an array of 2 by 2, 32 words of SPAD and 64 of ACC in a bank, rows up to 40, T up to 8; 63 000 states |
| `SahwBackend_loop` | the same with values that an LDPARAM before a loop leaves to its body (`Carried`) | *violated* |
| `SaLlmRun` | Is what is printed a greedy continuation, complete when there is no error (without --rvsched also past a stop token, as the code does); does prefill write each row once? | holds; vocabulary 4, two blocks of the argmax, padding 2, up to 6 tokens, seven models, 5 040 requests; 269 000 states |

The images of `SaFetch`: a call into a subroutine with a fenced command; a loop over a
command whose address is relocated and strided by a PARAM, set by SETREG; two nested
loops; LDPARAM and a jump to the address it read; a list with a fenced command, a
register that does not exist and a RET without a CALL, submitted twice with a register
written between. Each list is finite, so `ListEnds` applies to all of them.

The worlds of `SaUnit` (`World`): *isa* - commands, lists, fences, mat_reset, an invalid
command, load and read errors; *job* - jobs from both doors (mat_trigger and CSR), with
invalid parameters and bus errors, and a command on their banks; *order* - jobs behind
commands, where nothing fails; *mix* - jobs, lists, commands and mat_reset. `SaUnit_live`
has *mix* with a list of one command, and *fail*: a list that fails, the registers that
wait for it, mat_reset. A property
about jobs that fail, or about a world where nothing fails, says so
(`OnlyJobsFail`, `NothingFails`), since a command that failed is never complete. `FenceTrue`
speaks of worlds in which no job fails (`NoJobFails`): the clear at the end of a failed job drops
what was issued behind it, so that a fence after it cannot tell (section 6).

The kernels of `SahwBackend`: linear layers by rows and by GEMV, static and with
dynamic T, with bias, activation, residual and gate, K and N that need one or several
chunks; feed-forward pairs; contractions with K or N over T, in each layout of their
operands, whole, in blocks of K and in blocks of T; attention of one query, of a layer
and of a chunk; nests of vector operations; the gemm and vector images. Each is run for
T below a block, of whole blocks, and with part of one more. Some
combinations are refused by the code ("left to the generic path"): they end there,
and nothing is claimed of them.

The templates: LDPARAMs and their uses before, in and after a loop; commands that differ in
one configuration field, with fields patched and in loops and prefixes; and vector programs
over three overlapping buffers, with loads, GEMV loads, stores and VEs between a VE and the one that goes on with
its result, and after. `Sensible` and `Defined` keep what a lowering writes: no use
of a value or a buffer before it is written, a buffer read whole as one command wrote it. `Apart` leaves out what the
fusion does not look for (section 6): between the two VEs, loads that write their words and GEMV loads that
read what the second writes. The passing run leaves out the templates in
which a value from before a loop is last used in its body (`Carries`); the violated run
has them.

### Why the bounds are enough

- *Scheduler.* The hazards need at most a command running, one queued behind it
  and one at dispatch on another engine; QENG 2 has a queue with a second entry, and
  with QMSK 2 the mask queue is full before the engine queue as well as after it (a
  command that runs is in the mask queue only). The theorems lift the invariants to
  every size.
- *Fetch unit.* Two words of two bytes per descriptor make a burst boundary fall
  inside a descriptor; two outstanding bursts let one be in flight over a jump; one
  call and two loop levels reach both the full and the empty stack. The lists
  contain each descriptor kind, each error, each dynamic target.
- *Command path.* The scheduler sees at most two or three commands between the
  last idle test and the last push of the sequencer (some eight cycles), so QIN 3
  stands for the depth of 8 in the liveness run: with QIN 1 a full FIFO behind an error would
  block the sequencer, which the real depth excludes. The safety properties hold for the
  smaller FIFO too. Three to five instructions are enough for each pair of
  interacting instructions plus a fence or a reset.
- *Ring.* Size 2 is the smallest ring that is full with work behind the head; the
  modulus 8 wraps within a run, as 2^32 does in the field. The entries given up
  are bounded by `MaxLate`: the code's own limit is the sign of a 32-bit difference.
  With `MaxLate` 2 three entries are outstanding in a ring of two, so the
  slot of an entry not yet run is overwritten.
- *DMA engines.* Two ports, two lanes per beat, two beats per burst and a page of eight
  lanes give bursts cut by each of the three limits, first and last beats with a lane to
  skip, beats that need one and two accesses, rows that end inside a word, and with 14 lanes
  five bursts for queues of two. The second command of a program finds what the first left.
- *Driver.* A host, a dispatch in between, the guest and a writer need four
  entries; the capacities are chosen so that each of EntryCap, DescCap and SetCap bites.
  A heap of twelve units is split in three and merged again in every order of frees.
- *Compiler.* An array of two by two with rows of two words has full, partial and empty
  last tiles at sizes up to 5; the banks are just larger than one block of each kernel, so
  both halves of a double buffer are reused and "does not fit" occurs. Four PARAM
  registers stand for the code's eight: a loop's cursors and two values of LDPARAMs
  then compete for them. The shift of the block counts (`MaxShift` 3) covers every T of
  the instance.
- *Language model.* Two buckets differ in their words, three are needed for the middle
  one that no pass compares again; a chunk that overlaps the one before it needs a
  prompt longer than a chunk and not a multiple of it; a tie between blocks needs two.

`CHECK_DEADLOCK FALSE` is given only where the system stops: the ring models, whose
clients may close the device or reach the bound on jobs, and the models of programs that
end (`SaHal`, the compiler, `SaLlmRun`). Hardware models check deadlock: an edge is always
possible.

### Fairness

- `SaFetch`: the clock; an address is accepted, data of an accepted burst arrives,
  the scheduler takes, engines finish.
- `SaUnit`: the clock; each engine finishes; reads of descriptors return.
- `RtDevice`: the firmware runs (bare metal loop), the client's polls and stores go on
  while it is inside a call (a thread of the OS). No fairness for beginning
  a call: nobody has to submit.

The other models state no liveness: a batch, a command buffer, a compilation or a
request is a sequence of calls that has no loop waiting for another party but the
transport's, which has a timeout.

## 5. Proofs

Eight modules hold theorems: about the scheduler (`SaSchedProofs`), the command path around
it (`SaUnitProofs`), the fetch unit (`SaFetchProofs`), the DMA engines (`SaDmaProofs`), the
ring with the Python driver (`RtDeviceProofs`) and with the C transport (`RtBoardProofs`), the
HAL driver with its batches and its arena (`SaHalProofs`), the decode schedule
(`SaLlmProofs`). Each holds for every value of the constants that the named assumptions of its
model admit; TLC evaluates those assumptions on the instances. Each inductive invariant was
an invariant of the component's run before it was proved.

### The scheduler

`SaSchedProofs` proves four theorems about every instance of `SaSched`: any
queue depths, any set of banks, any set of commands (`SchedAssumption`).

- `TypeCorrect`, `QueuesBounded`, `MasksCover`, `Exclusion`: `Spec => []TypeOK`,
  `[]Bounded`, `[]MasksCoverQueue`, `[]BankExclusion`.

The argument. `BankExclusion`, "no two engines have conflicting commands in
flight", is not inductive alone: dispatch compares the new command with the *mask
queues*, while what is in flight sits in engine queues and engines. So the inductive
invariant is

    IInv == TypeOK /\ Bounded /\ MasksCoverQueue /\ BankExclusion

where `MasksCoverQueue` says that a mask queue lists, in order, what its engine
runs and has queued. `Bounded` is needed for `MasksCoverQueue` (a queue that
overflowed would lose an entry of one and not of the other), `TypeOK` for everything.
The proof follows the edge: `QueueStep` and `ShiftedSeq` say what one edge does to
a queue (at most one out at the head, one in at the tail), `EngineStep` what it does
to one engine, `MaskOrigin` that every mask after the edge was there before or is the
command dispatched, `DispatchSafe` that the command dispatched conflicts with no mask
of another engine. `StepTypes`, `StepBounded`, `StepMasks` and `StepExclusion` are the four
parts of `StepIInv`. `Inductive` puts them under the temporal operator.

Assumed: the contract of the engines (`CanTake`, `CanFinish`: a command at a time,
EX a second one while the first drains; `done` once per command). It is read from
the engines' code; for the load and store engine `SaDma` checks it (`DoneTrue`), the others
follow with step 10 of the plan.

### The in-order program and the fence

The second half of `SaSchedProofs` proves that four queues, four masks and two stages are one program:
`Refinement == OSpec => InOrderProgram`, and that a fence means what it says: `FenceDone == OSpec =>
[]FenceMeansDone`. The refinement mapping of `SaSchedOrder` takes `running` from the history `disp`, the
commands dispatched and not done in program order, and `waiting` from the stages and the
FIFO. The invariant is

    OInv == IInv /\ InFlight

where `InFlight` says that the mask queue of an engine is that engine's part of `disp`, in the same order
(`Part`: an order-preserving injection of its positions that hits exactly the positions of that
engine). It is what ties a queue per engine to one program: done releases the
head of one mask queue (`OneDone`: that is the first entry of the engine in `disp`, so the
engine finishes in program order; `Unfinished` up to four of them, one after the other), dispatch
appends to both. A command starts only if it conflicts with nothing that runs,
because what runs on another engine is in that engine's mask queue, which `hazard` reads. A fence that
passes sees the masks of its engines empty, so their parts of `disp` are.

### The command path

`SaUnitProofs` proves that the composed path implements the scheduler's specification
with the identity as refinement mapping: `UnitImplementsSched == UnitSpec => Spec`. So
the scheduler's theorems hold in the unit: `UnitExclusion`, `UnitQueuesBounded`. What has
to be shown is that what `Tick` assumes of its inputs is what the other blocks do: only
command packets are offered, a full FIFO takes none, an error reported while the sticky one
is set changes nothing, clear_error comes over idle engines. The invariant is `PathTypeOK`, the types of the
three sources' registers. It is needed because a register of a source is what the
arbiter offers: `PcpiStep`, `LegStep` and `FetchStep` show that each source keeps its type whatever
its inputs, `InPacket` that the arbiter then offers a packet or nothing, `UnitInputs`
what the engines and the core may do in an edge, and `UnitStepIsTick` puts them together.
Assumed: `UnitAssumption` (the worlds are well formed, the lists are sequences of commands
and bad descriptors, the job's descriptor is a valid command) and the engines' contract. What
counts commands also assumes `HistoryAssumption`: the job's packets are told apart from the
core's, since the history names a command by its packet.

`ErrorStays == UnitSpec => []ErrorContained`: where jobs are all that can fail, the sticky error
is clear when the sequencer is idle. The invariant `Contained` says why: between two jobs
(`Between`) whatever is in an engine cannot fail (`EnginesSafe`), and either the error is off and whatever is
in the pipeline cannot fail (`PipeSafe`) or the error is on and clear_error is on with it, which
flushes the pipeline in this very cycle. A job that fails waits in ERRW until the engines
are idle; as long as the error is on nothing is dispatched, so the last command
of the job that could still raise it is out before it is cleared. That is what `SequencerOK` is needed
for: clear_error comes only in IDLE and FENCE, and ERRW is left with the error on.

The other three are about numbers of commands. `Number(s, S)` counts the entries of a sequence
that are in a set; `NumberLast` and `NumberTail` say what a push and a pop do to it, `PipeCount`
and `EngagedCount` what an edge does to the commands of a set in the pipeline (`Piped`) and in the
engines (`Engaged`): what was accepted is added, what is dispatched moves on, what
finishes leaves.

`JobDone == UnitSpec => []JobTrue`: a job that ends without an error code has run its four
commands, whatever else the core runs. The invariant `PathInv` says of each register of the
sources what it belongs to (`CoreRegs`, `FetchRegs`, `LegRegs`: a packet the sequencer offers is
the one of its place, what the decoder offers is of the instruction it executes, mat_reset is answered only
to a decoder that waits), and `JobCount` balances the books: the job's commands not
yet completed are those not yet pushed, those in the pipeline and those in the engines, unless the
error is on. So `idle` without an error in L_RUN means that none is left. Between two jobs none
is left of the last: a failed one leaves ERRW with idle engines, and its clear flushes the pipeline.

`KeptAlways` is the same balance for what the core issued: where nothing but mat_reset clears and the
error is off, the commands owed for an engine (`ghost.owed`) are no more than those in
lists, in the pipeline and in the engine (`Pending`). It needs that the fetch unit loses none
between a submit pulse and the scheduler (`ComingStep`), that a clear is mat_reset's
and comes in the very cycle in which mat_reset returns (`Clears`, `ClearIsReset`), so that
the books are closed together with the pipeline, and, where nothing fails, that no error is
ever raised (`Quiet`). A fence that returns without the error
bit has seen the fetch unit idle, the pipeline and its engines empty: nothing is pending, so nothing
is owed, which is `FenceTells == UnitSpec => []FenceTrue`. L_FENCE sees the same for every engine,
which is `FencesBefore == UnitSpec => []FencesFirst`.

### The ring

`RtDeviceProofs` is about `RtDevice` with any ring size, any modulus that is a multiple
of it, any number of submissions below the modulus and any set of at least `Size` buffers
(`RingAssumption`, `DeviceAssumption`): `DeviceInductive`, `RunsOwn` (`Spec =>
[]RunsOwnList`), and `CollectNeverFails`: the exception in `_collect` is never raised.

`RunsOwnList` says something about the entry in work only; that nobody writes its slot or
its buffer under the firmware needs the window. So the inductive invariant `DeviceInv` has,
besides types, `Window` (collected <= completed <= submitted, at most `Size` apart, and the buffers
kept are those of the entries not collected), `Records` (a completed entry's record
is in its slot until it is collected), `Entries` (so is an entry not completed, and its list in its
buffer), and `Working` (what the firmware has read of the entry is that entry's). The
arithmetic is one lemma, `SlotsApart`: counters less than a ring apart have different slots.
`RecordStep` uses it for the firmware's record, `WriteStep` for the driver's entry, whose
buffer is also none that is kept; `CollectStep` moves the window over records that, by
`CollectsAll`, are all there. A timeout changes no part of the invariant, which is why
a client that gives up does no harm.

That the counters do not wrap in a behaviour (`MaxEntries < Modulus`) is the driver's: its own
counters are unbounded and the record's number is compared modulo 2^32.

The second half of the module takes this to the refinement: `QueueRefinement == Spec => QueueSemantics`, driver and
firmware over the ring are the queue of `RtQueue`. The mapping takes the records kept in the driver's
dictionary, in the completion ring and in the firmware's locals for the queue's results. So

    QueueInv == DeviceInv /\ Kept /\ Held

adds where a record is from the run that wrote it until the client has it, and that it names
its entry there: `Kept` in the dictionary and the slots of the window, `Held` in the firmware.
Every step of either CPU but three (an entry submitted, one completed, a record returned) is then a
stutter of the queue.

`RtBoardProofs` is about the C transport, whose counters do wrap and which, unlike the driver, keeps no
dictionary: `OwnAnswer == Spec => []OkIsOwnAlone`. A process may time out, exit or be killed at any step, between
its writes too, and leave up to `MaxLate` + 1 entries to the firmware; `early`, a history, counts those that opened the
transport before the firmware was done with such entries, and `OkIsOwnAlone == early = 0 => OkIsOwn`. With one of them
`OkIsOwn` is false (`RtBoard_reopen`, finding 1). The invariant is `BoardInvAlone == early = 0 => BoardInv`.
`BoardInv` has `Rings` (the tail of transport and mailbox agree, at most
`MaxLate` + 1 entries are left to the firmware, none when no process is there), `Written` (the entry being
written is in its slot and its list in the buffer), and `Answered`: while the transport
waits and one entry is left, what the firmware has read is of that entry; with none left
its record is there. Entries given up need not be intact, and are not: only the last
one is claimed anything of. `Apart` counts on the circle; `Left` stays below half the modulus, so the sign of
the code's 32-bit difference is the order (`2 * (MaxLate + 1) < Modulus`).

### The fetch unit

`SaFetchProofs` proves, for every size of FIFO, descriptor and memory image, that no beat is lost
(`SpaceAlways == Spec => []SpaceReserved`; r_ready is constantly 1) and that what is decoded is what lies where the
decoder believes to be (`AlwaysInStep == Spec => []InStep`). Addresses wrap modulo `Modulus`.

`FetchInv` describes the road from memory to the decoder: `Located` says that the words in `w` and in the FIFO, then
the beats on the read channel, then the burst on AR, then the next address to ask for, are
consecutive from the decoder's address, with k descriptors complete and `beats` beats of the next. In the states that
abandon a list the road is empty (`Quiet`), while LDPARAM reads it carries one burst that is
no descriptor (`LdpBurst`), and what restarts from a drain restarts at the decoder's address
(`GoesOn`). With a jump the words ahead are thrown away and the road
is drained before the first new burst: that a beat of the old road is never taken for one
of the new is `Quiet` at the end of the drain. `SpaceReserved` is part of the invariant because a lost beat would
break `Located`. `FetchAssumption` gives the sizes (a descriptor is a whole number of words,
addresses wrap at a multiple of a descriptor) and that images hold descriptors and values.

### The DMA engines

`SaDmaProofs` proves for any number of ports, any depth of the queues and any program that no burst
is illegal (`BurstsAlways == DmaSpec => []BurstsLegal`: none crosses a page or is too long, whatever address,
length and pitch), and that the ports stay in step (`PortsInStep == DmaSpec => []InStep`): no queue
overflows, W's last beat is the one its AW announced, each burst is counted once when issued and once
when it ends. The invariant `DmaInv` has

- `GenOK` and `ChOK`: the generator is inside the row it cuts, and what it puts on AR / AW is legal. `Fits` and
  `Lanes` bound a burst by the row, the page and `MaxBeats`;
- `QueuesOK`, `LoadOK`: a load's queue has an entry for every burst that still answers;
- `StoreOK` with `Line`: the W beats in the skid of a port, those being read from the banks included, end where the
  accepted bursts end. `Marks` places the last beat of every accepted burst in the skid;
  `LinePop`, `LinePush` and `LineAccept` are what a beat sent, a beat read and an AW accepted
  do to it. cnt counts the skid with the read under way, so the skid cannot overflow;
- `CountsOK`: bursts issued less bursts ended is the sum over the ports of what each has outstanding. Any number of ports
  ends one in the same cycle (the code adds the bits); the sum is `Total`, by partial
  sums, with `TotalStep` and `CountStep`.

Induction over naturals is done on sets (`Least`, `AllOf`, from the library's well-founded minimum), since
the induction theorems take an operator. `DmaAssumption` says that programs are nonempty, of one engine, and
that a GEMV load's addresses are even lanes, as the packet checks of `sa_sched.v` have it.

### The HAL driver

`SaHalProofs` is about `SaHal` with any set of dispatches, exports and worlds, any capacity of the batch, its list
and its range sets, any heap and any clients. It has three invariants, one for each of the composed parts; none needs
another but for types.

*The batch.* `BatchInv` says that `descs` is what the recorded entries may need, that there is
room for it and that the list that runs is `Build(entries)`. What matters is then a statement about a
recursive function: `BuildRight` proves `Right(e, Build(e))` for every sequence of entries, by
induction over the dispatches appended. `Emit` appends up to seven parts; `EmitParts` gives each a name
(`L1` to `L7`), and every conjunct is carried from one to the next:

- `Weights`: which bodies and prefixes are in the list so far, once each, a prefix before its body and nothing
  that touches SPAD_B between them. A prefix may be in the list long before its dispatch; what makes
  this safe is `Placed`, proved of the placement by an induction of its own: from host to guest nothing touches
  SPAD_B (`MovedOver`), a host has one guest, a guest one host;
- `Tracked`: every access is in the range set of its engine, or a FENCE for the engine is behind it, where a set that
  overflowed stands for everything (`Covers`). Hence at a barrier the mask of the FENCE names every engine that
  has something to wait for, and `Apart` follows: conflicting accesses have a FENCE between them. A prefix moved
  ahead (`Known`) conflicts with no store of the list at all;
- `Descriptors(L) <= Needs(e) + 1`: each dispatch adds at most `Need`, the visit of a guest included.

`ListAlwaysFits`, `DependsInOrder` and `WeightsAreOwn` are the properties of the run from it.

*The order.* `OrderInv == HalTypeOK /\ Numbered /\ Paced /\ Recording /\ Kept`. What has taken effect has
the numbers 1, 2, ... and the batch those that follow (`Numbered`): batched, called and host
commands share one count, so whoever overtook would break it. `Paced` says when a batch may be open: none outlives a
command buffer that ended well, in immediate mode none is open at all, and while a buffer runs nothing of it has
failed. `Recording` and `Kept` say that the items of a recording, one after another, are the numbers from its first to
the last recorded, as long as none was dropped and the host did nothing. `AlwaysProgramOrder` and
`AlwaysRecordExact` follow.

*The arena.* `ArenaInv` says that the heads are a chain from the beginning of the heap to its end (`Chain`), that
a client's memory is in a used block of its own and holds what the client wrote (`Owns`, `HeldBy`),
that `heap_used` counts the units of the used blocks and that the request refused last fits nowhere. `HeadsChain`
shows that the code's walk visits exactly the chain. `malloc` splits or fills a free run,
`free` merges forward, `realloc` grows in place, or copies; each is a lemma about what becomes of the chain
(`Keeps`) and of every other holder. `RunHolds` is why refusing is right: a stretch that meets no used block lies
in a run of free blocks the walk merges. `AlwaysIntact` and `RefusedRightly` follow.

Assumed: `DispatchAssumption` (a dispatch has at most 24 registers, a template with a head does not touch SPAD_B, a
prefix reads what its dispatch reads; `sahw-split-head` and the packer see to it), `CapAssumption`,
`ArenaAssumption` and the one on worlds. TLC has checked the three invariants (with `Right` of the list, and the
chain taken to be the walk's) on all 760200 states of the run `SaHal` before they were proved.

### The decode schedule

`SaLlmProofs` is about `SaLlmRun` with any vocabulary, model, prompt that fits, chunk length, padding, number of
block maxima, places of the recordings, and anything that may fail or be slow. It proves that what is printed is a greedy
continuation of the prompt (`LlmRefinement == Spec => Greedy`), all of it when there is no error (`PrintsAll == Spec =>
[]Complete`: up to the first stop token with --rvsched; without, past any but one the prefill chose, section 6), and
that --prefill_all_out has each row once (`RowsWritten == Spec => []RowsOnce`). The invariant

    LlmInv == HostInv /\ TableInv /\ CoreInv

follows the token through the program.

*The host.* `Cached` and `Masks` say that the KV cache holds the tokens fed and the mask admits exactly those:
then a step's logits are those of the sequence (`AttendedIs`, `StepLogits`), whatever the attention's length, which with
--pad ends at the next bucket (`LengthMost`). `Decoding` relates what is printed to the loop's
end, which is fixed before its first step, and to `steps`, which a stop token shortens and the core is started with;
`Asking` and `Ending` carry it to the end, where `Complete` is read off (`EndHost`).

*The table.* `TableInv` says what was recorded in which pass. A bucket is recorded at one position but serves all of
its own; `PosFixed` is what the third recordings establish: if the lists depend on the position, no bucket serves two. The
code compares only the first and the last bucket (`CheckFirstInv`, `CheckLastInv`). That is enough: between them
the two checks fail wherever a bucket has two positions, unless nothing but one step is left.

*The core.* `TableIs` says that the items in device memory are those recorded for the bucket the core is in: the words in which
no bucket differs from the first are right unpatched, the others are patched at each change (`DiffLists`, `PatchWord`,
`PatchedIs`). `AtStep`, `AtItems`, `AtOut` and `AtDone` follow one step of the loop: frame and mask entered
(`NewMaskIs`: a full mask at a new bucket, one position else), the token cached and the logits those of the sequence after the
model's last item, the maxima after that, a choice after the argmax. `CoreChoice` is about the two ways to find
it: by blocks, by the order of the bits or of the floats, the choice is one of the largest logits and the
first of them, except between zeros of both signs, where `RightToken` leaves it free.

*Between the two.* The host may read `done` at any moment. `Told(n)` says that the tokens fed to n steps and the one found last
are a right continuation, `Counted` that what is counted was told: `CoreOut` comes before `CoreDone`. So a host that gave
up prints no token the core did not find (`WaitInv`, `ReadHost`).

Assumed: `WorldAssumption` (the prompt fits the KV cache; --rvsched comes with --pad; the model's logits are
floats) and `CoreAssumption` (the padding divides the cache, the blocks the vocabulary, as the compiled
modules have it). `sa-llm-run` itself checks neither the prompt's length nor, before it divides, the
padding (section 6).

### Induction

The library's induction theorems take an operator as parameter, which the provers cannot instantiate. Induction over
a natural number is done through a least counterexample instead (`Least`, from `NatLessThanWellFounded` and
the minimum of a well-founded relation): the set of numbers at which a fact fails is a set like any other. `Recursion`
of `SaHalProofs` turns this into existence and uniqueness of a function defined by recursion over 0..n, so
recursive functions of a model can be reasoned about; RECURSIVE operators cannot.

### Only model-checked

- All liveness (`ListEnds`, `InsnEnds`, `SubmitEnds`): no rule for fairness and ENABLED.
- The compiler's back end and kernels (`SameData`, `ListMeans`, `CodeMeans`, `HeaderCovers`, `TopkRight`,
  `Computed`, `Fits`): what a program means, and several passes over it, are recursive over
  programs (`RECURSIVE`), so what they compute for every program is out of the provers' reach.
- Of the DMA engines `InPlace` and `DoneTrue`, which relate a command's bytes to the bursts, the beats and the banks of a whole
  transfer. They need `Line` for addresses besides counts, and what the generator has left of
  every row; `DmaInv` has the counts. The refinement of `SaList` by `SaFetch`.

## 6. Findings

Two are runs that reach a state which a comment of the repository excludes;
`PROJECT.json` (`findings`) quotes both sides.

1. A process that opens the transport while the firmware works for the last one may
   get the completion of the old list (`sa_transport_board.c` 348; `RtBoard_reopen`).
2. Live ranges for the PARAM registers are taken in post-order, so that a value from
   before a loop does not live to the loop's end (`SahwPasses.cpp` 138, 155;
   `SahwBackend_loop`). It needs more values than registers.

What follows was met while modelling; the models contain it (or leave it out where it
says so) and no passing property denies it.

*Hardware.*

- `sa_sched.v` 441 is commented "(keep a push of this cycle)", but `in_wp` advances
  over that push as well: a packet accepted in the cycle of clear_error is dropped.
  `inq_next` and the promise of `SaInOrder` follow the code, so `InOrderProgram` holds
  of the hardware and not of that comment.
- mat_reset during the drain of a jump does not abandon the list (`sa_cmdfetch.v` 539);
  the last command of a list with a count stays in `pkt` over it (`Abandon` of `SaFetch`);
  a list error in the very cycle of clear_error sets the sticky error again (544).
- A job can start in the middle of a running list: L_FENCE waits for `sched_idle` only
  (`sa_legacy.v` 295), which is true between two commands of a list, while
  `docs/custom_isa_encoding.md` 118 says that "the sequencer fences first, so legacy jobs and new-ISA
  commands can be mixed".
- mat_cfg of a BASE or PARAM register waits for the list to end (`sa_pcpi.v` 261); a list that
  failed ends with mat_reset only, which the core cannot issue while it waits. `sa_pcpi.v` 23-24 says
  that the core never blocks on a halted queue (`InsnEnds` leaves the case out).
- A failed job clears the sticky error and drops a command issued behind it; a fence
  then reports no error (345). A command that becomes free to start in the cycle in which
  mat_reset sees the engines idle is dispatched and runs over the reset (278,
  `clear_next` of `SaUnit`).

*Host runtime.*

- A barrier orders only the dispatch right behind it: one after that which touches
  what the barrier was for gets no FENCE (`sa_context.c` 404, `FenceMask` of `SaBatch`).
- With two entries given up, the next process moves RING_TAIL back, and the firmware,
  which compares for equality, runs round the ring (`sa_transport_board.c` 348, `Open` of
  `RtBoard`).
- After a dispatch that fails in the middle of a command buffer queue_execute returns
  early (`sa_device.c` 515): entries before it stay pending, and the next command
  buffer's begin (`sa_command_buffer.c` 80) runs them; the signal semaphores of the
  failed call are not failed.
- Beginning or ending a recording does not flush; a step whose recording fails leaves
  entries that the next begin really runs.
- `sa_rv_load` sets its state before anything can fail (`sa_rv.c` 39): only the first
  dispatch reports that the code did not load, later ones run their lists (`RvLoad`).
- `rvs_key` orders −0 below +0 (`rvsched.h` 130), the host's argmax does not; a tie is
  greedy either way.
- `sa-llm-run` fixes the end of the host's loop before its first step (`sa_llm_run.c` 340); a stop token the
  loop generates shortens `steps` (393), which only the core's part and the statistics look at afterwards. Without
  --rvsched the loop therefore goes on after it, while line 36 documents --stop_token as "Stop generating
  after this token". Where the prefill chose the token (335), and with --rvsched, it does stop. `Decode` and
  `Complete` of `SaLlmRun` follow the code.
- `sa-llm-run`: a prompt longer than the KV cache is not refused; with `--rvsched --pad=0` the error is set, but the
  next statement divides by it
  (`sa_llm_run.c` 407, 411); `valid` has room for FLAG_valid_len floats while the length
  is rounded up to the padding; `--generate=G` prints G + 1 tokens; only the first and
  the last bucket's recordings are compared a third time; after a timed-out schedule the
  table is freed although the core may still run it.

*Compiler.*

- `sa.neginf` is lost when a mask with −inf merges into an earlier VE
  (`SahlPipeline.cpp` 199); an EX range overlaps nothing (57).
- "nothing between touches v2's destination" (125) is tested for reads other than a GEMV load's and for VEs that start
  in it (163). Between the two, a load of either kind that writes the pair's words, a GEMV load that reads the
  second's destination, and a VE that starts elsewhere and reaches into the intermediate or the destination, are
  not seen, and the merged command is wrong. Whether sahl-to-sahw can write such a sequence is not known;
  `SameData` is of templates without them (`Apart` and `Sensible` of `MCCompiler`; without `Apart` TLC finds it violated).
- The binding a prefix's LDPARAM reads is not among the prefix's reads
  (`SahwSerialize.cpp` 152).
- Compiled to RISC-V code, a load with a dynamic mode word is a compile error and a
  loop of count 0 runs once; as a list the first is possible and the second an error.
- The router's Top-k over NaN alone leaves the identifier 0x7FFFFFFF.
- The shift of a block count is packed into four bits (`SATarget.cpp` 323).
- `SahlExpandKernels.cpp` 1149 says that no block past T is read; with the fallback count
  (T >> log2 Tb) + 1 one is when T is a multiple (the instance keeps such T below the
  buffer's size).
- An untiled contraction reserves `nc` words of ACC where EX writes D·nc; a decode
  kernel's temporaries at top level are never released; `linearSchedule` falls back to
  nc = 1 whether it fits or not (`Fits` is about what it accepted, and SaCodegen retries
  with a smaller tile when ACC is full), and its term for small operands is less than
  what a row input allocates.
- `vector_fw.c` loops for ever with a period above 512, which the driver refuses
  (`pynq_matmul.py` 707); the driver does not check that a strip of an int32 C fits its
  ACC bank (642-647), which `GemmFits` asks for and the hardware reports as XERR_RANGE.

## 7. Not modelled

- `picorv32`, the AXI adapter: third-party.
- fp32 arithmetic, `sa_vefp`, the array's dot products: datapath over 2^32 values,
  compared bit by bit with references by the repository's tests; nothing of it is
  control. `SaMachine` has each operation as a term.
- Local memories (`sa_bankmem`), `sa_perf`, profiling, file parsing, wording of errors: no
  influence on the rest.
- The simulation transport and servers, the Python frontend and scripts: test doubles and
  tools.
- Of the compiler: the pattern matching that recognises kernels (`SaToSahl.cpp`,
  `FormAttnRegions.cpp`, the matchers of `SahlKernels.cpp`), tiling, scheduling and memory
  planning of IR (`SahlTile`, `SahlSchedule`, `SahlPlanMemory`), the packing of weights,
  instruction selection and the object file. They rewrite IR by shape; an input for
  them would be a program of the upstream dialects, whose meaning is not in this
  repository.
- The scatter kernel. In the code its rows are checked for `rb % 8` only, so fp32 rows that
  are no whole number of words would not agree with a store's row per word.
- The generic operations the attention layer's query goes through before its kernel
  (a load of the query and its scales stands for them), and the packing of the input of a
  decode linear layer with int32 operands.
- Steps 10 and 11 of the plan: packet checks and EX overlap, notify pulses.
- Parts of modelled components: misaligned lists and the configuration registers in
  `SaUnit`, interrupt status, the AXI-Lite handshake, the owner of read port 0, a firmware
  that itself crashes.
- Weak memory of the two CPUs: the board transport maps the window uncached and has a
  barrier before the doorbell and after the poll (`sa_transport_board.c` 130, 141), the
  Python driver flushes the entry before it; the models are sequentially consistent.
