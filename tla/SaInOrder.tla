------------------------------ MODULE SaInOrder ------------------------------
(***************************************************************************)
(* What the command scheduler promises to software, without FIFOs,         *)
(* pipeline stages, engine queues or mask queues: a program of commands    *)
(* that START in program order, each only when it may overlap with every   *)
(* command still running, finish in any order (in program order on one     *)
(* engine), and stop cleanly at an error.                                  *)
(***************************************************************************)
EXTENDS Naturals, Sequences, SequencesExt

CONSTANTS
    Cmd,                \* the commands, records with fields eng and ok
    MayOverlap(_, _)    \* may the second start while the first still runs?

VARIABLES
    running,    \* started and not finished, in program order
    waiting,    \* accepted and not started, in program order
    halted,     \* an error has stopped the program
    clear       \* the error is being cleared in this step

pvars == <<running, waiting, halted, clear>>

PInit == running = <<>> /\ waiting = <<>> /\ ~halted /\ ~clear

\* The next command starts: it is valid, nothing halts the program, and it may
\* overlap with everything still running.
MayStart ==
    /\ ~halted
    /\ waiting # <<>>
    /\ Head(waiting).ok
    /\ \A j \in 1 .. Len(running) : MayOverlap(running[j], Head(waiting))

\* The next command is invalid: it is dropped without effect and halts.
MustDrop == ~halted /\ waiting # <<>> /\ ~Head(waiting).ok

\* The engines with something to finish, and what runs when those in fin have
\* finished their oldest command.
MayFinish == {running[j].eng : j \in 1 .. Len(running)}
Finish(s, e, fin) == IF e \in fin THEN RemoveFirstMatch(s, LAMBDA c : c.eng = e) ELSE s
Unfinished(fin) ==
    Finish(Finish(Finish(Finish(running, "LD", fin), "ST", fin), "EX", fin), "VE", fin)

(***************************************************************************)
(* One step: the engines in fin finish a command, one more starts or is    *)
(* dropped (or none), one is accepted (or none).  Clearing removes         *)
(* everything not started, a command accepted in the same step included    *)
(* (sa_sched.v 441 does so, though its comment says such a push is kept);  *)
(* else a command only leaves by finishing or by being the invalid one.    *)
(***************************************************************************)
PStep ==
    \E fin \in SUBSET MayFinish, start \in {FALSE, MayStart}, drop \in {FALSE, MustDrop} :
        LET rest == IF start \/ drop THEN Tail(waiting) ELSE waiting
        IN  /\ running' = Unfinished(fin) \o (IF start THEN <<Head(waiting)>> ELSE <<>>)
            /\ waiting' \in IF clear THEN {<<>>} ELSE {rest} \cup {Append(rest, c) : c \in Cmd}
            /\ IF clear THEN ~halted' ELSE halted' \in {b \in BOOLEAN : halted \/ drop => b}
            /\ clear' \in BOOLEAN

PSpec == PInit /\ [][PStep]_pvars

=============================================================================
