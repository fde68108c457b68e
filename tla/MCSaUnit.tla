------------------------------ MODULE MCSaUnit -------------------------------
(***************************************************************************)
(* Small programs for SaUnit.  Banks: one the software's loads fill (A0)   *)
(* and the banks of the job's reserved tile slots (A1, B1, C1).            *)
(***************************************************************************)
EXTENDS SaUnit

MCBank == {"A0", "A1", "B1", "C1"}

C(eng, r, w) == [eng |-> eng, ok |-> TRUE, code |-> "none", r |-> r, w |-> w]

MCJob == << C("LD", {}, {"A1"}), C("LD", {}, {"B1"}),
            C("EX", {"A1", "B1"}, {"C1"}), C("ST", {"C1"}, {}) >>
MCJobDesc == C("LD", {}, {})

Load == C("LD", {}, {"A0"})
Exec == C("EX", {"A0", "B1"}, {"C1"})
Wrong == [eng |-> "EX", ok |-> FALSE, code |-> "RANGE", r |-> {}, w |-> {}]

JobCmd == ToSet(MCJob) \cup {MCJobDesc}
IsaCmd == JobCmd \cup {Load, Exec, Wrong}

Run(cmd) == [op |-> "run", cmd |-> cmd]
Fence(mask) == [op |-> "fence", mask |-> mask]
Submit(list) == [op |-> "submit", list |-> list]
Op(op) == [op |-> op]

InWorld(insn, max, data, bus, rerr) ==
    [insn |-> insn, max |-> max, data |-> data, bus |-> bus, rerr |-> rerr]

MCList == {<<Load, Exec>>, <<BadDesc>>, <<Load, Load>>, <<Load>>}

\* New-ISA programs: commands, lists, fences, mat_reset; loads and reads fail.
IsaWorld ==
    InWorld({Run(Load), Run(Exec), Run(Wrong), Fence({}), Fence({"LD"}), Op("base"),
             Op("reset"), Submit(<<Load, Exec>>), Submit(<<BadDesc>>)},
            5, {TRUE}, {"LD"}, BOOLEAN)

\* Jobs, valid or not, that fail, and a command of the core on their banks.
JobWorld ==
    InWorld({Op("trigger"), Op("start"), Op("wait"), Op("reset"), Run(Exec)},
            5, BOOLEAN, {"LD", "ST"}, {FALSE})

\* Jobs behind commands of the core, without errors.
OrderWorld ==
    InWorld({Op("trigger"), Op("start"), Run(Load), Run(Exec)}, 5, {TRUE}, {}, {FALSE})

\* Jobs, commands, a list and mat_reset mixed, loads fail.
Mixed(list) ==
    InWorld({Submit(list), Op("trigger"), Run(Load), Op("reset")}, 3, {TRUE}, {"LD"}, {FALSE})

\* A list that fails, and the registers it waits with.
FailWorld ==
    InWorld({Submit(<<BadDesc>>), Op("base"), Op("reset"), Run(Load), Fence({})},
            3, {TRUE}, {}, BOOLEAN)

MCWorlds == {IsaWorld, JobWorld, OrderWorld, Mixed(<<Load, Load>>)}
LiveWorlds == {Mixed(<<Load>>), FailWorld}

=============================================================================
