----------------------------- MODULE MCSaFetch -------------------------------
(***************************************************************************)
(* Small lists for SaFetch.  A descriptor is 4 bytes (2 words of 2         *)
(* bytes); there is one BASE "b" and two PARAMs "p" and "q".               *)
(***************************************************************************)
EXTENDS SaFetch

MCEng == {"LD", "EX"}
MCReg == {"b", "p", "q"}

D(op, f, dyn, x) == [op |-> op, f |-> f, dyn |-> dyn, x |-> x]
Slot(f, k, add) == [f |-> f, k |-> k, add |-> add]

Command(eng, f, dyn, fb, reloc) ==
    D("CMD", f, dyn, [eng |-> eng, fb |-> fb, reloc |-> reloc, base |-> "b"])
LD == Command("LD", <<1, 2>>, <<>>, FALSE, FALSE)
EX == Command("EX", <<3, 4>>, <<>>, FALSE, FALSE)
Fence(mask) == D("FENCE", <<>>, <<>>, [mask |-> mask])
End == D("END", <<>>, <<>>, <<>>)
Ret == D("RET", <<>>, <<>>, <<>>)
JumpTo(op, rel, n, dyn) == D(op, <<n>>, dyn, [rel |-> rel])
Back == 63      \* -1
LoopEnd(n, off, k1, v1, k2, v2) ==
    D("LOOP_END", <<n>>, <<>>,
      [off |-> off, k1 |-> k1, v1 |-> v1, k2 |-> k2, v2 |-> v2])
Item(r, add) == [en |-> TRUE, r |-> r, add |-> add]
SetReg(vals, e) == D("SETREG", vals, <<>>, [e |-> e])
LdParam(a, k, mul, add) ==
    D("LDPARAM", <<a>>, <<>>,
      [fb |-> FALSE, reloc |-> TRUE, base |-> "b", k |-> k, mul |-> mul, add |-> add])

\* The list lies at 0, 4, 8, ...; the data words follow from address 32.
Image(list) ==
    [desc |-> [a \in {4 * (i - 1) : i \in 1 .. Len(list)} |-> list[a \div 4 + 1]],
     data |-> [a \in {32, 34} |-> a - 30]]

\* A subroutine with a fenced command, a masked fence after it.
CallList ==
    << LD, JumpTo("CALL", FALSE, 16, <<>>), Fence({"EX"}), End,
       Command("EX", <<3, 4>>, <<>>, TRUE, FALSE), Ret >>

\* A loop over a command with a PARAM-strided, relocated address.
LoopList ==
    << SetReg(<<8, 5>>, <<Item("b", FALSE), Item("p", TRUE)>>),
       Command("LD", <<1, 2>>, <<Slot(1, "p", TRUE), Slot(2, "q", FALSE)>>, FALSE, TRUE),
       LoopEnd(2, Back, "p", 3, "q", 1), EX, End >>

\* A jump to an address read from memory.
TableList ==
    << LD, LdParam(34, "p", 3, 8), JumpTo("JUMP", FALSE, 0, <<Slot(1, "p", TRUE)>>),
       D("NONE", <<>>, <<>>, <<>>), D("NONE", <<>>, <<>>, <<>>), EX, End >>

\* Nested loops; the inner one is entered anew in every outer iteration.
NestList ==
    << LD, LoopEnd(2, Back, "p", 1, "p", 1), LoopEnd(2, Back - 1, "q", 1, "p", 1), End >>

\* A fenced command; errors: a register that does not exist; RET without CALL.
BadList ==
    << LD, Command("EX", <<3, 4>>, <<>>, TRUE, FALSE), SetReg(<<1, 2>>, <<Item("q", FALSE), Item("r99", FALSE)>>), Ret >>

\* Twice: a second list is submitted after the first ended, failed or was
\* abandoned, perhaps after a mat_cfg.
From(addr, count) == [addr |-> addr, count |-> count]
Once(list) ==
    [desc |-> Image(list).desc, data |-> Image(list).data,
     starts |-> {From(0, 0), From(0, 2), From(2, 0)}, sets |-> {}, max |-> 1]
Twice(list) ==
    [Once(list) EXCEPT !.starts = {From(0, 0), From(4, 0)}, !.sets = {<<"b", 62>>}, !.max = 2]

MCImages ==
    [call |-> Once(CallList), loop |-> Once(LoopList), nest |-> Once(NestList),
     table |-> Once(TableList), bad |-> Twice(BadList)]

=============================================================================
