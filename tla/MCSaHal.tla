------------------------------- MODULE MCSaHal -------------------------------
(* Dispatches over five cells of DDR: a matrix product with a weight       *)
(* prefix, its producer and consumer, an update of the weights, and an     *)
(* element-wise pair whose ranges overlap without being equal.             *)
EXTENDS SaHal

D(count, prefix, head, spadB, prefixReads, reads, writes) ==
  [count |-> count, prefix |-> prefix, head |-> head, spadB |-> spadB,
   prefixReads |-> prefixReads, reads |-> reads, writes |-> writes]

W == {1, 2}     \* weights
X == {3, 4}     \* activations
Y == {4, 5}     \* a buffer that shares a cell with them

MCDispatch ==
  { D(24, TRUE, FALSE, TRUE,  {W}, {W, X}, {Y}),   \* product, hoisted weights
    D(3, TRUE,  FALSE, TRUE,  {W}, {W}, {X}),      \* a second product
    D(2, FALSE, TRUE,  FALSE, {},  {X}, {{5}}),    \* element-wise, with a head
    D(1, FALSE, TRUE,  FALSE, {},  {{5}}, {{3}}),  \* the other way
    D(1, FALSE, FALSE, FALSE, {},  {}, {W}),       \* a store to the weights
    D(0, FALSE, FALSE, TRUE,  {},  {Y}, {Y}) }     \* touches SPAD_B, in place

X_(d, rv_only, embedded, mapped, named) ==
  [d |-> d, rv_only |-> rv_only, embedded |-> embedded, mapped |-> mapped, named |-> named]

(* An export of each kind: a list only, with code in either form, RISC-V   *)
(* code only.                                                              *)
Lists == {X_(d, FALSE, FALSE, FALSE, FALSE) : d \in MCDispatch}
Small == CHOOSE d \in MCDispatch : d.count = 1 /\ d.head
Plain == X_(Small, FALSE, FALSE, FALSE, FALSE)
Coded == {X_(Small, FALSE, TRUE, FALSE, TRUE), X_(Small, FALSE, TRUE, TRUE, FALSE)}
RvOnly == X_(Small, TRUE, TRUE, TRUE, FALSE)
MCExport == Lists \cup {Plain, RvOnly} \cup Coded

W_(immediate, board, dir, only, fails, exports, host, records, cmds, cbs) ==
  [immediate |-> immediate, board |-> board, rv |-> dir, only |-> only, fails |-> fails,
   exports |-> exports, host |-> host, records |-> records, allocates |-> cbs = 0, cmds |-> cmds, issues |-> 4 * cbs, cbs |-> cbs]

Some == {Plain, RvOnly, X_(Small, FALSE, TRUE, TRUE, FALSE)}

(* Any list of up to four dispatches; what fails, in every environment;    *)
(* the names of SA_RV_ONLY; recordings; allocations.                       *)
MCWorld ==
  {W_(FALSE, TRUE, "none", "none", {}, Lists, FALSE, FALSE, 7, 1)}
    \cup {W_(e[1], e[2], e[3], "none", {"list", "call", "host", "load"}, Some, TRUE, FALSE, 3, 2) :
            e \in {<<FALSE, TRUE, "dir">>, <<FALSE, FALSE, "dir">>, <<TRUE, TRUE, "embedded">>, <<FALSE, TRUE, "embedded">>}}
    \cup {W_(FALSE, TRUE, d, only, {"list"}, {Plain, RvOnly} \cup Coded, FALSE, FALSE, 3, 1) :
            d \in {"none", "embedded"}, only \in {"rv_only", "names"}}
    \cup {W_(im, TRUE, "embedded", "none", {"list", "memory"}, {Plain, RvOnly}, TRUE, TRUE, 3, 2) : im \in BOOLEAN}
    \cup {W_(FALSE, TRUE, "none", "none", {}, {Plain}, FALSE, TRUE, 6, 2)}
    \cup {W_(FALSE, TRUE, "none", "none", {}, {}, FALSE, FALSE, 0, 0)}

=============================================================================
