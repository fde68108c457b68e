------------------------------- MODULE SaBatch -------------------------------
(***************************************************************************)
(* The batch of compiler/runtime/sa/sa_context.c: the dispatches of a      *)
(* command buffer are recorded (sa_context_batch_add, _barrier) and become *)
(* one descriptor list when the batch is flushed.  The device does not     *)
(* track DDR, so the list has a FENCE where a barrier separates            *)
(* conflicting dispatches.  The weight loads a dispatch starts with (its   *)
(* prefix) are moved into an earlier dispatch where that is safe.          *)
(*                                                                         *)
(* A range of DDR is a set of cells; two ranges overlap when they share    *)
(* one.  A descriptor list is the sequence of its parts; a part stands for *)
(* |size| descriptors.                                                     *)
(***************************************************************************)
EXTENDS Naturals, FiniteSets, SequencesExt

CONSTANTS
  Dispatch,     \* the dispatches a command buffer may contain (sa_dispatch_t)
  EntryCap,     \* entries of a batch (entry_capacity, 1024)
  DescCap,      \* descriptors of the batch list (batch_capacity, 8192)
  SetCap        \* ranges of a range set (sa_range_set_t, 256)

(* sa_dispatch_t.  The prefix loads into SPAD_B what the body multiplies   *)
(* with; only templates that do not touch SPAD_B have a head               *)
(* (SahwPasses.cpp, sahw-split-head).                                      *)
ASSUME DispatchAssumption ==
  \A d \in Dispatch :
    /\ d.count \in 0..24
    /\ d.prefix \in BOOLEAN /\ d.head \in BOOLEAN /\ d.spadB \in BOOLEAN
    /\ d.prefix => d.spadB
    /\ d.head => ~d.spadB
    /\ IsFiniteSet(d.reads) /\ IsFiniteSet(d.writes)
    /\ d.prefixReads \subseteq d.reads
    /\ d.prefixReads # {} => d.prefix

ASSUME CapAssumption ==
  /\ EntryCap \in Nat \ {0} /\ SetCap \in Nat
  /\ DescCap \in Nat /\ DescCap >= 16

VARIABLES
  entries,      \* the recorded dispatches, each with "a barrier before it"
  descs,        \* entry_descriptors: what their list may need
  fence,        \* batch_fence: a barrier before the next dispatch
  list          \* the list that runs (empty: none)

vars == <<entries, descs, fence, list>>

Entry == [d : Dispatch, barrier : BOOLEAN]

-----------------------------------------------------------------------------
(* Range sets (sa_range_set_t): a set that overflows stands for all of DDR *)

NoRanges == [r |-> {}, n |-> 0, all |-> FALSE]

Collides(A, B) == \E a \in A, b \in B : a \cap b # {}

SetAdd(s, R) ==
  LET n == s.n + Cardinality(R) IN
  IF s.all \/ n > SetCap THEN [s EXCEPT !.all = TRUE]
                         ELSE [s EXCEPT !.r = @ \cup R, !.n = n]

SetOverlaps(s, R) == R # {} /\ (s.all \/ Collides(s.r, R))

-----------------------------------------------------------------------------
(* Where the prefixes run *)

(* A plausible bug: a prefix moved past a dispatch that touches SPAD_B *)
Hosts_PastSpadB(e, guest, k) == {j \in 1..(k - 1) : e[j].d.head /\ guest[j] = 0}

(* The dispatches before k that may host its prefix: with a head that has  *)
(* no guest, and nothing that touches SPAD_B from there on                 *)
Hosts(e, guest, k) ==
  {j \in 1..(k - 1) : /\ e[j].d.head
                      /\ guest[j] = 0
                      /\ \A l \in j..(k - 1) : ~e[l].d.spadB}

(* What the dispatches of the list write *)
WrittenAll(e) ==
  LET written[k \in 0..Len(e)] ==
        IF k = 0 THEN NoRanges ELSE SetAdd(written[k - 1], e[k].d.writes)
  IN written[Len(e)]

(* A prefix moves only if no dispatch of the list writes what it reads     *)
MayMove(e, k) ==
  e[k].d.prefix /\ ~SetOverlaps(WrittenAll(e), e[k].d.prefixReads)

(* The prefix of k moves into the first dispatch that may host it *)
Place(e, guest, k) ==
  IF MayMove(e, k) /\ Hosts(e, guest, k) # {}
  THEN [guest EXCEPT ![Min(Hosts(e, guest, k))] = k]
  ELSE guest

(* guest[j]: the dispatch whose prefix runs inside j (0: none)             *)
Guests(e) ==
  LET placed[k \in 0..Len(e)] ==
        IF k = 0 THEN [j \in 1..Len(e) |-> 0] ELSE Place(e, placed[k - 1], k)
  IN placed[Len(e)]

-----------------------------------------------------------------------------
(* The list *)

Part(op, i, size) == [op |-> op, of |-> i, size |-> size, mask |-> {}]

(* SETREGs of n registers (three each) and the CALLs of a template         *)
RegsPart(i, n) == IF n = 0 THEN <<>> ELSE <<Part("regs", i, (n + 2) \div 3)>>
PrefixPart(i)  == <<Part("prefix", i, 2)>>      \* SETREG BASE15, CALL
HeadPart(i)    == <<Part("head", i, 1)>>
BodyPart(i)    == <<Part("body", i, 1)>>
FencePart(M)   == <<[op |-> "fence", of |-> 0, size |-> 1, mask |-> M]>>
EndPart       == <<Part("end", 0, 1)>>

(* The engines a FENCE at a barrier before d waits for                     *)
FenceMask(s, d) ==
  {e \in {"ST"} : SetOverlaps(s.writes, d.reads) \/ SetOverlaps(s.writes, d.writes)}
    \cup {e \in {"LD"} : SetOverlaps(s.reads, d.writes)}

(* A plausible bug: a FENCE for one engine taken for a FENCE of both *)
Pass_Both(s, M) ==
  IF M = {} THEN s ELSE [s EXCEPT !.writes = NoRanges, !.reads = NoRanges]

(* What may still be in flight after a FENCE                               *)
Pass(s, M) ==
  [s EXCEPT !.writes = IF "ST" \in M THEN NoRanges ELSE @,
            !.reads  = IF "LD" \in M THEN NoRanges ELSE @]

(* An unhosted prefix goes before the FENCE of its own dispatch when no    *)
(* store in flight overlaps it                                             *)
Early(s, d, hosted, M) ==
  M # {} /\ d.prefix /\ ~hosted /\ ~SetOverlaps(s.writes, d.prefixReads)

(* One dispatch appended to the list being built.  s.reads and s.writes    *)
(* are the ranges loaded and stored since the last FENCE for them.         *)
Emit(e, guest, s, i) ==
  LET d      == e[i].d
      hosted == \E j \in DOMAIN e : guest[j] = i
      M      == IF e[i].barrier /\ i > 1 THEN FenceMask(s, d) ELSE {}
      early  == Early(s, d, hosted, M)
      s1     == IF early THEN [s EXCEPT !.reads = SetAdd(@, d.prefixReads)] ELSE s
      s2     == Pass(s1, M)
      visit  == d.head /\ guest[i] # 0
      s3     == IF visit THEN [s2 EXCEPT !.reads = SetAdd(@, e[guest[i]].d.prefixReads)]
                         ELSE s2
  IN [list |-> s.list
        \o (IF early THEN PrefixPart(i) ELSE <<>>)
        \o (IF M # {} THEN FencePart(M) ELSE <<>>)
        \o RegsPart(i, d.count)
        \o (IF d.prefix /\ ~hosted /\ ~early THEN PrefixPart(i) ELSE <<>>)
        \o (IF d.head THEN HeadPart(i) ELSE <<>>)
        \o (IF visit THEN PrefixPart(guest[i]) ELSE <<>>)
        \o BodyPart(i),
      reads  |-> SetAdd(s3.reads, d.reads),
      writes |-> SetAdd(s3.writes, d.writes)]

Build(e) ==
  LET guest == Guests(e)
      start == [list |-> <<>>, reads |-> NoRanges, writes |-> NoRanges]
      built[k \in 0..Len(e)] ==
        IF k = 0 THEN start ELSE Emit(e, guest, built[k - 1], k)
  IN built[Len(e)].list \o EndPart

-----------------------------------------------------------------------------
(* The operations *)

(* A plausible bug: the hosted prefix and the head not counted *)
Need_NoGuest(d) == (d.count + 3) \div 3 + 1 + 1

(* Descriptors dispatch d may need: SETREGs, FENCE, CALLs, a hosted prefix *)
Need(d) == (d.count + 3) \div 3 + 1 + 3 + 2

BatchInit == entries = <<>> /\ descs = 0 /\ fence = FALSE /\ list = <<>>

Full(d) == Len(entries) = EntryCap \/ descs + Need(d) + 1 > DescCap

(* sa_context_batch_add.  A full batch is flushed first (Submit, Return).  *)
Add(d) ==
  /\ list = <<>>
  /\ ~Full(d)
  /\ entries' = Append(entries, [d |-> d, barrier |-> fence])
  /\ descs' = descs + Need(d)
  /\ fence' = FALSE
  /\ UNCHANGED list

(* sa_context_batch_barrier: an execution barrier or a wait for events     *)
Barrier ==
  /\ list = <<>>
  /\ fence' = TRUE
  /\ UNCHANGED <<entries, descs, list>>

(* sa_context_batch_flush: called by begin, end and each command the host  *)
(* runs (fill, update, copy, host dispatch, generated code), and by a full *)
(* add.  The list runs to its end before the call returns.                 *)
Submit ==
  /\ list = <<>> /\ entries # <<>>
  /\ list' = Build(entries)
  /\ UNCHANGED <<entries, descs, fence>>

(* The transport returned, with whatever status                            *)
Return ==
  /\ list # <<>>
  /\ entries' = <<>> /\ descs' = 0 /\ fence' = FALSE /\ list' = <<>>

FlushEmpty ==
  /\ list = <<>> /\ entries = <<>>
  /\ fence' = FALSE
  /\ UNCHANGED <<entries, descs, list>>

-----------------------------------------------------------------------------
(* Properties *)

(* The parts that run on the device, and what they load and store.  A head *)
(* has loads only; the body may load and store anything of its dispatch.   *)
Runs(p) == list[p].op \in {"prefix", "head", "body"}
Loads(p) == LET d == entries[list[p].of].d IN
            IF list[p].op = "prefix" THEN d.prefixReads ELSE d.reads
Stores(p) == IF list[p].op = "body" THEN entries[list[p].of].d.writes ELSE {}

PartsOf(i) == {p \in DOMAIN list : Runs(p) /\ list[p].of = i}

(* A FENCE for engine e between parts p and q                              *)
Fenced(p, q, e) == \E f \in (p + 1)..(q - 1) : list[f].op = "fence" /\ e \in list[f].mask

(* Whatever dispatch i does to DDR, k sees in the order of the program     *)
InDdrOrder(i, k) ==
  \A p \in PartsOf(i), q \in PartsOf(k) :
    /\ Collides(Stores(p), Loads(q) \cup Stores(q)) => Fenced(p, q, "ST")
    /\ Collides(Loads(p), Stores(q)) => Fenced(p, q, "LD")

(* The descriptors of a list *)
Descriptors(l) ==
  LET sum[k \in 0..Len(l)] == IF k = 0 THEN 0 ELSE sum[k - 1] + l[k].size
  IN sum[Len(l)]

(* The list built at a flush fits the batch list, whatever prefixes it     *)
(* hosts: sa_entry_descriptors, decided before the placement is known, is  *)
(* an upper bound.                                                         *)
ListFits == Descriptors(list) <= DescCap

(* sa_context.h: "the next dispatch depends on the previous ones through   *)
(* DDR".  A dispatch with a barrier right before it is ordered after every *)
(* conflicting dispatch of the list, also where its prefix was moved and   *)
(* where an earlier FENCE made this one unnecessary (sa_batch_build).      *)
NextInOrder ==
  list # <<>> =>
    \A k \in DOMAIN entries : entries[k].barrier =>
      \A i \in 1..(k - 1) : InDdrOrder(i, k)

(* A dispatch computes with the weights its own prefix loaded: the prefix  *)
(* runs once, before the body, nothing between them touches SPAD_B, and no *)
(* part moved out of the order of the dispatches but prefixes              *)
(* (sa_batch_build, "where the prefixes run").                             *)
OwnWeights ==
  list # <<>> =>
    /\ \A k \in DOMAIN entries :
         LET pre  == {p \in PartsOf(k) : list[p].op = "prefix"}
             body == CHOOSE p \in PartsOf(k) : list[p].op = "body"
         IN /\ Cardinality(pre) = IF entries[k].d.prefix THEN 1 ELSE 0
            /\ \A p \in pre :
                 /\ p < body
                 /\ \A q \in (p + 1)..(body - 1) :
                      Runs(q) => /\ list[q].op # "prefix"
                                 /\ list[q].of = k \/ ~entries[list[q].of].d.spadB
    /\ \A p, q \in DOMAIN list :
         p < q /\ Runs(p) /\ Runs(q) /\ list[p].op # "prefix" /\ list[q].op # "prefix"
           => list[p].of <= list[q].of
=============================================================================
