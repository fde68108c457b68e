-------------------------------- MODULE SaArena --------------------------------
(***************************************************************************)
(* The arena of compiler/runtime/sa/sa_context.c: a first-fit allocator of *)
(* the memory the device sees.  Every block starts with a header in the    *)
(* heap itself, the blocks follow each other from heap_begin to heap_end;  *)
(* a free merges forward only, an allocation merges the free runs it       *)
(* passes.                                                                 *)
(*                                                                         *)
(* Sizes are in units of 16 bytes, a header is one unit.  A unit of the    *)
(* heap holds a header or a byte pattern of the client it was given to;    *)
(* what free memory holds is left out.  IREE's aligned allocations keep,   *)
(* and free, a pointer some units into the block (pad).                    *)
(***************************************************************************)
EXTENDS Integers, FiniteSets, SequencesExt

CONSTANTS
    Client,     \* whoever holds allocations, one each
    HeapSize,   \* heap_end - heap_begin
    Sizes,      \* the requests
    MaxPad      \* the alignment a client may ask for on top

ASSUME ArenaAssumption ==
    /\ HeapSize \in Nat \ {0} /\ Sizes \subseteq Nat \ {0} /\ MaxPad \in Nat

VARIABLES
    heap,       \* the memory from heap_begin to heap_end
    heap_used,  \* bytes in use, with the headers
    own,        \* client -> what it holds
    refused     \* the request the last allocation refused (0: none)

arenaVars == <<heap, heap_used, own, refused>>

Unit == 0 .. HeapSize - 1
NoClient == "free"
Nothing == [ptr |-> 0, n |-> 0]

Header(size, used) == [size |-> size, used |-> used, data |-> NoClient]
Data(c) == [size |-> 0, used |-> FALSE, data |-> c]

-----------------------------------------------------------------------------
(* The blocks *)

\* sa_next, walked from heap_begin: where the headers are.
Heads(m) ==
    LET at[k \in 0 .. HeapSize] ==
          IF k = 0 THEN 0
          ELSE LET b == at[k - 1] IN IF b < HeapSize THEN b + m[b].size ELSE b
    IN  {at[k] : k \in 0 .. HeapSize} \cap Unit

\* The free blocks, each with the end of the run of free blocks from it.
Ends(m) ==
    LET heads == Heads(m)
        used == {h \in heads : m[h].used}
        EndOf(b) == Min({h \in used : h > b} \cup {HeapSize})
    IN  {[at |-> b, end |-> EndOf(b)] : b \in heads \ used}

\* (mutant) the free blocks, none merged with the next
FreeRuns_Apart(m) == {[f EXCEPT !.end = f.at + m[f.at].size] : f \in Ends(m)}

\* The free runs the walk of an allocation meets: each from its first block.
FreeRuns(m) ==
    LET free == Ends(m)
    IN  {f \in free : \A g \in free : g.at + m[g.at].size # f.at}

\* (mutant) the rest of a split starts one unit early
Split_Early(m, b, need) ==
    IF m[b].size - need >= 4
    THEN [m EXCEPT ![b] = Header(need, TRUE),
                   ![b + need - 1] = Header(m[b].size - need + 1, FALSE)]
    ELSE [m EXCEPT ![b].used = TRUE]

\* Block b cut to need, if 64 bytes or more are left.
Split(m, b, need) ==
    IF m[b].size - need >= 4
    THEN [m EXCEPT ![b] = Header(need, TRUE),
                   ![b + need] = Header(m[b].size - need, FALSE)]
    ELSE [m EXCEPT ![b].used = TRUE]

\* The free runs R, each one block.
Merged(m, R) ==
    LET at == {r.at : r \in R}
        Size(u) == (CHOOSE r \in R : r.at = u).end - u
    IN  [u \in Unit |-> IF u \in at THEN Header(Size(u), FALSE) ELSE m[u]]

\* sa_arena_alloc: the block it takes (none: -1) and the heap afterwards
Alloc(m, need) ==
    LET runs == FreeRuns(m)
        fit == {r.at : r \in {f \in runs : f.end - f.at >= need}}
        first == Min(fit)
    IN  IF fit = {} THEN [block |-> -1, heap |-> Merged(m, runs)]
        ELSE [block |-> first,
              heap |-> Split(Merged(m, {r \in runs : r.at <= first}), first, need)]

\* sa_arena_block: the block holding a pointer; not in use or foreign: -1
Block(m, p) ==
    LET in == {b \in Heads(m) : b < p /\ p < b + m[b].size /\ m[b].used}
    IN  IF in = {} THEN -1 ELSE Min(in)

\* sa_arena_free
Freed(m, b) ==
    LET free == Ends([m EXCEPT ![b].used = FALSE])
    IN  Merged(m, {f \in free : f.at = b})

\* A client fills what it holds.
Filled(m, c, ptr, n) == [u \in Unit |-> IF u \in ptr .. ptr + n - 1 THEN Data(c) ELSE m[u]]

\* What no header and no client needs is left out.
Forget(m) ==
    LET heads == Heads(m)
        held == UNION {own'[c].ptr .. own'[c].ptr + own'[c].n - 1 : c \in Client}
    IN  [u \in Unit |-> IF u \in heads \cup held THEN m[u] ELSE Data(NoClient)]

-----------------------------------------------------------------------------
(* The operations (sa_arena_ctl) *)

ArenaInit ==
    /\ heap = [u \in Unit |-> IF u = 0 THEN Header(HeapSize, FALSE) ELSE Data(NoClient)]
    /\ heap_used = 0
    /\ own = [c \in Client |-> Nothing]
    /\ refused = 0

\* MALLOC and CALLOC of n units with room for the alignment
Malloc(c, n, pad, off) ==
    LET a == Alloc(heap, n + pad + 1)
        b == a.block
        m == a.heap
    IN  /\ own[c] = Nothing
        /\ IF b = -1
           THEN /\ refused' = n + pad
                /\ UNCHANGED <<own, heap_used>>
                /\ heap' = Forget(m)
           ELSE /\ own' = [own EXCEPT ![c] = [ptr |-> b + 1 + off, n |-> n]]
                /\ heap_used' = heap_used + m[b].size
                /\ refused' = 0
                /\ heap' = Forget(Filled(m, c, b + 1 + off, n))

\* The bytes from a pointer to the end of its block
Have(m, b, p) == b + m[b].size - p

Copied(m, from, to, n) ==
    [u \in Unit |-> IF u \in to .. to + n - 1 THEN m[from + (u - to)] ELSE m[u]]

\* REALLOC: in place when the block has the room, else moved.  The client
\* then fills what it got on top.
Realloc(c, n) ==
    LET p == own[c].ptr
        ob == Block(heap, p)
        have == Have(heap, ob, p)
        a == Alloc(heap, n + 1)
        b == a.block
        m == a.heap
        Grown(w, q) == Filled(w, c, q + own[c].n, n - own[c].n)
    IN  /\ own[c] # Nothing /\ n # own[c].n
        /\ CASE have >= n ->
                  /\ own' = [own EXCEPT ![c].n = n]
                  /\ refused' = 0
                  /\ UNCHANGED heap_used
                  /\ heap' = Forget(Grown(heap, p))
             [] have < n /\ b = -1 ->
                  /\ refused' = n
                  /\ UNCHANGED <<own, heap_used>>
                  /\ heap' = Forget(m)
             [] OTHER ->
                  /\ own' = [own EXCEPT ![c] = [ptr |-> b + 1, n |-> n]]
                  /\ heap_used' = heap_used + m[b].size - heap[ob].size
                  /\ refused' = 0
                  /\ heap' = Forget(Grown(Freed(Copied(m, p, b + 1, have), ob), b + 1))

\* FREE of the pointer the client kept, wherever it is in the block
Release(c) ==
    LET b == Block(heap, own[c].ptr)
    IN  /\ own[c] # Nothing
        /\ own' = [own EXCEPT ![c] = Nothing]
        /\ heap_used' = heap_used - heap[b].size
        /\ refused' = 0
        /\ heap' = Forget(Freed(heap, b))

ArenaNext ==
    \E c \in Client :
        \/ \E n \in Sizes, pad \in 0 .. MaxPad : \E off \in 0 .. pad : Malloc(c, n, pad, off)
        \/ \E n \in Sizes : Realloc(c, n)
        \/ Release(c)

ArenaSpec == ArenaInit /\ [][ArenaNext]_arenaVars

-----------------------------------------------------------------------------
\* The units of the blocks in use
Used(m) == UNION {b .. b + m[b].size - 1 : b \in {h \in Heads(m) : m[h].used}}

(***************************************************************************)
(* Whoever holds memory finds in it what it wrote, also after a realloc    *)
(* moved it, and no client writes over a header: the blocks cover the heap *)
(* end to end.  The bytes in use (heap_used, which the errors and the statistics report)    *)
(* are those of the blocks in use.                                         *)
(***************************************************************************)
Intact ==
    /\ \A c \in Client : \A u \in own[c].ptr .. own[c].ptr + own[c].n - 1 :
          heap[u] = Data(c)
    /\ UNION {b .. b + heap[b].size - 1 : b \in Heads(heap)} = Unit
    /\ heap_used = Cardinality(Used(heap))

(***************************************************************************)
(* "out of device memory" is true: the allocator refuses a request only    *)
(* when no stretch between the blocks in use would hold it, although a     *)
(* free leaves neighbouring free blocks apart (it merges forward only).    *)
(***************************************************************************)
RefusedFull ==
    refused # 0 => \A u \in 0 .. HeapSize - refused - 1 : (u .. u + refused) \cap Used(heap) # {}
=============================================================================
