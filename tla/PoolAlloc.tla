------------------------------ MODULE PoolAlloc ------------------------------
(***************************************************************************)
(* The pool allocator of engine/core/alloc.c, called by one thread at a    *)
(* time (PoolRace has several).  The pool is a list of block headers, each *)
(* describing one payload obtained from malloc.  A freed block stays in    *)
(* the list with its free flag up, and a later request of exactly the same *)
(* size takes the first such block in list order.                          *)
(*                                                                         *)
(* Abstracted: the list is the sequence of its headers, oldest first (what *)
(* list_add and list_del keep it to, include/rune/util/list.h); the        *)
(* static head, of size 0 and never free, matches no search and is left    *)
(* out; the contents of a payload are one value.  A request of size 0      *)
(* returns NULL and changes nothing, so 0 is not a Size; every caller of   *)
(* rune_calloc asks for a fill of 0.                                       *)
(***************************************************************************)
EXTENDS Integers, Sequences

CONSTANTS
  Ptr,        \* payload addresses malloc can return
  Size,       \* request sizes
  Val,        \* values an owner can store in its allocation
  NULL,       \* the null pointer
  MaxBlocks   \* bound on the number of headers the pool may hold

ASSUME PoolAssumption ==
  /\ Size \subseteq Nat \ {0}
  /\ NULL \notin Ptr
  /\ {"raw", "zero"} \cap Val = {}

VARIABLES
  blocks,   \* the headers reachable from first_block, in list order
  husks,    \* headers whose payload malloc failed: in the list, never matched
  heap,     \* payloads obtained from malloc and not given back to it
  mem,      \* mem[p]: what payload p holds
  owned,    \* owned[p]: what the current owners of p asked for, taken
            \* together: 0 when nobody owns p, too much when two callers do
  blank,    \* payloads whose owner asked for them filled, and has not written
            \* since: a record of the calls, alloc.c keeps none
  fault     \* the undefined behaviour that ended the run, or "none"

vars == <<blocks, husks, heap, mem, owned, blank, fault>>

Content == Val \cup {"raw", "zero"}
Block == [ptr : Ptr, sz : Size, free : {0, 1}]

Init ==
  /\ blocks = <<>>
  /\ husks = 0
  /\ heap = {}
  /\ mem = [p \in Ptr |-> "raw"]
  /\ owned = [p \in Ptr |-> 0]
  /\ blank = {}
  /\ fault = "none"

Index == 1..Len(blocks)

First(S) == CHOOSE i \in S : \A j \in S : i <= j

\* Mutants of FreeBlocks: a search that forgets the free flag, and one that
\* stops before the last block of the list.
AnyBlocks(sz) == {i \in Index : blocks[i].sz = sz}
FreeBlocksButLast(sz) == {i \in 1..(Len(blocks) - 1) : blocks[i].sz = sz /\ blocks[i].free = 1}

\* The blocks _find_free_block would accept, and the one it returns.
FreeBlocks(sz) == {i \in Index : blocks[i].sz = sz /\ blocks[i].free = 1}
FindFreeBlock(sz) == First(FreeBlocks(sz))

\* The blocks _find_block would accept, and the one it returns.
BlocksOf(p) == {i \in Index : blocks[i].ptr = p}
FindBlock(p) == First(BlocksOf(p))

Room == Len(blocks) + husks < MaxBlocks

\* Mutant of NewBlock: the header's size is never set.
NewBlockUnsized(p, sz) == [ptr |-> p, sz |-> 0, free |-> 0]

NewBlock(p, sz) == [ptr |-> p, sz |-> sz, free |-> 0]

-----------------------------------------------------------------------------
\* The search that rune_alloc and rune_calloc do first: the block found is
\* returned as it is, whatever it holds, whichever of the two was called.
ReuseBlock(sz) ==
  /\ FreeBlocks(sz) # {}
  /\ LET i == FindFreeBlock(sz) IN
       /\ blocks' = [blocks EXCEPT ![i].free = 0]
       /\ owned' = [owned EXCEPT ![blocks[i].ptr] = @ + sz]
  /\ UNCHANGED <<husks, heap, mem, fault>>

\* _alloc_block without memory for the header returns NULL, and each of its
\* callers reads block->ptr through that NULL.
HeaderFails ==
  /\ Room
  /\ fault' = "null header"
  /\ UNCHANGED <<blocks, husks, heap, mem, owned, blank>>

\* _alloc_block gets its header, but the malloc of the payload fails.
PayloadFails ==
  /\ Room
  /\ husks' = husks + 1
  /\ UNCHANGED <<blocks, heap, mem, owned, blank>>

\* _alloc_block adds a header for a payload p of malloc's, which holds v.
GrowPool(p, sz, v) ==
  /\ Room
  /\ blocks' = Append(blocks, NewBlock(p, sz))
  /\ heap' = heap \cup {p}
  /\ mem' = [mem EXCEPT ![p] = v]
  /\ owned' = [owned EXCEPT ![p] = @ + sz]
  /\ UNCHANGED <<husks, fault>>

rune_alloc(sz) ==
  \/ ReuseBlock(sz) /\ UNCHANGED blank
  \/ /\ FreeBlocks(sz) = {}
     /\ \/ HeaderFails
        \/ PayloadFails /\ UNCHANGED fault      \* NULL is returned
        \/ \E p \in Ptr \ heap : GrowPool(p, sz, "raw") /\ UNCHANGED blank

\* Only a payload fresh from malloc is filled.
rune_calloc(sz) ==
  \/ /\ ReuseBlock(sz)
     /\ blank' = blank \cup {blocks[FindFreeBlock(sz)].ptr}
  \/ /\ FreeBlocks(sz) = {}
     /\ \/ HeaderFails
        \/ PayloadFails /\ fault' = "null payload"    \* memset through NULL
        \/ \E p \in Ptr \ heap : GrowPool(p, sz, "zero") /\ blank' = blank \cup {p}

\* _alloc_block finds a free block of the size and returns the block's payload
\* where its callers expect the header: new->ptr is then whatever the payload
\* starts with, and memcpy writes there.
ReallocOntoFreeBlock(sz) ==
  /\ FreeBlocks(sz) # {}
  /\ blocks' = [blocks EXCEPT ![FindFreeBlock(sz)].free = 0]
  /\ fault' = "wild pointer"
  /\ UNCHANGED <<husks, heap, mem, owned, blank>>

\* Mutant of ReallocMove: the old contents are not copied.
ReallocMoveNoCopy(q, p, sz) ==
  LET old == FindBlock(q) IN
  /\ heap' = heap \cup {p}
  /\ blocks' = Append([blocks EXCEPT ![old].free = 1], NewBlock(p, sz))
  /\ owned' = [owned EXCEPT ![q] = @ - blocks[old].sz, ![p] = @ + sz]
  /\ blank' = blank \ {q}
  /\ UNCHANGED <<husks, mem, fault>>

\* A new payload p for q.  memcpy copies the whole of the old payload.
ReallocMove(q, p, sz) ==
  LET old == FindBlock(q) IN
  /\ heap' = heap \cup {p}
  /\ IF blocks[old].sz > sz
     THEN /\ blocks' = Append(blocks, NewBlock(p, sz))
          /\ fault' = "overflow"
          /\ UNCHANGED <<mem, owned, blank>>
     ELSE /\ blocks' = Append([blocks EXCEPT ![old].free = 1], NewBlock(p, sz))
          /\ mem' = [mem EXCEPT ![p] = mem[q]]
          /\ owned' = [owned EXCEPT ![q] = @ - blocks[old].sz, ![p] = @ + sz]
          /\ blank' = blank \ {q}
          /\ UNCHANGED fault
  /\ UNCHANGED husks

rune_realloc(q, sz) ==
  \/ q = NULL /\ rune_alloc(sz)
  \/ /\ q # NULL /\ owned[q] # 0
     /\ \/ ReallocOntoFreeBlock(sz)
        \/ FreeBlocks(sz) = {} /\ HeaderFails
        \/ FreeBlocks(sz) = {} /\ PayloadFails /\ fault' = "null payload"
        \/ /\ FreeBlocks(sz) = {} /\ Room
           /\ \E p \in Ptr \ heap : ReallocMove(q, p, sz)

\* The caller passes a pointer it once got.  A block already free is left
\* alone; a pointer no header describes any more is looked up all the same.
rune_free(p) ==
  /\ p \in heap
  /\ \/ /\ BlocksOf(p) # {}
        /\ IF blocks[FindBlock(p)].free = 1
           THEN UNCHANGED vars
           ELSE /\ blocks' = [blocks EXCEPT ![FindBlock(p)].free = 1]
                /\ owned' = [owned EXCEPT ![p] = @ - blocks[FindBlock(p)].sz]
                /\ blank' = blank \ {p}
                /\ UNCHANGED <<husks, heap, mem, fault>>
     \/ /\ BlocksOf(p) = {}
        /\ fault' = "unknown pointer"
        /\ UNCHANGED <<blocks, husks, heap, mem, owned, blank>>

\* Every header but those without a payload is unlinked and freed.  The
\* payloads are not: free(block) is the only release in the loop.  For every
\* header _free_block reads its size once more, to log it, after free(block):
\* the run goes on with whatever was read, or it ends there.
rune_free_all ==
  /\ blocks' = <<>>
  /\ owned' = [p \in Ptr |-> 0]
  /\ blank' = {}
  /\ \/ UNCHANGED fault
     \/ blocks # <<>> /\ fault' = "freed header"
  /\ UNCHANGED <<husks, heap, mem>>

\* Between two calls an owner writes into its allocation.
OwnerWrites(p, v) ==
  /\ owned[p] # 0
  /\ mem' = [mem EXCEPT ![p] = v]
  /\ blank' = blank \ {p}
  /\ UNCHANGED <<blocks, husks, heap, owned, fault>>

Next ==
  /\ fault = "none"
  /\ \/ \E sz \in Size : rune_alloc(sz)
     \/ \E sz \in Size : rune_calloc(sz)
     \/ \E q \in Ptr \cup {NULL}, sz \in Size : rune_realloc(q, sz)
     \/ \E p \in Ptr : rune_free(p)
     \/ rune_free_all
     \/ \E p \in Ptr, v \in Val : OwnerWrites(p, v)

Spec == Init /\ [][Next]_vars

-----------------------------------------------------------------------------
TypeOK ==
  /\ blocks \in Seq(Block)
  /\ husks \in Nat
  /\ heap \subseteq Ptr
  /\ mem \in [Ptr -> Content]
  /\ owned \in [Ptr -> Nat]
  /\ blank \subseteq Ptr
  /\ fault \in {"none", "null header", "null payload", "wild pointer",
                "overflow", "unknown pointer", "freed header"}

\* The pool's books agree with its callers': as long as no undefined behaviour
\* ended the run, the blocks in use are exactly the allocations somebody owns,
\* each with the size its owner asked for, and no two headers describe the
\* same payload.  So no payload has two owners, none is lost to a reuse, a
\* resize or a double free, and none is held by nobody (alloc.c:100-160).
LedgerExact ==
  fault = "none" =>
    /\ \A i, j \in Index : blocks[i].ptr = blocks[j].ptr => i = j
    /\ \A i \in Index : owned[blocks[i].ptr] =
                         IF blocks[i].free = 1 THEN 0 ELSE blocks[i].sz
    /\ \A p \in Ptr : owned[p] # 0 => BlocksOf(p) # {}

\* What callers see of the payloads: the contents of those they own.
Seen == [p \in Ptr |-> IF owned[p] = 0 THEN "raw" ELSE mem[p]]

Contract == INSTANCE PoolContract WITH Junk <- "raw", Zero <- "zero", data <- Seen, used <- heap

\* Seen through its callers' allocations and their contents, the allocator is
\* the one of include/rune/core/alloc.h but for the fill of memory used before:
\* a pointer handed out is in nobody's hands, only its owner changes its
\* contents, a resize keeps them, and rune_calloc fills what nobody ever had.
ImplementsContract == Contract!Spec

-----------------------------------------------------------------------------
\* What alloc.h says of a corner case, and the code does not do.

\* alloc.h:57: rune_realloc returns a pointer to the block, or NULL.  Its
\* result never comes from reading a payload as if it were a header.
NoWildPointer == fault # "wild pointer"
=============================================================================
