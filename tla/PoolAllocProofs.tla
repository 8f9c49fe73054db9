--------------------------- MODULE PoolAllocProofs ---------------------------
(***************************************************************************)
(* What holds of PoolAlloc for any payload addresses, sizes, contents and  *)
(* bound on the pool: its books stay exact (engine/core/alloc.c:88-178),   *)
(* it implements PoolContract, and with the history variable of            *)
(* MCPoolAlloc the pool is never larger than its callers once made it.     *)
(*                                                                         *)
(* LedgerExact is not inductive alone: a payload fresh from malloc is      *)
(* nobody's only because every payload the list or an owner knows is still *)
(* malloc's to keep.  PayloadsFromHeap says so.                            *)
(***************************************************************************)
EXTENDS MCPoolAlloc, FiniteSetTheorems, SequenceTheorems, TLAPS

\* The payload of every header was obtained from malloc and not given back.
PayloadsFromHeap == \A i \in Index : blocks[i].ptr \in heap

IInv == TypeOK /\ LedgerExact /\ PayloadsFromHeap

\* The books of a list bs, payloads hp and owners ow: what IInv says of the
\* three while no undefined behaviour has happened.
Books(bs, hp, ow) ==
  /\ bs \in Seq(Block)
  /\ hp \subseteq Ptr
  /\ ow \in [Ptr -> Nat]
  /\ \A i, j \in 1..Len(bs) : bs[i].ptr = bs[j].ptr => i = j
  /\ \A i \in 1..Len(bs) : ow[bs[i].ptr] = IF bs[i].free = 1 THEN 0 ELSE bs[i].sz
  /\ \A p \in Ptr : ow[p] # 0 => \E i \in 1..Len(bs) : bs[i].ptr = p
  /\ \A i \in 1..Len(bs) : bs[i].ptr \in hp

-----------------------------------------------------------------------------
\* The first element of a set of indices is in it and precedes the others:
\* _find_free_block and _find_block return a block they would accept.
LEMMA FirstIsLeast ==
  ASSUME NEW S, S \subseteq Nat, S # {}
  PROVE  First(S) \in S /\ \A j \in S : First(S) <= j
<1> DEFINE Upto == {0..i : i \in S}
<1>1. Upto \subseteq FiniteSubsetsOf(Nat)
  <2> SUFFICES ASSUME NEW i \in S PROVE 0..i \in FiniteSubsetsOf(Nat)
    OBVIOUS
  <2>1. 0..i \subseteq Nat
    OBVIOUS
  <2>2. IsFiniteSet(0..i)
    BY FS_Interval
  <2> QED BY <2>1, <2>2 DEF FiniteSubsetsOf
<1>2. PICK T \in Upto : \A U \in Upto : <<U, T>> \notin StrictSubsetOrdering(Nat)
  <2> HIDE DEF Upto
  <2>1. Upto # {}
    BY DEF Upto
  <2>2. IsWellFoundedOn(StrictSubsetOrdering(Nat), FiniteSubsetsOf(Nat))
    BY FS_StrictSubsetOrderingWellFounded
  <2> QED BY <1>1, <2>1, <2>2, WFMin
<1>3. PICK i \in S : T = 0..i
  BY <1>2
<1>4. ASSUME NEW j \in S PROVE i <= j
  <2>1. ~ (0..j \subseteq 0..i /\ 0..j # 0..i)
    <3>1. <<0..j, 0..i>> \notin StrictSubsetOrdering(Nat)
      BY <1>2, <1>3
    <3> QED BY <3>1 DEF StrictSubsetOrdering
  <2>2. i \in 0..i /\ (j < i => i \notin 0..j)
    OBVIOUS
  <2> QED BY <2>1, <2>2
<1> QED BY <1>4 DEF First

\* A free block that is found is in the list, is free and has the size.
LEMMA FoundFreeBlock ==
  ASSUME TypeOK, NEW sz \in Size, FreeBlocks(sz) # {}
  PROVE  /\ FindFreeBlock(sz) \in Index
         /\ blocks[FindFreeBlock(sz)].sz = sz
         /\ blocks[FindFreeBlock(sz)].free = 1
<1>1. FreeBlocks(sz) \subseteq Nat
  BY DEF FreeBlocks, Index
<1>2. FindFreeBlock(sz) \in FreeBlocks(sz)
  BY <1>1, FirstIsLeast DEF FindFreeBlock
<1> QED BY <1>2 DEF FreeBlocks

\* A block that is found for a payload is in the list and describes it.
LEMMA FoundBlock ==
  ASSUME TypeOK, NEW p, BlocksOf(p) # {}
  PROVE  FindBlock(p) \in Index /\ blocks[FindBlock(p)].ptr = p
<1>1. BlocksOf(p) \subseteq Nat
  BY DEF BlocksOf, Index
<1>2. FindBlock(p) \in BlocksOf(p)
  BY <1>1, FirstIsLeast DEF FindBlock
<1> QED BY <1>2 DEF BlocksOf

\* The headers of a list describe payloads, with the size of a request.
LEMMA HeaderFields ==
  ASSUME NEW bs \in Seq(Block), NEW j \in 1..Len(bs)
  PROVE  bs[j].ptr \in Ptr /\ bs[j].sz \in Nat \ {0}
<1>1. bs[j] \in Block
  BY ElementOfSeq
<1> QED BY <1>1, PoolAssumption DEF Block

\* Setting a free flag changes nothing else in the list.
LEMMA FlagSet ==
  ASSUME NEW bs \in Seq(Block), NEW i \in 1..Len(bs), NEW b \in {0, 1},
         NEW new, new = [bs EXCEPT ![i].free = b]
  PROVE  /\ new \in Seq(Block)
         /\ Len(new) = Len(bs)
         /\ \A j \in 1..Len(bs) :
              /\ new[j].ptr = bs[j].ptr /\ new[j].sz = bs[j].sz
              /\ new[j].free = IF j = i THEN b ELSE bs[j].free
<1>1. bs[i] \in Block
  BY ElementOfSeq
<1>2. [bs[i] EXCEPT !.free = b] \in Block
  BY <1>1 DEF Block
<1>3. new = [bs EXCEPT ![i] = [bs[i] EXCEPT !.free = b]]
  OBVIOUS
<1>4. \A j \in 1..Len(bs) : bs[j] \in Block
  BY ElementOfSeq
<1> QED BY <1>1, <1>2, <1>3, <1>4, ExceptSeq DEF Block

\* A new header goes to the end of the list and leaves the others alone.
LEMMA HeaderAppended ==
  ASSUME NEW bs \in Seq(Block), NEW p \in Ptr, NEW sz \in Size,
         NEW new, new = Append(bs, NewBlock(p, sz))
  PROVE  /\ new \in Seq(Block)
         /\ Len(new) = Len(bs) + 1
         /\ \A j \in 1..Len(bs) : new[j] = bs[j]
         /\ new[Len(bs) + 1].ptr = p
         /\ new[Len(bs) + 1].sz = sz
         /\ new[Len(bs) + 1].free = 0
<1>1. NewBlock(p, sz) \in Block
  BY DEF NewBlock, Block
<1> QED BY <1>1, AppendProperties DEF NewBlock

-----------------------------------------------------------------------------
\* A free block given to a caller, for its whole size, leaves the books exact.
LEMMA TakingKeepsBooks ==
  ASSUME NEW bs, NEW hp, NEW ow, Books(bs, hp, ow),
         NEW i \in 1..Len(bs), bs[i].free = 1,
         NEW nb, nb = [bs EXCEPT ![i].free = 0],
         NEW no, no = [ow EXCEPT ![bs[i].ptr] = @ + bs[i].sz]
  PROVE  Books(nb, hp, no)
<1>1. /\ nb \in Seq(Block)
      /\ Len(nb) = Len(bs)
      /\ \A j \in 1..Len(bs) :
           /\ nb[j].ptr = bs[j].ptr /\ nb[j].sz = bs[j].sz
           /\ nb[j].free = IF j = i THEN 0 ELSE bs[j].free
  <2>1. bs \in Seq(Block)
    BY DEF Books
  <2> QED BY <2>1, FlagSet
<1>2. \A j \in 1..Len(bs) : bs[j].ptr \in Ptr /\ bs[j].sz \in Nat \ {0}
  BY HeaderFields DEF Books
<1>3. ow[bs[i].ptr] = 0 /\ no[bs[i].ptr] = bs[i].sz
  BY <1>2 DEF Books
<1>4. no \in [Ptr -> Nat] /\ \A p \in Ptr : p # bs[i].ptr => no[p] = ow[p]
  BY <1>2, <1>3 DEF Books
<1>5. ASSUME NEW j \in 1..Len(nb)
      PROVE  no[nb[j].ptr] = IF nb[j].free = 1 THEN 0 ELSE nb[j].sz
  <2>1. CASE j = i
    BY <1>1, <1>3, <2>1
  <2>2. CASE j # i
    <3>1. bs[j].ptr # bs[i].ptr
      BY <1>1, <2>2 DEF Books
    <3> QED BY <1>1, <1>2, <1>4, <2>2, <3>1 DEF Books
  <2> QED BY <2>1, <2>2
<1>6. ASSUME NEW p \in Ptr, no[p] # 0
      PROVE  \E j \in 1..Len(nb) : nb[j].ptr = p
  BY <1>1, <1>4, <1>6 DEF Books
<1>7. ASSUME NEW j \in 1..Len(nb), NEW k \in 1..Len(nb), nb[j].ptr = nb[k].ptr
      PROVE  j = k
  BY <1>1, <1>7 DEF Books
<1>8. \A j \in 1..Len(nb) : nb[j].ptr \in hp
  BY <1>1 DEF Books
<1> QED BY <1>1, <1>4, <1>5, <1>6, <1>7, <1>8 DEF Books

\* A block in use taken back from its caller leaves the books exact.
LEMMA FreeingKeepsBooks ==
  ASSUME NEW bs, NEW hp, NEW ow, Books(bs, hp, ow),
         NEW i \in 1..Len(bs), bs[i].free # 1,
         NEW nb, nb = [bs EXCEPT ![i].free = 1],
         NEW no, no = [ow EXCEPT ![bs[i].ptr] = 0]
  PROVE  Books(nb, hp, no)
<1>1. /\ nb \in Seq(Block)
      /\ Len(nb) = Len(bs)
      /\ \A j \in 1..Len(bs) :
           /\ nb[j].ptr = bs[j].ptr /\ nb[j].sz = bs[j].sz
           /\ nb[j].free = IF j = i THEN 1 ELSE bs[j].free
  <2>1. bs \in Seq(Block)
    BY DEF Books
  <2>2. 1 \in {0, 1}
    OBVIOUS
  <2> QED BY ONLY <2>1, <2>2, i \in 1..Len(bs), nb = [bs EXCEPT ![i].free = 1], FlagSet
<1>2. \A j \in 1..Len(bs) : bs[j].ptr \in Ptr /\ bs[j].sz \in Nat \ {0}
  BY HeaderFields DEF Books
<1>3. no[bs[i].ptr] = 0
  BY <1>2 DEF Books
<1>4. no \in [Ptr -> Nat] /\ \A p \in Ptr : p # bs[i].ptr => no[p] = ow[p]
  BY <1>2, <1>3 DEF Books
<1>5. ASSUME NEW j \in 1..Len(nb)
      PROVE  no[nb[j].ptr] = IF nb[j].free = 1 THEN 0 ELSE nb[j].sz
  <2>1. CASE j = i
    BY <1>1, <1>3, <2>1
  <2>2. CASE j # i
    <3>1. bs[j].ptr # bs[i].ptr
      BY <1>1, <2>2 DEF Books
    <3> QED BY <1>1, <1>2, <1>4, <2>2, <3>1 DEF Books
  <2> QED BY <2>1, <2>2
<1>6. ASSUME NEW p \in Ptr, no[p] # 0
      PROVE  \E j \in 1..Len(nb) : nb[j].ptr = p
  BY <1>1, <1>3, <1>4, <1>6 DEF Books
<1>7. ASSUME NEW j \in 1..Len(nb), NEW k \in 1..Len(nb), nb[j].ptr = nb[k].ptr
      PROVE  j = k
  BY <1>1, <1>7 DEF Books
<1>8. \A j \in 1..Len(nb) : nb[j].ptr \in hp
  BY <1>1 DEF Books
<1> QED BY <1>1, <1>2, <1>3, <1>4, <1>5, <1>6, <1>7, <1>8 DEF Books

\* A payload fresh from malloc is nobody's.
LEMMA FreshIsUnowned ==
  ASSUME NEW bs, NEW hp, NEW ow, Books(bs, hp, ow), NEW p \in Ptr \ hp
  PROVE  ow[p] = 0
BY DEF Books

\* Listing a fresh payload and handing it out leaves the books exact.
LEMMA GrowingKeepsBooks ==
  ASSUME NEW bs, NEW hp, NEW ow, Books(bs, hp, ow),
         NEW p \in Ptr \ hp, NEW sz \in Size,
         NEW nb, nb = Append(bs, NewBlock(p, sz)),
         NEW nh, nh = hp \cup {p},
         NEW no, no = [ow EXCEPT ![p] = sz]
  PROVE  Books(nb, nh, no)
<1> DEFINE n == Len(bs) + 1
<1>1. /\ nb \in Seq(Block)
      /\ 1..Len(nb) = 1..Len(bs) \cup {n}
      /\ \A j \in 1..Len(bs) : nb[j] = bs[j]
      /\ nb[n].ptr = p /\ nb[n].sz = sz /\ nb[n].free = 0
  <2>1. bs \in Seq(Block) /\ Len(bs) \in Nat
    BY LenProperties DEF Books
  <2>2. 1..(Len(bs) + 1) = 1..Len(bs) \cup {Len(bs) + 1}
    BY <2>1
  <2> QED BY <2>1, <2>2, HeaderAppended
<1>2. \A j \in 1..Len(bs) : bs[j].ptr \in Ptr /\ bs[j].ptr # p
  BY ElementOfSeq DEF Books, Block
<1>3. no[p] = sz
  BY DEF Books
<1>4. no \in [Ptr -> Nat] /\ \A r \in Ptr : r # p => no[r] = ow[r]
  BY <1>3, PoolAssumption DEF Books
<1> HIDE DEF n
<1>5. ASSUME NEW j \in 1..Len(nb)
      PROVE  no[nb[j].ptr] = IF nb[j].free = 1 THEN 0 ELSE nb[j].sz
  <2>1. CASE j = n
    BY <1>1, <1>3, <2>1
  <2>2. CASE j \in 1..Len(bs)
    BY <1>1, <1>2, <1>4, <2>2 DEF Books
  <2> QED BY <1>1, <2>1, <2>2
<1>6. ASSUME NEW r \in Ptr, no[r] # 0
      PROVE  \E j \in 1..Len(nb) : nb[j].ptr = r
  BY <1>1, <1>4, <1>6 DEF Books
<1>7. ASSUME NEW j \in 1..Len(nb), NEW k \in 1..Len(nb), nb[j].ptr = nb[k].ptr
      PROVE  j = k
  BY <1>1, <1>2, <1>7 DEF Books
<1>8. \A j \in 1..Len(nb) : nb[j].ptr \in nh
  BY <1>1 DEF Books
<1> QED BY <1>1, <1>3, <1>4, <1>5, <1>6, <1>7, <1>8 DEF Books

-----------------------------------------------------------------------------
\* While nothing undefined has happened, IInv is the books and the other types.
LEMMA BooksAreInvariant ==
  ASSUME fault = "none"
  PROVE  IInv <=> /\ Books(blocks, heap, owned)
                  /\ husks \in Nat /\ mem \in [Ptr -> Content] /\ blank \subseteq Ptr
BY Zenon DEF IInv, TypeOK, LedgerExact, PayloadsFromHeap, Books, Index, BlocksOf

\* A step within the defined behaviour that keeps the books keeps IInv.
LEMMA BooksSuffice ==
  ASSUME Books(blocks', heap', owned'), fault' = "none",
         husks' \in Nat, mem' \in [Ptr -> Content], blank' \subseteq Ptr
  PROVE  IInv'
<1>1. TypeOK' /\ PayloadsFromHeap'
  BY DEF TypeOK, PayloadsFromHeap, Books, Index
<1>2. LedgerExact'
  <2>1. \A p \in Ptr : owned'[p] # 0 => (BlocksOf(p))' # {}
    BY DEF Books, BlocksOf, Index
  <2> QED BY <2>1 DEF LedgerExact, Books, Index
<1> QED BY <1>1, <1>2 DEF IInv

\* The undefined behaviours a run can end in.
Faults == {"null header", "null payload", "wild pointer", "overflow", "unknown pointer",
           "freed header"}

\* A step into undefined behaviour keeps IInv when the list stays well formed.
LEMMA FaultSuffices ==
  ASSUME IInv, fault' \in Faults, husks' \in Nat,
         blocks' \in Seq(Block), heap' \subseteq Ptr,
         \A i \in 1..Len(blocks') : blocks'[i].ptr \in heap',
         UNCHANGED <<mem, owned, blank>>
  PROVE  IInv'
BY DEF IInv, TypeOK, LedgerExact, PayloadsFromHeap, Index, Faults

\* The same for a step that leaves the list and the heap alone.
LEMMA FaultInPlace ==
  ASSUME IInv, fault' \in Faults, husks' \in Nat, UNCHANGED <<blocks, heap, mem, owned, blank>>
  PROVE  IInv'
BY FaultSuffices DEF IInv, TypeOK, PayloadsFromHeap, Index

\* Every call keeps the books, or ends the run.
LEMMA ReuseKeepsIInv ==
  ASSUME IInv, fault = "none", NEW sz \in Size, ReuseBlock(sz),
         blank' \in {blank, blank \cup {blocks[FindFreeBlock(sz)].ptr}}
  PROVE  IInv'
<1> DEFINE i == FindFreeBlock(sz)
<1>1. Books(blocks, heap, owned) /\ husks \in Nat /\ mem \in [Ptr -> Content] /\ blank \subseteq Ptr
  BY BooksAreInvariant
<1>2. i \in 1..Len(blocks) /\ blocks[i].sz = sz /\ blocks[i].free = 1
  BY FoundFreeBlock DEF ReuseBlock, IInv, Index
<1>3. /\ blocks' = [blocks EXCEPT ![i].free = 0]
      /\ owned' = [owned EXCEPT ![blocks[i].ptr] = @ + blocks[i].sz]
      /\ UNCHANGED <<husks, heap, mem, fault>>
  BY <1>2 DEF ReuseBlock
<1>4. blank' \subseteq Ptr
  <2>1. blocks[i].ptr \in Ptr
    BY <1>2, HeaderFields DEF IInv, TypeOK
  <2> QED BY <1>1, <2>1
<1> HIDE DEF i
<1>5. Books(blocks', heap, owned')
  BY <1>1, <1>2, <1>3, TakingKeepsBooks
<1> QED BY <1>1, <1>3, <1>4, <1>5, BooksSuffice

LEMMA GrowKeepsIInv ==
  ASSUME IInv, fault = "none", NEW sz \in Size, NEW p \in Ptr \ heap, NEW v \in Content,
         GrowPool(p, sz, v), blank' \in {blank, blank \cup {p}}
  PROVE  IInv'
<1>1. Books(blocks, heap, owned) /\ husks \in Nat /\ mem \in [Ptr -> Content] /\ blank \subseteq Ptr
  BY BooksAreInvariant
<1>2. Books(blocks', heap', owned')
  <2>1. owned[p] = 0
    BY <1>1, FreshIsUnowned
  <2>2. owned' = [owned EXCEPT ![p] = sz]
    BY <2>1, PoolAssumption DEF IInv, TypeOK, GrowPool
  <2>3. blocks' = Append(blocks, NewBlock(p, sz)) /\ heap' = heap \cup {p}
    BY DEF GrowPool
  <2> QED BY <1>1, <2>2, <2>3, GrowingKeepsBooks
<1>3. mem' \in [Ptr -> Content] /\ blank' \subseteq Ptr /\ husks' \in Nat /\ fault' = "none"
  BY <1>1 DEF GrowPool
<1> QED BY <1>2, <1>3, BooksSuffice

\* A payload that malloc refused leaves a header that no search finds.
LEMMA RefusalKeepsIInv ==
  ASSUME IInv, fault = "none", PayloadFails, fault' \in {"none", "null payload"}
  PROVE  IInv'
<1>1. husks' \in Nat
  <2>1. husks' = husks + 1
    BY DEF PayloadFails
  <2>2. husks \in Nat
    BY DEF IInv, TypeOK
  <2> QED BY ONLY <2>1, <2>2
<1>2. CASE fault' = "none"
  <2>1. Books(blocks', heap', owned') /\ mem' \in [Ptr -> Content] /\ blank' \subseteq Ptr
    BY BooksAreInvariant DEF PayloadFails
  <2> QED BY <1>1, <1>2, <2>1, BooksSuffice
<1>3. CASE fault' = "null payload"
  <2>1. UNCHANGED <<blocks, heap, mem, owned, blank>> /\ fault' \in Faults
    BY <1>3 DEF PayloadFails, Faults
  <2> QED BY <1>1, <2>1, FaultInPlace
<1> QED BY <1>2, <1>3

LEMMA AllocKeepsIInv ==
  ASSUME IInv, fault = "none", NEW sz \in Size, rune_alloc(sz)
  PROVE  IInv'
<1>1. CASE ReuseBlock(sz) /\ UNCHANGED blank
  BY <1>1, ReuseKeepsIInv
<1>2. CASE HeaderFails
  BY <1>2, FaultInPlace DEF HeaderFails, Faults, IInv, TypeOK
<1>3. CASE PayloadFails /\ UNCHANGED fault
  BY <1>3, RefusalKeepsIInv
<1>4. CASE \E p \in Ptr \ heap : GrowPool(p, sz, "raw") /\ UNCHANGED blank
  BY <1>4, GrowKeepsIInv DEF Content
<1> QED BY <1>1, <1>2, <1>3, <1>4 DEF rune_alloc

LEMMA CallocKeepsIInv ==
  ASSUME IInv, fault = "none", NEW sz \in Size, rune_calloc(sz)
  PROVE  IInv'
<1>1. CASE ReuseBlock(sz) /\ blank' = blank \cup {blocks[FindFreeBlock(sz)].ptr}
  BY <1>1, ReuseKeepsIInv
<1>2. CASE HeaderFails
  BY <1>2, FaultInPlace DEF HeaderFails, Faults, IInv, TypeOK
<1>3. CASE PayloadFails /\ fault' = "null payload"
  BY <1>3, RefusalKeepsIInv
<1>4. CASE \E p \in Ptr \ heap : GrowPool(p, sz, "zero") /\ blank' = blank \cup {p}
  BY <1>4, GrowKeepsIInv DEF Content
<1> QED BY <1>1, <1>2, <1>3, <1>4 DEF rune_calloc

\* The move proper: the new payload listed and given, the old one taken back.
LEMMA MoveKeepsBooks ==
  ASSUME IInv, fault = "none", NEW q \in Ptr, owned[q] # 0,
         NEW sz \in Size, NEW p \in Ptr \ heap,
         blocks' = Append([blocks EXCEPT ![FindBlock(q)].free = 1], NewBlock(p, sz)),
         heap' = heap \cup {p},
         owned' = [owned EXCEPT ![q] = @ - blocks[FindBlock(q)].sz, ![p] = @ + sz]
  PROVE  /\ Books(blocks', heap', owned')
         /\ p # q /\ owned[p] = 0
         /\ owned' = [owned EXCEPT ![q] = 0, ![p] = sz]
<1> DEFINE old == FindBlock(q)
           freed == [blocks EXCEPT ![old].free = 1]
           left == [owned EXCEPT ![q] = 0]
<1>1. Books(blocks, heap, owned) /\ owned \in [Ptr -> Nat]
  BY BooksAreInvariant DEF Books
<1>2. old \in 1..Len(blocks) /\ blocks[old].ptr = q
  BY FoundBlock DEF IInv, LedgerExact, Index
<1>3. blocks[old].free # 1 /\ owned[q] = blocks[old].sz /\ q \in heap
  BY <1>1, <1>2 DEF Books
<1>4. p # q /\ owned[p] = 0
  BY <1>1, <1>3, FreshIsUnowned
<1>5. owned' = [owned EXCEPT ![q] = 0, ![p] = sz]
  <2>1. owned[q] - blocks[old].sz = 0 /\ owned[p] + sz = sz
    BY <1>1, <1>3, <1>4, PoolAssumption
  <2> QED BY <2>1
<1> HIDE DEF old
<1>6. Books(freed, heap, left)
  <2>1. freed = [blocks EXCEPT ![old].free = 1] /\ left = [owned EXCEPT ![blocks[old].ptr] = 0]
    BY <1>2
  <2> HIDE DEF freed, left
  <2> QED BY ONLY <1>1, <1>2, <1>3, <2>1, FreeingKeepsBooks
<1>7. blocks' = Append(freed, NewBlock(p, sz)) /\ owned' = [left EXCEPT ![p] = sz]
  BY <1>1, <1>4, <1>5 DEF old
<1> HIDE DEF freed, left
<1>8. Books(blocks', heap', owned')
  BY ONLY <1>6, <1>7, p \in Ptr \ heap, sz \in Size, heap' = heap \cup {p}, GrowingKeepsBooks
<1> QED BY <1>4, <1>5, <1>8

LEMMA ReallocKeepsIInv ==
  ASSUME IInv, fault = "none", NEW q \in Ptr \cup {NULL}, NEW sz \in Size, rune_realloc(q, sz)
  PROVE  IInv'
<1>1. CASE q = NULL /\ rune_alloc(sz)
  BY <1>1, AllocKeepsIInv
<1>2. CASE q # NULL /\ ReallocOntoFreeBlock(sz)
  <2>1. FindFreeBlock(sz) \in 1..Len(blocks)
    BY <1>2, FoundFreeBlock DEF ReallocOntoFreeBlock, IInv, Index
  <2>2. blocks \in Seq(Block) /\ 0 \in {0, 1}
    BY DEF IInv, TypeOK
  <2>3. blocks' = [blocks EXCEPT ![FindFreeBlock(sz)].free = 0]
    BY <1>2 DEF ReallocOntoFreeBlock
  <2>4. /\ blocks' \in Seq(Block)
        /\ Len(blocks') = Len(blocks)
        /\ \A j \in 1..Len(blocks) : blocks'[j].ptr = blocks[j].ptr
    BY ONLY <2>1, <2>2, <2>3, FlagSet
  <2>5. fault' \in Faults /\ UNCHANGED <<husks, heap, mem, owned, blank>>
    BY <1>2 DEF ReallocOntoFreeBlock, Faults
  <2> QED BY <2>4, <2>5, FaultSuffices DEF IInv, TypeOK, PayloadsFromHeap, Index
<1>3. CASE HeaderFails
  BY <1>3, FaultInPlace DEF HeaderFails, Faults, IInv, TypeOK
<1>4. CASE PayloadFails /\ fault' = "null payload"
  BY <1>4, RefusalKeepsIInv
<1>5. ASSUME q # NULL, owned[q] # 0, NEW p \in Ptr \ heap, ReallocMove(q, p, sz)
      PROVE  IInv'
  <2>1. CASE blocks[FindBlock(q)].sz > sz
    <3>1. /\ heap' = heap \cup {p} /\ blocks' = Append(blocks, NewBlock(p, sz))
          /\ fault' \in Faults /\ UNCHANGED <<mem, owned, blank, husks>>
      BY <1>5, <2>1 DEF ReallocMove, Faults
    <3> DEFINE no == [owned EXCEPT ![p] = sz]
    <3>2. Books(blocks', heap', no)
      <4>1. Books(blocks, heap, owned) /\ no = [owned EXCEPT ![p] = sz]
        BY BooksAreInvariant
      <4> HIDE DEF no
      <4> QED BY <3>1, <4>1, GrowingKeepsBooks
    <3> QED BY <3>1, <3>2, FaultSuffices DEF Books, IInv, TypeOK
  <2>2. CASE ~ (blocks[FindBlock(q)].sz > sz)
    <3>1. /\ heap' = heap \cup {p}
          /\ blocks' = Append([blocks EXCEPT ![FindBlock(q)].free = 1], NewBlock(p, sz))
          /\ mem' = [mem EXCEPT ![p] = mem[q]]
          /\ owned' = [owned EXCEPT ![q] = @ - blocks[FindBlock(q)].sz, ![p] = @ + sz]
          /\ blank' = blank \ {q}
          /\ UNCHANGED <<husks, fault>>
      BY <1>5, <2>2 DEF ReallocMove
    <3>2. Books(blocks', heap', owned')
      BY <1>5, <3>1, MoveKeepsBooks
    <3>3. mem' \in [Ptr -> Content] /\ husks' \in Nat /\ blank' \subseteq Ptr
      BY <1>5, <3>1 DEF IInv, TypeOK
    <3> QED BY <3>1, <3>2, <3>3, BooksSuffice
  <2> QED BY <2>1, <2>2
<1> QED BY <1>1, <1>2, <1>3, <1>4, <1>5 DEF rune_realloc

LEMMA FreeKeepsIInv ==
  ASSUME IInv, fault = "none", NEW p \in Ptr, rune_free(p)
  PROVE  IInv'
<1>1. CASE UNCHANGED vars
  BY <1>1 DEF vars, IInv, TypeOK, LedgerExact, PayloadsFromHeap, Index, BlocksOf
<1>2. CASE BlocksOf(p) = {} /\ fault' = "unknown pointer" /\ UNCHANGED <<blocks, husks, heap, mem, owned, blank>>
  BY <1>2, FaultInPlace DEF Faults, IInv, TypeOK
<1>3. CASE /\ BlocksOf(p) # {} /\ blocks[FindBlock(p)].free # 1
           /\ blocks' = [blocks EXCEPT ![FindBlock(p)].free = 1]
           /\ owned' = [owned EXCEPT ![p] = @ - blocks[FindBlock(p)].sz]
           /\ blank' = blank \ {p}
           /\ UNCHANGED <<husks, heap, mem, fault>>
  <2> DEFINE i == FindBlock(p)
  <2>1. /\ Books(blocks, heap, owned) /\ husks \in Nat /\ mem \in [Ptr -> Content]
        /\ blank' \subseteq Ptr
    BY <1>3, BooksAreInvariant
  <2>2. i \in 1..Len(blocks) /\ blocks[i].ptr = p
    BY <1>3, FoundBlock DEF IInv, Index
  <2>3. owned[p] = blocks[i].sz /\ owned[p] \in Nat
    BY <1>3, <2>1, <2>2 DEF Books
  <2>4. /\ blocks[i].free # 1
        /\ blocks' = [blocks EXCEPT ![i].free = 1]
        /\ owned' = [owned EXCEPT ![blocks[i].ptr] = 0]
    <3>1. owned[p] - blocks[i].sz = 0
      BY <2>3
    <3> QED BY <1>3, <2>2, <3>1
  <2> HIDE DEF i
  <2>5. Books(blocks', heap, owned')
    BY <2>1, <2>2, <2>4, FreeingKeepsBooks
  <2> QED BY <1>3, <2>1, <2>5, BooksSuffice
<1> QED BY <1>1, <1>2, <1>3 DEF rune_free

\* rune_free_all forgets every header and every owner at once, whatever it
\* reads of the headers it freed.
LEMMA FreeAllKeepsIInv ==
  ASSUME IInv, fault = "none", rune_free_all
  PROVE  IInv'
<1>1. Len(blocks') = 0 /\ blocks' \in Seq(Block)
  BY EmptySeq DEF rune_free_all
<1>2. fault' \in {"none"} \cup Faults /\ husks' \in Nat /\ mem' \in [Ptr -> Content] /\ blank' \subseteq Ptr
  BY DEF rune_free_all, Faults, IInv, TypeOK
<1>3. heap' \subseteq Ptr /\ owned' \in [Ptr -> Nat] /\ \A p \in Ptr : owned'[p] = 0
  BY DEF rune_free_all, IInv, TypeOK
<1>4. TypeOK'
  BY <1>1, <1>2, <1>3 DEF TypeOK, Faults
<1>5. LedgerExact' /\ PayloadsFromHeap'
  BY <1>1, <1>3 DEF LedgerExact, PayloadsFromHeap, Index
<1> QED BY <1>4, <1>5 DEF IInv

LEMMA WriteKeepsIInv ==
  ASSUME IInv, fault = "none", NEW p \in Ptr, NEW v \in Val, OwnerWrites(p, v)
  PROVE  IInv'
<1>1. Books(blocks', heap', owned') /\ husks' \in Nat
  BY BooksAreInvariant DEF OwnerWrites
<1>2. mem' \in [Ptr -> Content] /\ blank' \subseteq Ptr
  BY DEF OwnerWrites, IInv, TypeOK, Content
<1> QED BY <1>1, <1>2, BooksSuffice DEF OwnerWrites

LEMMA InitIInv == Init => IInv
<1> SUFFICES ASSUME Init PROVE IInv
  OBVIOUS
<1>1. Len(blocks) = 0 /\ blocks \in Seq(Block)
  BY EmptySeq DEF Init
<1> QED BY <1>1 DEF Init, IInv, TypeOK, LedgerExact, PayloadsFromHeap, Index, Content

LEMMA NextIInv == IInv /\ [Next]_vars => IInv'
<1> SUFFICES ASSUME IInv, [Next]_vars PROVE IInv'
  OBVIOUS
<1>1. CASE UNCHANGED vars
  BY <1>1 DEF vars, IInv, TypeOK, LedgerExact, PayloadsFromHeap, Index, BlocksOf
<1>2. CASE Next
  BY <1>2, AllocKeepsIInv, CallocKeepsIInv, ReallocKeepsIInv, FreeKeepsIInv,
     FreeAllKeepsIInv, WriteKeepsIInv DEF Next
<1> QED BY <1>1, <1>2

\* The pool's books are exact in every reachable state, whatever the sizes,
\* the payloads malloc returns and the order of the calls (alloc.c:88-178).
THEOREM BooksExact == Spec => [](TypeOK /\ LedgerExact)
<1>1. Spec => []IInv
  BY InitIInv, NextIInv, PTL DEF Spec
<1>2. IInv => TypeOK /\ LedgerExact
  BY DEF IInv
<1> QED BY <1>1, <1>2, PTL

\* The list, the heap and what callers own stay within their types, whatever
\* fails (alloc.c:100-178).
THEOREM PoolTypes == Spec => []TypeOK
BY BooksExact, PTL

-----------------------------------------------------------------------------
(***************************************************************************)
(* The allocator implements PoolContract.                                  *)
(***************************************************************************)

SeenVars == <<owned, Seen, blank, heap>>

\* A payload nobody owned, handed out for sz bytes: the contract gives it.
LEMMA GiveIsAllowed ==
  ASSUME IInv, NEW p \in Ptr, owned[p] = 0, NEW sz \in Size, NEW v \in Content,
         owned' = [owned EXCEPT ![p] = sz], mem' = [mem EXCEPT ![p] = v],
         heap' = heap \cup {p}
  PROVE  Contract!Give(p, sz, v)
<1>1. owned \in [Ptr -> Nat] /\ mem \in [Ptr -> Content] /\ sz # 0
  BY PoolAssumption DEF IInv, TypeOK
<1>2. Seen' = [Seen EXCEPT ![p] = v]
  BY <1>1 DEF Seen
<1> QED BY <1>2 DEF Contract!Give

\* A step that callers cannot see.
LEMMA UnseenIsAllowed ==
  ASSUME UNCHANGED <<mem, owned, blank, heap>>
  PROVE  UNCHANGED SeenVars
BY DEF Seen, SeenVars

\* A block found free: its payload comes from the heap, whatever it holds.
LEMMA ReuseIsAllowed ==
  ASSUME IInv, fault = "none", NEW sz \in Size, ReuseBlock(sz)
  PROVE  LET p == blocks[FindFreeBlock(sz)].ptr IN
           p \in Ptr /\ p \in heap /\ mem[p] \in Content /\ Contract!Give(p, sz, mem[p])
<1> DEFINE p == blocks[FindFreeBlock(sz)].ptr
<1>1. p \in Ptr /\ owned[p] = 0 /\ p \in heap
  <2>1. Books(blocks, heap, owned) /\ blocks \in Seq(Block)
    BY BooksAreInvariant DEF Books
  <2>2. FindFreeBlock(sz) \in 1..Len(blocks) /\ blocks[FindFreeBlock(sz)].free = 1
    BY FoundFreeBlock DEF ReuseBlock, IInv, Index
  <2> QED BY <2>1, <2>2, HeaderFields DEF Books
<1>2. owned' = [owned EXCEPT ![p] = @ + sz] /\ mem' = mem /\ heap' = heap
  BY DEF ReuseBlock
<1> SUFFICES p \in Ptr /\ p \in heap /\ mem[p] \in Content /\ Contract!Give(p, sz, mem[p])
  OBVIOUS
<1> HIDE DEF p
<1>3. owned' = [owned EXCEPT ![p] = sz] /\ heap' = heap \cup {p}
  BY <1>1, <1>2, PoolAssumption
<1>4. mem[p] \in Content /\ mem' = [mem EXCEPT ![p] = mem[p]]
  BY <1>1, <1>2 DEF IInv, TypeOK
<1> QED BY <1>1, <1>3, <1>4, GiveIsAllowed

LEMMA GrowIsAllowed ==
  ASSUME IInv, fault = "none", NEW sz \in Size, NEW p \in Ptr \ heap, NEW v \in Content,
         GrowPool(p, sz, v)
  PROVE  Contract!Give(p, sz, v)
<1>1. owned[p] = 0
  BY BooksAreInvariant, FreshIsUnowned
<1>2. /\ owned' = [owned EXCEPT ![p] = sz] /\ mem' = [mem EXCEPT ![p] = v]
      /\ heap' = heap \cup {p}
  BY <1>1, PoolAssumption DEF GrowPool
<1> QED BY <1>1, <1>2, GiveIsAllowed

LEMMA AllocIsAllowed ==
  ASSUME IInv, fault = "none", NEW sz \in Size, rune_alloc(sz)
  PROVE  Contract!Next \/ UNCHANGED SeenVars
<1>1. CASE ReuseBlock(sz) /\ UNCHANGED blank
  <2>1. PICK p \in Ptr : mem[p] \in Content /\ Contract!Give(p, sz, mem[p])
    BY <1>1, ReuseIsAllowed
  <2> QED BY <1>1, <2>1 DEF Contract!Alloc, Contract!Next
<1>2. CASE UNCHANGED <<mem, owned, blank, heap>>
  BY <1>2, UnseenIsAllowed
<1>3. CASE \E p \in Ptr \ heap : GrowPool(p, sz, "raw") /\ UNCHANGED blank
  <2>1. PICK p \in Ptr \ heap : GrowPool(p, sz, "raw") /\ UNCHANGED blank
    BY <1>3
  <2>2. "raw" \in Content /\ Contract!Give(p, sz, "raw")
    BY <2>1, GrowIsAllowed DEF Content
  <2> QED BY <2>1, <2>2 DEF Contract!Alloc, Contract!Next
<1> QED BY <1>1, <1>2, <1>3 DEF rune_alloc, HeaderFails, PayloadFails

\* rune_calloc fills what comes from malloc; what it finds free somebody had.
LEMMA CallocIsAllowed ==
  ASSUME IInv, fault = "none", NEW sz \in Size, rune_calloc(sz)
  PROVE  Contract!Next \/ UNCHANGED SeenVars
<1>1. CASE /\ ReuseBlock(sz)
           /\ blank' = blank \cup {blocks[FindFreeBlock(sz)].ptr}
  <2>1. PICK p \in Ptr : /\ p \in heap /\ mem[p] \in Content /\ Contract!Give(p, sz, mem[p])
                         /\ blank' = blank \cup {p}
    BY <1>1, ReuseIsAllowed
  <2> QED BY <2>1 DEF Contract!Calloc, Contract!Next
<1>2. CASE UNCHANGED <<mem, owned, blank, heap>>
  BY <1>2, UnseenIsAllowed
<1>3. CASE \E p \in Ptr \ heap : GrowPool(p, sz, "zero") /\ blank' = blank \cup {p}
  <2>1. PICK p \in Ptr \ heap : GrowPool(p, sz, "zero") /\ blank' = blank \cup {p}
    BY <1>3
  <2>2. "zero" \in Content /\ Contract!Give(p, sz, "zero")
    BY <2>1, GrowIsAllowed DEF Content
  <2> QED BY <2>1, <2>2 DEF Contract!Calloc, Contract!Next
<1> QED BY <1>1, <1>2, <1>3 DEF rune_calloc, HeaderFails, PayloadFails

LEMMA ReallocIsAllowed ==
  ASSUME IInv, fault = "none", NEW q \in Ptr \cup {NULL}, NEW sz \in Size, rune_realloc(q, sz)
  PROVE  Contract!Next \/ UNCHANGED SeenVars
<1>1. CASE q = NULL /\ rune_alloc(sz)
  BY <1>1, AllocIsAllowed
<1>2. CASE UNCHANGED <<mem, owned, blank, heap>>
  BY <1>2, UnseenIsAllowed
<1>3. ASSUME q \in Ptr, owned[q] # 0, NEW p \in Ptr \ heap, ReallocMove(q, p, sz)
      PROVE  Contract!Next \/ UNCHANGED SeenVars
  <2>1. CASE blocks[FindBlock(q)].sz > sz
    <3>1. heap' = heap \cup {p} /\ UNCHANGED <<mem, owned, blank>>
      BY <1>3, <2>1 DEF ReallocMove
    <3>2. UNCHANGED Seen
      BY <3>1 DEF Seen
    <3>3. Contract!Lose(p)
      BY <3>1, <3>2 DEF Contract!Lose
    <3> QED BY <3>3 DEF Contract!Next
  <2>2. CASE ~ (blocks[FindBlock(q)].sz > sz)
    <3>1. /\ mem' = [mem EXCEPT ![p] = mem[q]] /\ blank' = blank \ {q}
          /\ heap' = heap \cup {p}
      BY <1>3, <2>2 DEF ReallocMove
    <3>2. p # q /\ owned[p] = 0 /\ owned' = [owned EXCEPT ![q] = 0, ![p] = sz]
      BY <1>3, <2>2, MoveKeepsBooks DEF ReallocMove
    <3>3. sz # 0 /\ owned \in [Ptr -> Nat] /\ mem \in [Ptr -> Content]
      BY PoolAssumption DEF IInv, TypeOK
    <3>4. Seen' = [Seen EXCEPT ![q] = "raw", ![p] = Seen[q]]
      BY <1>3, <3>1, <3>2, <3>3 DEF Seen
    <3>5. Contract!Resize(q, p, sz)
      BY <1>3, <3>1, <3>2, <3>4 DEF Contract!Resize
    <3> QED BY <1>3, <3>5 DEF Contract!Next
  <2> QED BY <2>1, <2>2
<1> QED BY <1>1, <1>2, <1>3 DEF rune_realloc, ReallocOntoFreeBlock, HeaderFails, PayloadFails

LEMMA FreeIsAllowed ==
  ASSUME IInv, fault = "none", NEW p \in Ptr, rune_free(p)
  PROVE  Contract!Next \/ UNCHANGED SeenVars
<1>1. CASE UNCHANGED <<mem, owned, blank, heap>>
  BY <1>1, UnseenIsAllowed
<1>2. CASE /\ BlocksOf(p) # {} /\ blocks[FindBlock(p)].free # 1
           /\ owned' = [owned EXCEPT ![p] = @ - blocks[FindBlock(p)].sz]
           /\ blank' = blank \ {p}
           /\ UNCHANGED <<husks, heap, mem, fault>>
  <2>1. Books(blocks, heap, owned) /\ blocks \in Seq(Block)
    BY BooksAreInvariant DEF Books
  <2>2. FindBlock(p) \in 1..Len(blocks) /\ blocks[FindBlock(p)].ptr = p
    BY <1>2, FoundBlock DEF IInv, Index
  <2>3. owned[p] = blocks[FindBlock(p)].sz /\ owned[p] \in Nat \ {0}
    BY <1>2, <2>1, <2>2, HeaderFields DEF Books
  <2>4. owned[p] - blocks[FindBlock(p)].sz = 0
    BY <2>3
  <2>5. owned' = [owned EXCEPT ![p] = 0] /\ mem' = mem
    BY <1>2, <2>4
  <2>6. Seen' = [Seen EXCEPT ![p] = "raw"]
    BY <2>5 DEF Seen, IInv, TypeOK
  <2>7. Contract!Release(p)
    BY <1>2, <2>3, <2>5, <2>6 DEF Contract!Release
  <2> QED BY <2>7 DEF Contract!Next
<1> QED BY <1>1, <1>2 DEF rune_free, vars

LEMMA OtherCallsAreAllowed ==
  ASSUME IInv, fault = "none",
         rune_free_all \/ \E p \in Ptr, v \in Val : OwnerWrites(p, v)
  PROVE  Contract!Next
<1>1. CASE rune_free_all
  BY <1>1 DEF rune_free_all, Seen, Contract!ReleaseAll, Contract!Next
<1>2. ASSUME NEW p \in Ptr, NEW v \in Val, OwnerWrites(p, v)
      PROVE  Contract!Next
  <2>1. Seen' = [Seen EXCEPT ![p] = v] /\ UNCHANGED <<owned, heap>> /\ blank' = blank \ {p}
    BY <1>2 DEF OwnerWrites, Seen, IInv, TypeOK
  <2>2. Contract!Store(p, v)
    BY <1>2, <2>1 DEF OwnerWrites, Contract!Store
  <2> QED BY <2>2 DEF Contract!Next, Content
<1> QED BY <1>1, <1>2

\* For any sizes, payloads and contents, every run of the allocator is one the
\* contract allows (engine/core/alloc.c:100-178 against alloc.h:38-72).
THEOREM AllocatorImplementsContract == Spec => ImplementsContract
<1>1. Init => Contract!Init
  BY DEF Init, Contract!Init, Seen
<1>2. IInv /\ [Next]_vars => [Contract!Next]_<<owned, Seen, blank, heap>>
  <2> SUFFICES ASSUME IInv, [Next]_vars
               PROVE  Contract!Next \/ UNCHANGED SeenVars
    BY DEF SeenVars
  <2>1. CASE UNCHANGED vars
    BY <2>1, UnseenIsAllowed DEF vars
  <2>2. CASE Next
    BY <2>2, AllocIsAllowed, CallocIsAllowed, ReallocIsAllowed, FreeIsAllowed,
       OtherCallsAreAllowed DEF Next
  <2> QED BY <2>1, <2>2
<1>3. Spec => []IInv
  BY InitIInv, NextIInv, PTL DEF Spec
<1> QED BY <1>1, <1>2, <1>3, PTL DEF Spec, ImplementsContract, Contract!Spec

-----------------------------------------------------------------------------
(***************************************************************************)
(* The pool grows only with demand.  Sizes in the list never change; a     *)
(* header is added only when every other one of its size is in use, and    *)
(* then the payloads of that size are all in some caller's hands.          *)
(***************************************************************************)

HeadersOf(sz) == {i \in Index : blocks[i].sz = sz}
HeldFor(sz) == {p \in Ptr : owned[p] = sz \/ owned'[p] = sz}

\* What a step does to the headers of one size: it adds none, or each of them
\* then describes a payload its callers hold during the step.
Warranted(sz) ==
  \/ HeadersOf(sz)' \subseteq HeadersOf(sz)
  \/ \A i \in HeadersOf(sz)' : blocks'[i].ptr \in HeldFor(sz)

\* While nothing undefined has happened, the counts are below their peaks.
WithinPeak ==
  fault = "none" =>
    \A sz \in Size : peak[sz] \in Nat /\ Cardinality(HeadersOf(sz)) <= peak[sz]

PInv == IInv /\ WithinPeak

\* The payloads somebody owns are finitely many: the list has them all.
LEMMA OwnedAreListed ==
  ASSUME NEW bs, NEW hp, NEW ow, Books(bs, hp, ow)
  PROVE  IsFiniteSet({p \in Ptr : ow[p] # 0})
<1> DEFINE Held == {p \in Ptr : ow[p] # 0}
           where == [p \in Held |-> CHOOSE i \in 1 .. Len(bs) : bs[i].ptr = p]
<1>1. Len(bs) \in Nat
  BY LenProperties DEF Books
<1>2. \A p \in Held : where[p] \in 1 .. Len(bs) /\ bs[where[p]].ptr = p
  <2>1. \A p \in Held : \E i \in 1 .. Len(bs) : bs[i].ptr = p
    BY DEF Books
  <2> QED BY <2>1
<1> HIDE DEF where
<1>3. where \in Injection(Held, 1 .. Len(bs))
  <2>1. where \in [Held -> 1 .. Len(bs)]
    BY <1>2 DEF where
  <2> HIDE DEF Held
  <2> QED BY <1>2, <2>1 DEF Injection, IsInjective
<1>4. IsFiniteSet(1 .. Len(bs))
  BY <1>1, FS_Interval
<1> HIDE DEF Held
<1>5. IsFiniteSet(Held)
  BY <1>3, <1>4, FS_Injection
<1> QED BY <1>5 DEF Held

\* So are those held during a step.
LEMMA HeldAreFinite ==
  ASSUME IInv, fault = "none", IInv', fault' = "none", NEW sz \in Size
  PROVE  IsFiniteSet(HeldFor(sz)) /\ Demand(sz) = Cardinality(HeldFor(sz)) /\ Demand(sz) \in Nat
<1> DEFINE Before == {p \in Ptr : owned[p] # 0}
           After == {p \in Ptr : owned'[p] # 0}
<1>1. IsFiniteSet(Before)
  BY BooksAreInvariant, OwnedAreListed
<1>2. IsFiniteSet(After)
  <2>1. Books(blocks', heap', owned')
    BY DEF IInv, TypeOK, LedgerExact, PayloadsFromHeap, Books, Index, BlocksOf
  <2> QED BY <2>1, OwnedAreListed
<1>3. IsFiniteSet(Before \cup After)
  BY <1>1, <1>2, FS_Union
<1>4. HeldFor(sz) \in SUBSET (Before \cup After)
  BY PoolAssumption DEF HeldFor
<1>5. IsFiniteSet(HeldFor(sz))
  BY <1>3, <1>4, FS_Subset
<1>6. Demand(sz) = Cardinality(HeldFor(sz))
  BY DEF Demand, HeldFor
<1> QED BY <1>5, <1>6, FS_CardinalityType

\* A warranted step leaves the headers of the size within their peak.
LEMMA WarrantedFits ==
  ASSUME PInv, fault = "none", IInv', fault' = "none", NEW sz \in Size, Warranted(sz),
         peak' = [s \in Size |-> Larger(peak[s], Demand(s))]
  PROVE  peak'[sz] \in Nat /\ Cardinality(HeadersOf(sz)') <= peak'[sz]
<1>1. Demand(sz) \in Nat /\ IsFiniteSet(HeldFor(sz)) /\ Demand(sz) = Cardinality(HeldFor(sz))
  BY HeldAreFinite DEF PInv
<1>2. peak[sz] \in Nat /\ Cardinality(HeadersOf(sz)) <= peak[sz]
  BY DEF PInv, WithinPeak
<1>3. peak'[sz] \in Nat /\ peak[sz] <= peak'[sz] /\ Demand(sz) <= peak'[sz]
  BY <1>1, <1>2 DEF Larger
<1>4. Len(blocks) \in Nat /\ Len(blocks') \in Nat
  BY LenProperties DEF PInv, IInv, TypeOK
<1>5. IsFiniteSet(HeadersOf(sz)) /\ IsFiniteSet(HeadersOf(sz)')
  <2>1. IsFiniteSet(1 .. Len(blocks)) /\ IsFiniteSet(1 .. Len(blocks'))
    BY <1>4, FS_Interval
  <2>2. /\ HeadersOf(sz) \in SUBSET (1 .. Len(blocks))
        /\ HeadersOf(sz)' \in SUBSET (1 .. Len(blocks'))
    BY DEF HeadersOf, Index
  <2> QED BY <2>1, <2>2, FS_Subset
<1>6. Cardinality(HeadersOf(sz)) \in Nat /\ Cardinality(HeadersOf(sz)') \in Nat
  BY <1>5, FS_CardinalityType
<1>7. CASE HeadersOf(sz)' \subseteq HeadersOf(sz)
  <2>1. Cardinality(HeadersOf(sz)') <= Cardinality(HeadersOf(sz))
    BY <1>5, <1>7, FS_Subset
  <2> QED BY <1>2, <1>3, <1>6, <2>1
<1>8. CASE \A i \in HeadersOf(sz)' : blocks'[i].ptr \in HeldFor(sz)
  <2> DEFINE H == HeadersOf(sz)'
             desc == [i \in H |-> blocks'[i].ptr]
  <2>1. \A i, j \in H : blocks'[i].ptr = blocks'[j].ptr => i = j
    <3>1. \A i, j \in 1 .. Len(blocks') : blocks'[i].ptr = blocks'[j].ptr => i = j
      BY DEF IInv, LedgerExact, Index
    <3> QED BY <3>1 DEF HeadersOf, Index
  <2>2. desc \in Injection(H, HeldFor(sz))
    <3> HIDE DEF H
    <3> QED BY <1>8, <2>1 DEF Injection, IsInjective, H
  <2> HIDE DEF desc
  <2>3. Cardinality(H) <= Cardinality(HeldFor(sz))
    BY <1>1, <2>2, FS_Injection
  <2> QED BY <1>1, <1>3, <1>6, <2>3
<1> QED BY <1>7, <1>8 DEF Warranted

\* A step that keeps the list, its sizes, or empties it, adds no header.
LEMMA SizesKept ==
  ASSUME NEW sz \in Size,
         Len(blocks') = Len(blocks), \A j \in 1 .. Len(blocks) : blocks'[j].sz = blocks[j].sz
  PROVE  Warranted(sz)
BY DEF Warranted, HeadersOf, Index

LEMMA FlagKeepsSizes ==
  ASSUME TypeOK, NEW sz \in Size, NEW i \in 1 .. Len(blocks), NEW b \in {0, 1},
         blocks' = [blocks EXCEPT ![i].free = b]
  PROVE  Warranted(sz)
<1>1. /\ Len(blocks') = Len(blocks)
      /\ \A j \in 1 .. Len(blocks) : blocks'[j].sz = blocks[j].sz
  <2>1. blocks \in Seq(Block) /\ blocks' = [blocks EXCEPT ![i].free = b]
    BY DEF TypeOK
  <2> QED BY <2>1, FlagSet
<1> QED BY <1>1, SizesKept

\* A header of size new is added when none of that size is free.
LEMMA AddedWhenNoneFree ==
  ASSUME IInv, fault = "none", IInv', fault' = "none", NEW sz \in Size,
         NEW new \in Size, FreeBlocks(new) = {},
         Len(blocks') = Len(blocks) + 1,
         \A j \in 1 .. Len(blocks) : blocks'[j].sz = blocks[j].sz /\ blocks'[j].ptr = blocks[j].ptr,
         blocks'[Len(blocks) + 1].sz = new, blocks'[Len(blocks) + 1].free = 0
  PROVE  Warranted(sz)
<1> DEFINE n == Len(blocks) + 1
<1>1. Len(blocks) \in Nat
  BY LenProperties DEF IInv, TypeOK
<1>2. 1 .. n = 1 .. Len(blocks) \cup {n}
  BY <1>1
<1>3. CASE sz # new
  <2>1. HeadersOf(sz)' \subseteq HeadersOf(sz)
    BY <1>2, <1>3 DEF HeadersOf, Index
  <2> QED BY <2>1 DEF Warranted
<1>4. CASE sz = new
  <2> SUFFICES ASSUME NEW i \in 1 .. Len(blocks'), blocks'[i].sz = sz
               PROVE  blocks'[i].ptr \in HeldFor(sz)
    BY DEF Warranted, HeadersOf, Index
  <2>1. CASE i = n
    <3>1. blocks'[n].ptr \in Ptr
      BY <2>1, HeaderFields DEF IInv, TypeOK
    <3>2. owned'[blocks'[n].ptr] = sz
      BY <1>4, <2>1 DEF IInv, LedgerExact, Index
    <3> QED BY <2>1, <3>1, <3>2 DEF HeldFor
  <2>2. CASE i \in 1 .. Len(blocks)
    <3>1. blocks[i].ptr \in Ptr /\ blocks[i].sz = sz /\ blocks'[i].ptr = blocks[i].ptr
      BY <2>2, HeaderFields DEF IInv, TypeOK
    <3>2. blocks[i].free # 1
      BY <1>4, <2>2, <3>1 DEF FreeBlocks, Index
    <3>3. owned[blocks[i].ptr] = sz
      BY <2>2, <3>1, <3>2 DEF IInv, LedgerExact, Index
    <3> QED BY <3>1, <3>3 DEF HeldFor
  <2> QED BY <1>2, <2>1, <2>2
<1> QED BY <1>3, <1>4

LEMMA GrowIsWarranted ==
  ASSUME IInv, fault = "none", IInv', fault' = "none", NEW sz \in Size,
         NEW new \in Size, FreeBlocks(new) = {}, NEW p \in Ptr,
         blocks' = Append(blocks, NewBlock(p, new))
  PROVE  Warranted(sz)
<1>1. blocks \in Seq(Block)
  BY DEF IInv, TypeOK
<1>2. /\ Len(blocks') = Len(blocks) + 1
      /\ \A j \in 1 .. Len(blocks) : blocks'[j] = blocks[j]
      /\ blocks'[Len(blocks) + 1].sz = new
      /\ blocks'[Len(blocks) + 1].free = 0
  BY <1>1, HeaderAppended
<1> QED BY <1>2, AddedWhenNoneFree

LEMMA AllocIsWarranted ==
  ASSUME IInv, fault = "none", IInv', fault' = "none", NEW sz \in Size,
         NEW new \in Size, rune_alloc(new) \/ rune_calloc(new)
  PROVE  Warranted(sz)
<1>1. CASE ReuseBlock(new)
  <2>1. FindFreeBlock(new) \in 1 .. Len(blocks)
    BY <1>1, FoundFreeBlock DEF ReuseBlock, IInv, Index
  <2> QED BY <1>1, <2>1, FlagKeepsSizes DEF ReuseBlock, IInv
<1>2. CASE UNCHANGED blocks
  BY <1>2, SizesKept
<1>3. CASE /\ FreeBlocks(new) = {}
           /\ \E p \in Ptr : blocks' = Append(blocks, NewBlock(p, new))
  BY <1>3, GrowIsWarranted
<1> QED BY <1>1, <1>2, <1>3 DEF rune_alloc, rune_calloc, HeaderFails, PayloadFails, GrowPool

LEMMA ReallocIsWarranted ==
  ASSUME IInv, fault = "none", IInv', fault' = "none", NEW sz \in Size,
         NEW q \in Ptr \cup {NULL}, NEW new \in Size, rune_realloc(q, new)
  PROVE  Warranted(sz)
<1>1. CASE rune_alloc(new)
  BY <1>1, AllocIsWarranted
<1>2. CASE q # NULL /\ owned[q] # 0 /\ FreeBlocks(new) = {}
           /\ \E p \in Ptr \ heap : ReallocMove(q, p, new)
  <2>1. PICK p \in Ptr \ heap : ReallocMove(q, p, new)
    BY <1>2
  <2> DEFINE old == FindBlock(q)
             freed == [blocks EXCEPT ![old].free = 1]
  <2>2. blocks' = Append(freed, NewBlock(p, new))
    BY <2>1 DEF ReallocMove
  <2>3. blocks \in Seq(Block) /\ old \in 1 .. Len(blocks)
    BY <1>2, FoundBlock DEF IInv, TypeOK, LedgerExact, Index
  <2>4. 1 \in {0, 1} /\ freed = [blocks EXCEPT ![old].free = 1]
    OBVIOUS
  <2> HIDE DEF old, freed
  <2>5. /\ freed \in Seq(Block)
        /\ Len(freed) = Len(blocks)
        /\ \A j \in 1 .. Len(blocks) : freed[j].ptr = blocks[j].ptr /\ freed[j].sz = blocks[j].sz
    BY ONLY <2>3, <2>4, FlagSet
  <2>6. /\ Len(blocks') = Len(freed) + 1
        /\ \A j \in 1 .. Len(freed) : blocks'[j] = freed[j]
        /\ blocks'[Len(freed) + 1].sz = new
        /\ blocks'[Len(freed) + 1].free = 0
    BY <2>2, <2>5, HeaderAppended
  <2> QED BY <1>2, <2>5, <2>6, AddedWhenNoneFree
<1> QED BY <1>1, <1>2 DEF rune_realloc, ReallocOntoFreeBlock, HeaderFails, PayloadFails

LEMMA OthersAreWarranted ==
  ASSUME IInv, fault = "none", NEW sz \in Size,
         \/ \E p \in Ptr : rune_free(p)
         \/ rune_free_all
         \/ \E p \in Ptr, v \in Val : OwnerWrites(p, v)
  PROVE  Warranted(sz)
<1>1. CASE \E p \in Ptr : rune_free(p)
  <2>1. PICK p \in Ptr : rune_free(p)
    BY <1>1
  <2>2. CASE UNCHANGED blocks
    BY <2>2, SizesKept
  <2>3. CASE BlocksOf(p) # {} /\ blocks' = [blocks EXCEPT ![FindBlock(p)].free = 1]
    <3>1. FindBlock(p) \in 1 .. Len(blocks)
      BY <2>3, FoundBlock DEF IInv, Index
    <3> QED BY <2>3, <3>1, FlagKeepsSizes DEF IInv
  <2> QED BY <2>1, <2>2, <2>3 DEF rune_free, vars
<1>2. CASE rune_free_all
  <2>1. Len(blocks') = 0
    BY <1>2, EmptySeq DEF rune_free_all
  <2>2. HeadersOf(sz)' \subseteq HeadersOf(sz)
    BY <2>1 DEF HeadersOf, Index
  <2> QED BY <2>2 DEF Warranted
<1>3. CASE \E p \in Ptr, v \in Val : OwnerWrites(p, v)
  BY <1>3, SizesKept DEF OwnerWrites
<1> QED BY <1>1, <1>2, <1>3

LEMMA StepsAreWarranted ==
  ASSUME IInv, Next, IInv', fault' = "none", NEW sz \in Size
  PROVE  Warranted(sz)
BY AllocIsWarranted, ReallocIsWarranted, OthersAreWarranted DEF Next

LEMMA InitPInv == MCInit => PInv
<1> SUFFICES ASSUME MCInit PROVE PInv
  OBVIOUS
<1>1. IInv
  BY InitIInv DEF MCInit
<1>2. Len(blocks) = 0
  BY EmptySeq DEF MCInit, Init
<1>3. ASSUME NEW sz \in Size PROVE Cardinality(HeadersOf(sz)) = 0
  <2>1. HeadersOf(sz) = {}
    BY <1>2 DEF HeadersOf, Index
  <2> QED BY <2>1, FS_EmptySet
<1>4. peak \in [Size -> Nat] /\ \A sz \in Size : peak[sz] = 0
  BY DEF MCInit
<1> QED BY <1>1, <1>3, <1>4 DEF PInv, WithinPeak

LEMMA NextPInv == PInv /\ [MCNext]_<<vars, peak>> => PInv'
<1> SUFFICES ASSUME PInv, [MCNext]_<<vars, peak>> PROVE PInv'
  OBVIOUS
<1>1. CASE UNCHANGED <<vars, peak>>
  <2>1. IInv'
    BY <1>1, NextIInv DEF PInv
  <2>2. WithinPeak'
    BY <1>1 DEF vars, PInv, WithinPeak, HeadersOf, Index
  <2> QED BY <1>1, <2>1, <2>2 DEF PInv
<1>2. CASE MCNext
  <2>1. IInv' /\ fault = "none"
    BY <1>2, NextIInv DEF PInv, MCNext, Next
  <2>2. WithinPeak'
    <3> SUFFICES ASSUME fault' = "none", NEW sz \in Size
                 PROVE  peak'[sz] \in Nat /\ Cardinality(HeadersOf(sz)') <= peak'[sz]
      BY DEF WithinPeak
    <3>1. Warranted(sz)
      BY <1>2, <2>1, StepsAreWarranted DEF PInv, MCNext
    <3> QED BY <1>2, <2>1, <3>1, WarrantedFits DEF MCNext
  <2> QED BY <2>1, <2>2 DEF PInv
<1> QED BY <1>1, <1>2

\* For every size the pool holds at most as many headers as its callers ever
\* owned allocations of that size at one time: a freed block is always found
\* again before malloc is asked (alloc.c:34-44, 65-70).
THEOREM PoolGrowsWithDemand == MCSpec => []GrowsOnlyWithDemand
<1>1. PInv => GrowsOnlyWithDemand
  BY DEF PInv, WithinPeak, GrowsOnlyWithDemand, HeadersOf
<1> QED BY <1>1, InitPInv, NextPInv, PTL DEF MCSpec

=============================================================================
