---------------------------- MODULE PoolContract ----------------------------
(***************************************************************************)
(* What the rest of the engine can rely on of include/rune/core/alloc.h,   *)
(* with nothing of how engine/core/alloc.c does it: a pointer handed out   *)
(* is not in anybody's hands already, it has the size asked for, its       *)
(* contents change only when its owner writes, resizing keeps the          *)
(* contents, and rune_calloc fills what it hands out, unless somebody had  *)
(* the same memory before.  That exception is not in alloc.h:45-51, which  *)
(* promises the fill of every block; alloc.c:122-127 returns a block that  *)
(* is used again as it is, so the promise as it stands there does not      *)
(* hold, and no caller may rely on it.  PoolAlloc is shown to implement    *)
(* this specification.                                                     *)
(***************************************************************************)
EXTENDS Naturals

CONSTANTS
  Ptr,      \* payload addresses malloc can return
  Size,     \* request sizes
  Content,  \* what an allocation can hold
  Zero,     \* the contents of an allocation filled by rune_calloc
  Junk      \* what the contents of an allocation nobody owns count as

VARIABLES
  owned,    \* owned[p]: size of p as its owner asked for it, 0 when not owned
  data,     \* data[p]: contents of p, Junk when not owned
  blank,    \* allocations asked for filled, and not written by their owner yet: what
            \* keeps a call of rune_calloc from passing for one of rune_alloc
  used      \* payloads that somebody had at some time, or that were lost

Init ==
  /\ owned = [p \in Ptr |-> 0]
  /\ data = [p \in Ptr |-> Junk]
  /\ blank = {}
  /\ used = {}

Give(p, sz, v) ==
  /\ owned[p] = 0
  /\ owned' = [owned EXCEPT ![p] = sz]
  /\ data' = [data EXCEPT ![p] = v]
  /\ used' = used \cup {p}

\* The contents of a new allocation are anything,
Alloc(p, sz, v) ==
  /\ Give(p, sz, v)
  /\ UNCHANGED blank

\* but the fill if it was asked for filled, and nobody had its memory before.
Calloc(p, sz, v) ==
  /\ Give(p, sz, v)
  /\ v = Zero \/ p \in used
  /\ blank' = blank \cup {p}

\* The owner stores v.
Store(p, v) ==
  /\ owned[p] # 0
  /\ data' = [data EXCEPT ![p] = v]
  /\ blank' = blank \ {p}
  /\ UNCHANGED <<owned, used>>

Release(p) ==
  /\ owned[p] # 0
  /\ owned' = [owned EXCEPT ![p] = 0]
  /\ data' = [data EXCEPT ![p] = Junk]
  /\ blank' = blank \ {p}
  /\ UNCHANGED used

\* A resize moves the allocation q, contents included, to p.
Resize(q, p, sz) ==
  /\ owned[q] # 0
  /\ owned[p] = 0
  /\ owned' = [owned EXCEPT ![q] = 0, ![p] = sz]
  /\ data' = [data EXCEPT ![q] = Junk, ![p] = data[q]]
  /\ blank' = blank \ {q}
  /\ used' = used \cup {p}

ReleaseAll ==
  /\ owned' = [p \in Ptr |-> 0]
  /\ data' = [p \in Ptr |-> Junk]
  /\ blank' = {}
  /\ UNCHANGED used

\* Memory taken by a call that does not come back: nobody has it.
Lose(p) ==
  /\ used' = used \cup {p}
  /\ UNCHANGED <<owned, data, blank>>

Next ==
  \/ \E p \in Ptr, sz \in Size, v \in Content : Alloc(p, sz, v) \/ Calloc(p, sz, v)
  \/ \E p \in Ptr, v \in Content : Store(p, v)
  \/ \E p \in Ptr : Release(p) \/ Lose(p)
  \/ \E q \in Ptr, p \in Ptr, sz \in Size : Resize(q, p, sz)
  \/ ReleaseAll

Spec == Init /\ [][Next]_<<owned, data, blank, used>>
=============================================================================
