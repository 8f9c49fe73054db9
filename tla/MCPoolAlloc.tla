----------------------------- MODULE MCPoolAlloc -----------------------------
(***************************************************************************)
(* Model checking PoolAlloc, with a history variable: the most callers     *)
(* have ever owned at the same time, per size.                             *)
(***************************************************************************)
EXTENDS PoolAlloc, FiniteSets, TLC

VARIABLE peak

Larger(a, b) == IF a > b THEN a ELSE b

\* Payloads of size sz that are owned at some point of the current step: a
\* resize owns the new one before it gives up the old one.
Demand(sz) == Cardinality({p \in Ptr : owned[p] = sz \/ owned'[p] = sz})

MCInit == Init /\ peak = [sz \in Size |-> 0]
MCNext == Next /\ peak' = [sz \in Size |-> Larger(peak[sz], Demand(sz))]
MCSpec == MCInit /\ [][MCNext]_<<vars, peak>>

\* The pool is no larger than its callers made it: for each size it has at
\* most as many headers as callers ever held allocations of that size at
\* once, because every freed block is found again (alloc.c:34-44, 65-70).
GrowsOnlyWithDemand ==
  fault = "none" =>
    \A sz \in Size :
      Cardinality({i \in Index : blocks[i].sz = sz}) <= peak[sz]

Symmetry == Permutations(Ptr) \cup Permutations(Val)
=============================================================================
