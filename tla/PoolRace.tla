------------------------------ MODULE PoolRace ------------------------------
(***************************************************************************)
(* rune_alloc and rune_free of engine/core/alloc.c called by several       *)
(* threads, as the thread API does (thread.c:88-92, 116-130): nothing      *)
(* locks the list of blocks, so the calls interleave between accesses to   *)
(* it.  A step is one iteration of a walk or one write to a shared field.  *)
(*                                                                         *)
(* Abstracted: one size, as a search passes over blocks of another; a      *)
(* header stands for its payload too; malloc does not fail (PoolAlloc has  *)
(* it fail); prev links, which only rune_free_all uses.                    *)
(***************************************************************************)
EXTENDS Naturals

CONSTANTS
  Headers,      \* the headers malloc can return: bounds the pool
  Allocators,   \* threads that call rune_alloc
  Freers,       \* threads that call rune_free
  HEAD,         \* first_block
  NULL,         \* the null link
  JUNK          \* a link nobody has written yet

ASSUME RaceAssumption ==
  /\ {HEAD, NULL, JUNK} \cap Headers = {}
  /\ HEAD # NULL /\ HEAD # JUNK /\ NULL # JUNK

VARIABLES
  next,    \* next[h]: the list link of header h
  free,    \* free[h]: its free flag
  made,    \* the headers malloc has returned
  held,    \* held[h]: how many callers have h from rune_alloc
  pc,      \* pc[t]: where thread t is
  temp,    \* temp[t]: the header its walk is at
  mine,    \* mine[t]: the header it is adding or looking for
  leaked,  \* blocks taken while their caller was given something else
  fault    \* the undefined behaviour that ended the run, or "none"

vars == <<next, free, made, held, pc, temp, mine, leaked, fault>>

Threads == Allocators \cup Freers
Link == Headers \cup {HEAD, NULL, JUNK}

Init ==
  /\ next = [h \in Headers \cup {HEAD} |-> IF h = HEAD THEN NULL ELSE JUNK]
  /\ free = [h \in Headers \cup {HEAD} |-> 0]
  /\ made = {}
  /\ held = [h \in Headers |-> 0]
  /\ pc = [t \in Threads |-> "idle"]
  /\ temp = [t \in Threads |-> NULL]
  /\ mine = [t \in Threads |-> NULL]
  /\ leaked = {}
  /\ fault = "none"

Goto(t, place) == pc' = [pc EXCEPT ![t] = place]
StartWalk(t) == temp' = [temp EXCEPT ![t] = HEAD]

\* temp = temp->next.  A link nobody wrote leads anywhere.
Advance(t) ==
  /\ temp' = [temp EXCEPT ![t] = next[temp[t]]]
  /\ fault' = IF next[temp[t]] = JUNK THEN "wild link" ELSE fault

Return(t, h) ==
  /\ held' = [held EXCEPT ![h] = @ + 1]
  /\ Goto(t, "idle")

-----------------------------------------------------------------------------
(* rune_alloc.  The pool searches twice, here and again in _alloc_block.     *)

\* Calls beyond the bound on the pool are left out.
CallAlloc(t) ==
  /\ pc[t] = "idle"
  /\ made # Headers \/ \E h \in made : free[h] = 1
  /\ Goto(t, "search")
  /\ StartWalk(t)
  /\ UNCHANGED <<next, free, made, held, mine, leaked, fault>>

\* One iteration of _find_free_block, for the search that leads to the place
\* found when it finds a block and to missed when it does not.
FindFreeBlock(t, found, missed) ==
  /\ IF temp[t] = NULL
     THEN Goto(t, missed) /\ StartWalk(t) /\ UNCHANGED fault
     ELSE IF free[temp[t]] = 1
     THEN Goto(t, found) /\ UNCHANGED <<temp, fault>>
     ELSE Advance(t) /\ UNCHANGED pc
  /\ UNCHANGED <<next, free, made, held, mine, leaked>>

Search(t) == pc[t] = "search" /\ FindFreeBlock(t, "take", "research")
SearchAgain(t) == pc[t] = "research" /\ FindFreeBlock(t, "take payload", "make")

\* Mutant of Take: the block stays free.
TakeKeepsFree(t) ==
  /\ pc[t] = "take"
  /\ Return(t, temp[t])
  /\ UNCHANGED <<next, free, made, temp, mine, leaked, fault>>

Take(t) ==
  /\ pc[t] = "take"
  /\ free' = [free EXCEPT ![temp[t]] = 0]
  /\ Return(t, temp[t])
  /\ UNCHANGED <<next, made, temp, mine, leaked, fault>>

\* _alloc_block returns the payload of the block it found, rune_alloc reads
\* the payload's pointer through it as if it were the header: the caller gets
\* whatever that memory holds, and the block is nobody's.  What the caller then
\* does with the pointer is not modelled.
TakePayload(t) ==
  /\ pc[t] = "take payload"
  /\ free' = [free EXCEPT ![temp[t]] = 0]
  /\ leaked' = leaked \cup {temp[t]}
  /\ Goto(t, "idle")
  /\ UNCHANGED <<next, made, held, temp, mine, fault>>

\* malloc of a header and its payload; nobody else has it yet.
Make(t) ==
  /\ pc[t] = "make"
  /\ \E h \in Headers \ made :
       /\ made' = made \cup {h}
       /\ mine' = [mine EXCEPT ![t] = h]
       /\ free' = [free EXCEPT ![h] = 0]
  /\ Goto(t, "tail")
  /\ UNCHANGED <<next, held, temp, leaked, fault>>

\* Mutant of FindTail: the walk stops at the head.
FindTailNot(t) ==
  /\ pc[t] = "tail"
  /\ Goto(t, "link")
  /\ UNCHANGED <<next, free, made, held, temp, mine, leaked, fault>>

\* list_add: the walk to the last link, the link, and only then its end.
FindTail(t) ==
  /\ pc[t] = "tail"
  /\ IF next[temp[t]] = NULL
     THEN Goto(t, "link") /\ UNCHANGED <<temp, fault>>
     ELSE Advance(t) /\ UNCHANGED pc
  /\ UNCHANGED <<next, free, made, held, mine, leaked>>

LinkNew(t) ==
  /\ pc[t] = "link"
  /\ next' = [next EXCEPT ![temp[t]] = mine[t]]
  /\ Goto(t, "end")
  /\ UNCHANGED <<free, made, held, temp, mine, leaked, fault>>

\* Mutants of EndList: the list becomes circular; its end is never written.
EndListAtHead(t) ==
  /\ pc[t] = "end"
  /\ next' = [next EXCEPT ![mine[t]] = HEAD]
  /\ Return(t, mine[t])
  /\ UNCHANGED <<free, made, temp, mine, leaked, fault>>

EndListNot(t) ==
  /\ pc[t] = "end"
  /\ Return(t, mine[t])
  /\ UNCHANGED <<next, free, made, temp, mine, leaked, fault>>

EndList(t) ==
  /\ pc[t] = "end"
  /\ next' = [next EXCEPT ![mine[t]] = NULL]
  /\ Return(t, mine[t])
  /\ UNCHANGED <<free, made, temp, mine, leaked, fault>>

-----------------------------------------------------------------------------
(* rune_free.                                                                *)

CallFree(t) ==
  /\ pc[t] = "idle"
  /\ \E h \in Headers :
       /\ held[h] > 0
       /\ held' = [held EXCEPT ![h] = @ - 1]
       /\ mine' = [mine EXCEPT ![t] = h]
  /\ Goto(t, "find")
  /\ StartWalk(t)
  /\ UNCHANGED <<next, free, made, leaked, fault>>

\* _find_block; what it does not find is dereferenced all the same.
FindBlock(t) ==
  /\ pc[t] = "find"
  /\ IF temp[t] = NULL
     THEN fault' = "unknown pointer" /\ UNCHANGED <<pc, temp>>
     ELSE IF temp[t] = mine[t]
     THEN Goto(t, "release") /\ UNCHANGED <<temp, fault>>
     ELSE Advance(t) /\ UNCHANGED pc
  /\ UNCHANGED <<next, free, made, held, mine, leaked>>

Release(t) ==
  /\ pc[t] = "release"
  /\ free' = [free EXCEPT ![temp[t]] = 1]
  /\ Goto(t, "idle")
  /\ UNCHANGED <<next, made, held, temp, mine, leaked, fault>>

Alloc(t) == \/ CallAlloc(t) \/ Search(t) \/ Take(t) \/ SearchAgain(t) \/ TakePayload(t)
            \/ Make(t) \/ FindTail(t) \/ LinkNew(t) \/ EndList(t)
Free(t) == CallFree(t) \/ FindBlock(t) \/ Release(t)

Next ==
  /\ fault = "none"
  /\ \/ \E t \in Allocators : Alloc(t)
     \/ \E t \in Freers : Free(t)

Spec == Init /\ [][Next]_vars

\* A thread that is inside a call goes on with it.
FairSpec ==
  /\ Spec
  /\ \A t \in Threads : WF_vars(fault = "none" /\ pc[t] # "idle" /\ (Alloc(t) \/ Free(t)))

-----------------------------------------------------------------------------
TypeOK ==
  /\ next \in [Headers \cup {HEAD} -> Link]
  /\ free \in [Headers \cup {HEAD} -> {0, 1}]
  /\ made \subseteq Headers
  /\ held \in [Headers -> Nat]
  /\ pc \in [Threads -> {"idle", "search", "take", "research", "take payload", "make",
                         "tail", "link", "end", "find", "release"}]
  /\ temp \in [Threads -> Link \ {JUNK}]
  /\ mine \in [Threads -> Headers \cup {NULL}]
  /\ leaked \subseteq made
  /\ fault \in {"none", "wild link", "unknown pointer"}

\* The threads that are giving h back.
Returning(h) == {t \in Threads : pc[t] \in {"find", "release"} /\ mine[t] = h}

\* A block is in the hands of one caller at most, counting one that is giving
\* it back: nobody gets it before the call that frees it is done with it
\* (alloc.c:100-115, 148-160).
OneOwner ==
  \A h \in Headers : /\ held[h] <= 1
                     /\ held[h] = 1 => Returning(h) = {}
                     /\ \A t, u \in Returning(h) : t = u

\* A walk that follows next reaches no header but these.
Reached(S) == HEAD \in S /\ \A h \in S : next[h] \in Headers => next[h] \in S

\* Every block malloc returned is on the list or being added to it, and one in
\* nobody's hands is free: no race of a list_add with the walks loses one.  Only
\* the blocks leaked by a rune_alloc that found one on its second search are
\* nobody's and not free (list.h:40-48, alloc.c:34-56, 65-69).
NoneLost ==
  \A h \in made :
    \/ \E t \in Threads : pc[t] \in {"tail", "link", "end"} /\ mine[t] = h
    \/ /\ \A S \in SUBSET (Headers \cup {HEAD}) : Reached(S) => h \in S
       /\ held[h] = 0 /\ Returning(h) = {} /\ h \notin leaked => free[h] = 1

\* rune_free finds the block it is given, and no walk follows a link that was
\* not written yet, though list_add links a header before it ends it.
WalksStayInList == fault \notin {"unknown pointer", "wild link"}

\* Every call comes to its end, whatever the others are doing: no walk is led
\* in circles or kept on its way by a list that grows meanwhile, and none ends
\* the run (alloc.c:34-56, list.h:40-48).
CallsEnd == \A t \in Threads : pc[t] # "idle" ~> pc[t] = "idle"

=============================================================================
