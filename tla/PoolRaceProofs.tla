--------------------------- MODULE PoolRaceProofs ---------------------------
(***************************************************************************)
(* What holds of PoolRace for any number of headers and of threads that    *)
(* free, while only one thread allocates: no block has two owners, none is *)
(* lost, and no walk leaves the list.                                      *)
(*                                                                         *)
(* OneOwner is not inductive alone: a block is handed out because its flag *)
(* was found up, so a block whose flag is up must be in nobody's hands     *)
(* (FreeIsIdle), the flag must still be up when it is cleared (StillFree), *)
(* a header being added must be known to nobody else (NewIsUnknown,        *)
(* HandsApart), and a walk must end where it should (WalksRight).          *)
(***************************************************************************)
EXTENDS PoolRace, TLAPS

Place == {"idle", "search", "take", "research", "take payload", "make",
          "tail", "link", "end", "find", "release"}

Adding(t) == pc[t] \in {"tail", "link", "end"}
Freeing(t) == pc[t] \in {"find", "release"}
Taking(t) == pc[t] \in {"take", "take payload"}

Types ==
  /\ free \in [Headers \cup {HEAD} -> {0, 1}]
  /\ free[HEAD] = 0
  /\ made \subseteq Headers
  /\ held \in [Headers -> {0, 1}]
  /\ pc \in [Threads -> Place]
  /\ temp \in [Threads -> Link]
  /\ mine \in [Threads -> Headers \cup {NULL}]
  /\ next \in [Headers \cup {HEAD} -> Link]

\* Nobody has h, gives it back or is adding it to the list.
Unused(h) ==
  /\ held[h] = 0
  /\ \A t \in Threads : Freeing(t) \/ Adding(t) => mine[t] # h

\* The flag of a header is up only while the header is in nobody's hands, and
\* what malloc has not returned yet is in nobody's hands either.
FreeIsIdle == \A h \in Headers : free[h] = 1 => h \in made /\ Unused(h)
NewIsUnknown == \A h \in Headers \ made : Unused(h)

\* The flag a thread found up stays up until the thread clears it.
StillFree ==
  fault = "none" => \A t \in Threads : Taking(t) => temp[t] \in Headers /\ free[temp[t]] = 1

\* A header that is added or given back is in no other hands.
HandsApart ==
  \A t \in Threads :
    /\ Adding(t) \/ Freeing(t) => mine[t] \in Headers /\ held[mine[t]] = 0
    /\ \A u \in Threads : /\ (Adding(t) \/ Freeing(t)) /\ (Adding(u) \/ Freeing(u))
                          /\ mine[t] = mine[u]
                          => t = u

\* A walk is never at a link nobody wrote, the walk of a list_add never beyond
\* the last header, a thread about to release a block has found it, and only
\* allocating threads are in rune_alloc.
WalksRight ==
  /\ fault = "none" => \A t \in Threads : temp[t] # JUNK
  /\ \A t \in Threads : Adding(t) \/ pc[t] = "make" => temp[t] # NULL
  /\ \A t \in Threads : pc[t] = "release" => temp[t] = mine[t]
  /\ \A t \in Threads : Adding(t) \/ Taking(t) \/ pc[t] \in {"search", "research", "make"}
                         => t \in Allocators

IInv == /\ Types /\ FreeIsIdle /\ NewIsUnknown /\ StillFree /\ HandsApart /\ WalksRight

LEMMA IInvIsEnough == IInv => OneOwner
BY DEF IInv, OneOwner, Types, HandsApart, Returning, Freeing

\* Where t goes and where the others stay.
LEMMA Goes ==
  ASSUME Types, NEW t \in Threads, NEW p \in Place, Goto(t, p)
  PROVE  pc' \in [Threads -> Place] /\ pc'[t] = p /\ \A u \in Threads \ {t} : pc'[u] = pc[u]
BY DEF Types, Goto

\* What a search finds is not the head.
LEMMA FoundIsHeader ==
  ASSUME Types, NEW t \in Threads, temp[t] # NULL, temp[t] # JUNK, free[temp[t]] = 1
  PROVE  temp[t] \in Headers
<1>1. temp[t] \in Link /\ free[HEAD] = 0
  BY DEF Types
<1>2. temp[t] # HEAD
  BY <1>1
<1> QED BY <1>1, <1>2 DEF Link

-----------------------------------------------------------------------------
\* A step of t that only walks keeps the invariant.
LEMMA WalkKeepsIInv ==
  ASSUME IInv, NEW t \in Threads, fault = "none",
         UNCHANGED <<free, made, held, mine>>,
         next' \in [Headers \cup {HEAD} -> Link],
         pc' \in [Threads -> Place], temp' \in [Threads -> Link],
         \A u \in Threads \ {t} : pc'[u] = pc[u] /\ temp'[u] = temp[u],
         fault' = "none" => temp'[t] # JUNK,
         Taking(t)' => temp'[t] \in Headers /\ free[temp'[t]] = 1,
         Adding(t)' => Adding(t), Freeing(t)' => Freeing(t),
         pc'[t] = "release" => temp'[t] = mine[t],
         Adding(t)' \/ pc'[t] = "make" => temp'[t] # NULL,
         Adding(t)' \/ Taking(t)' \/ pc'[t] \in {"search", "research", "make"} => t \in Allocators
  PROVE  IInv'
<1> USE DEF IInv
<1>1. \A u \in Threads : /\ Adding(u)' => Adding(u)
                         /\ Freeing(u)' => Freeing(u)
  BY DEF Adding, Freeing
<1>2. \A h \in Headers : Unused(h) => Unused(h)'
  BY <1>1 DEF Unused
<1>3. Types'
  BY DEF Types
<1>4. FreeIsIdle' /\ NewIsUnknown'
  BY <1>2 DEF FreeIsIdle, NewIsUnknown
<1>5. StillFree'
  BY DEF StillFree, Taking
<1>6. HandsApart'
  BY <1>1 DEF HandsApart
<1>7. WalksRight'
  BY DEF WalksRight, Adding, Taking
<1> QED BY <1>3, <1>4, <1>5, <1>6, <1>7

LEMMA StartKeepsIInv == \A t \in Allocators : IInv /\ fault = "none" /\ CallAlloc(t) => IInv'
<1> SUFFICES ASSUME NEW t \in Allocators, IInv, fault = "none", CallAlloc(t) PROVE IInv'
  OBVIOUS
<1>1. t \in Threads /\ Types
  BY DEF Threads, IInv
<1>2. /\ Goto(t, "search") /\ temp' = [temp EXCEPT ![t] = HEAD]
      /\ UNCHANGED <<next, free, made, held, mine, fault>>
  BY DEF CallAlloc, StartWalk
<1>3. pc' \in [Threads -> Place] /\ pc'[t] = "search" /\ \A u \in Threads \ {t} : pc'[u] = pc[u]
  BY <1>1, <1>2, Goes DEF Place
<1>4. temp' \in [Threads -> Link] /\ temp'[t] = HEAD /\ \A u \in Threads \ {t} : temp'[u] = temp[u]
  BY <1>1, <1>2 DEF Types, Link
<1>5. ~ Taking(t)' /\ ~ Adding(t)' /\ ~ Freeing(t)'
  BY <1>3 DEF Taking, Adding, Freeing
<1> QED BY <1>1, <1>2, <1>3, <1>4, <1>5, RaceAssumption, WalkKeepsIInv DEF Types

\* The next header of a walk.
LEMMA AdvanceGoes ==
  ASSUME Types, NEW t \in Threads, Advance(t), temp[t] \in Headers \cup {HEAD}
  PROVE  /\ temp' \in [Threads -> Link] /\ \A u \in Threads \ {t} : temp'[u] = temp[u]
         /\ fault' = "none" => temp'[t] # JUNK
<1>1. temp' = [temp EXCEPT ![t] = next[temp[t]]] /\ next[temp[t]] \in Link
  BY DEF Types, Advance
<1> QED BY <1>1 DEF Types, Advance

LEMMA SearchKeepsIInv ==
  \A t \in Allocators : IInv /\ fault = "none" /\ (Search(t) \/ SearchAgain(t)) => IInv'
<1> SUFFICES ASSUME NEW t \in Allocators, IInv, fault = "none",
                    NEW found \in {"take", "take payload"}, NEW missed \in {"research", "make"},
                    FindFreeBlock(t, found, missed),
                    pc[t] \in {"search", "research"}
             PROVE  IInv'
  BY DEF Search, SearchAgain
<1>1. t \in Threads /\ Types /\ temp[t] # JUNK
      /\ UNCHANGED <<next, free, made, held, mine>>
  BY DEF Threads, IInv, WalksRight, FindFreeBlock
<1>2. ~ Adding(t) /\ ~ Freeing(t) /\ ~ Taking(t)
  BY DEF Adding, Freeing, Taking
<1>3. CASE temp[t] = NULL
  <2>1. Goto(t, missed) /\ temp' = [temp EXCEPT ![t] = HEAD] /\ fault' = fault
    BY <1>3 DEF FindFreeBlock, StartWalk
  <2>2. pc' \in [Threads -> Place] /\ pc'[t] = missed /\ \A u \in Threads \ {t} : pc'[u] = pc[u]
    BY <1>1, <2>1, Goes DEF Place
  <2>3. temp' \in [Threads -> Link] /\ temp'[t] = HEAD /\ \A u \in Threads \ {t} : temp'[u] = temp[u]
    BY <1>1, <2>1 DEF Types, Link
  <2>4. ~ Taking(t)' /\ ~ Adding(t)' /\ ~ Freeing(t)' /\ pc'[t] # "release"
    BY <2>2 DEF Taking, Adding, Freeing
  <2> QED BY <1>1, <2>2, <2>3, <2>4, RaceAssumption, WalkKeepsIInv DEF Types
<1>4. CASE temp[t] # NULL /\ free[temp[t]] = 1
  <2>1. Goto(t, found) /\ UNCHANGED <<temp, fault>>
    BY <1>4 DEF FindFreeBlock
  <2>2. pc' \in [Threads -> Place] /\ pc'[t] = found /\ \A u \in Threads \ {t} : pc'[u] = pc[u]
    BY <1>1, <2>1, Goes DEF Place
  <2>3. temp[t] \in Headers
    BY <1>1, <1>4, FoundIsHeader
  <2>4. ~ Adding(t)' /\ ~ Freeing(t)' /\ pc'[t] # "release"
    BY <2>2 DEF Adding, Freeing
  <2> QED BY <1>1, <1>4, <2>1, <2>2, <2>3, <2>4, WalkKeepsIInv DEF Types
<1>5. CASE temp[t] # NULL /\ free[temp[t]] # 1
  <2>1. Advance(t) /\ UNCHANGED pc
    BY <1>5 DEF FindFreeBlock
  <2>2. temp[t] \in Headers \cup {HEAD}
    BY <1>1, <1>5 DEF Types, Link
  <2>3. temp' \in [Threads -> Link] /\ (\A u \in Threads \ {t} : temp'[u] = temp[u])
        /\ (fault' = "none" => temp'[t] # JUNK)
    BY <1>1, <2>1, <2>2, AdvanceGoes
  <2>4. ~ Taking(t)' /\ ~ Adding(t)' /\ ~ Freeing(t)' /\ pc'[t] # "release"
    BY <1>2, <2>1 DEF Adding, Freeing, Taking
  <2> QED BY <1>1, <2>1, <2>3, <2>4, WalkKeepsIInv DEF Types
<1> QED BY <1>3, <1>4, <1>5

LEMMA ListAddKeepsIInv ==
  \A t \in Allocators : IInv /\ fault = "none" /\ (FindTail(t) \/ LinkNew(t)) => IInv'
<1> SUFFICES ASSUME NEW t \in Allocators, IInv, fault = "none", FindTail(t) \/ LinkNew(t)
             PROVE  IInv'
  OBVIOUS
<1>1. t \in Threads /\ Types /\ temp[t] # JUNK /\ Adding(t)
      /\ UNCHANGED <<free, made, held, mine>>
  BY DEF Threads, IInv, WalksRight, FindTail, LinkNew, Adding
<1>2. CASE FindTail(t) /\ next[temp[t]] = NULL
  <2>1. Goto(t, "link") /\ UNCHANGED <<temp, fault, next>>
    BY <1>2 DEF FindTail
  <2>2. pc' \in [Threads -> Place] /\ pc'[t] = "link" /\ \A u \in Threads \ {t} : pc'[u] = pc[u]
    BY <1>1, <2>1, Goes DEF Place
  <2>3. ~ Taking(t)' /\ ~ Freeing(t)' /\ pc'[t] # "release"
    BY <2>2 DEF Taking, Freeing
  <2>4. temp[t] # NULL
    BY <1>1 DEF IInv, WalksRight
  <2> QED BY <1>1, <2>1, <2>2, <2>3, <2>4, WalkKeepsIInv DEF Types
<1>3. CASE FindTail(t) /\ next[temp[t]] # NULL
  <2>1. Advance(t) /\ temp'[t] = next[temp[t]] /\ UNCHANGED <<pc, next>>
    BY <1>1, <1>3 DEF FindTail, Advance, Types
  <2>2. temp[t] \in Headers \cup {HEAD}
    <3>1. temp[t] \in Link /\ temp[t] # NULL
      BY <1>1 DEF Types, IInv, WalksRight
    <3> QED BY <1>1, <3>1 DEF Link
  <2>3. temp' \in [Threads -> Link] /\ (\A u \in Threads \ {t} : temp'[u] = temp[u])
        /\ (fault' = "none" => temp'[t] # JUNK)
    BY <1>1, <2>1, <2>2, AdvanceGoes
  <2>4. ~ Taking(t)' /\ ~ Freeing(t)' /\ pc'[t] # "release"
    BY <1>1, <2>1 DEF Adding, Taking, Freeing
  <2> QED BY <1>1, <1>3, <2>1, <2>3, <2>4, WalkKeepsIInv DEF Types
<1>4. CASE LinkNew(t)
  <2>1. Goto(t, "end") /\ UNCHANGED <<temp, fault>> /\ next' = [next EXCEPT ![temp[t]] = mine[t]]
    BY <1>4 DEF LinkNew
  <2>2. pc' \in [Threads -> Place] /\ pc'[t] = "end" /\ \A u \in Threads \ {t} : pc'[u] = pc[u]
    BY <1>1, <2>1, Goes DEF Place
  <2>3. next' \in [Headers \cup {HEAD} -> Link]
    BY <1>1, <2>1 DEF Types, Link
  <2>4. ~ Taking(t)' /\ ~ Freeing(t)' /\ pc'[t] # "release"
    BY <2>2 DEF Taking, Freeing
  <2>5. temp[t] # NULL
    BY <1>1 DEF IInv, WalksRight
  <2> QED BY <1>1, <2>1, <2>2, <2>3, <2>4, <2>5, WalkKeepsIInv DEF Types
<1> QED BY <1>2, <1>3, <1>4 DEF FindTail

-----------------------------------------------------------------------------
(* The steps that change who has what.  Only one thread allocates.           *)

OneAllocator == \A t, u \in Allocators : t = u

\* The allocating thread takes a block whose flag it found up.
LEMMA TakeKeepsIInv ==
  ASSUME OneAllocator
  PROVE  \A t \in Allocators : IInv /\ fault = "none" /\ (Take(t) \/ TakePayload(t)) => IInv'
<1> SUFFICES ASSUME NEW t \in Allocators, IInv, fault = "none", Take(t) \/ TakePayload(t)
             PROVE  IInv'
  OBVIOUS
<1> DEFINE h == temp[t]
<1>1. t \in Threads /\ Types /\ Taking(t)
      /\ free' = [free EXCEPT ![h] = 0] /\ UNCHANGED <<next, made, temp, mine>>
  BY DEF Threads, IInv, Take, TakePayload, Taking
<1>2. h \in Headers /\ free[h] = 1 /\ h \in made /\ Unused(h)
  BY <1>1 DEF IInv, StillFree, FreeIsIdle
<1>3. /\ pc' \in [Threads -> Place]
      /\ \A u \in Threads \ {t} : pc'[u] = pc[u]
      /\ ~ Adding(t)' /\ ~ Freeing(t)' /\ ~ Taking(t)' /\ pc'[t] = "idle"
  <2>1. Goto(t, "idle")
    BY DEF Take, TakePayload, Return
  <2> QED BY <1>1, <2>1, Goes DEF Place, Adding, Freeing, Taking
<1>4. held' \in [Headers -> {0, 1}] /\ \A g \in Headers \ {h} : held'[g] = held[g]
  <2>1. held[h] = 0
    BY <1>2 DEF Unused
  <2>2. held' = [held EXCEPT ![h] = held[h] + 1] \/ held' = held
    BY DEF Take, TakePayload, Return
  <2>3. held \in [Headers -> {0, 1}] /\ held[h] + 1 = 1
    BY <1>1, <2>1 DEF Types
  <2> QED BY <1>2, <2>2, <2>3
<1> HIDE DEF h
<1>5. free' \in [Headers \cup {HEAD} -> {0, 1}] /\ free'[h] = 0 /\ free'[HEAD] = 0
      /\ \A g \in Headers \ {h} : free'[g] = free[g]
  BY <1>1, <1>2 DEF Types
<1>6. \A u \in Threads : /\ Adding(u)' => u # t /\ Adding(u) /\ mine[u] # h
                         /\ Freeing(u)' => u # t /\ Freeing(u) /\ mine[u] # h
                         /\ ~ Taking(u)'
  BY <1>1, <1>2, <1>3 DEF IInv, Unused, Adding, Freeing, Taking, WalksRight, OneAllocator
<1>7. Types'
  BY <1>1, <1>3, <1>4, <1>5 DEF Types
<1>8. FreeIsIdle' /\ NewIsUnknown'
  BY <1>1, <1>2, <1>4, <1>5, <1>6 DEF IInv, FreeIsIdle, NewIsUnknown, Unused
<1>9. HandsApart'
  BY <1>1, <1>4, <1>6 DEF IInv, HandsApart
<1>10. WalksRight'
  BY <1>1, <1>3, <1>6 DEF IInv, WalksRight, Taking
<1>11. StillFree'
  BY <1>3, <1>6 DEF StillFree, Take, TakePayload
<1> QED BY <1>7, <1>8, <1>9, <1>10, <1>11 DEF IInv

\* The allocating thread gets a new header from malloc.
LEMMA MakeKeepsIInv ==
  ASSUME OneAllocator
  PROVE  \A t \in Allocators : IInv /\ fault = "none" /\ Make(t) => IInv'
<1> SUFFICES ASSUME NEW t \in Allocators, IInv, fault = "none", Make(t) PROVE IInv'
  OBVIOUS
<1>1. t \in Threads /\ Types /\ pc[t] = "make" /\ Goto(t, "tail")
      /\ UNCHANGED <<next, held, temp, fault>>
  BY DEF Threads, IInv, Make
<1>2. PICK h \in Headers \ made :
        /\ made' = made \cup {h} /\ mine' = [mine EXCEPT ![t] = h] /\ free' = [free EXCEPT ![h] = 0]
  BY DEF Make
<1>3. Unused(h)
  BY DEF IInv, NewIsUnknown
<1>4. pc' \in [Threads -> Place] /\ pc'[t] = "tail" /\ \A u \in Threads \ {t} : pc'[u] = pc[u]
  BY <1>1, Goes DEF Place
<1>5. mine' \in [Threads -> Headers \cup {NULL}] /\ mine'[t] = h
      /\ \A u \in Threads \ {t} : mine'[u] = mine[u]
  BY <1>1, <1>2 DEF Types
<1>6. free' \in [Headers \cup {HEAD} -> {0, 1}] /\ free'[h] = 0 /\ free'[HEAD] = 0
      /\ \A g \in Headers \ {h} : free'[g] = free[g]
  BY <1>1, <1>2 DEF Types
<1>7. \A u \in Threads : /\ Adding(u)' => u = t
                         /\ Freeing(u)' => u # t /\ Freeing(u) /\ mine[u] # h
                         /\ ~ Taking(u)'
  BY <1>1, <1>3, <1>4 DEF IInv, Unused, Adding, Freeing, Taking, WalksRight, OneAllocator
<1>8. Adding(t)' /\ ~ Freeing(t)' /\ held[h] = 0
  BY <1>3, <1>4 DEF Adding, Freeing, Unused
<1>9. Types'
  BY <1>1, <1>2, <1>4, <1>5, <1>6 DEF Types
<1>10. FreeIsIdle' /\ NewIsUnknown'
  BY <1>1, <1>2, <1>3, <1>5, <1>6, <1>7 DEF IInv, FreeIsIdle, NewIsUnknown, Unused
<1>11. StillFree' /\ WalksRight'
  BY <1>1, <1>4, <1>5, <1>7 DEF IInv, StillFree, WalksRight
<1>12. HandsApart'
  BY <1>1, <1>5, <1>7, <1>8 DEF IInv, HandsApart
<1> QED BY <1>9, <1>10, <1>11, <1>12 DEF IInv

\* The new header goes to the caller.
LEMMA EndListKeepsIInv ==
  ASSUME OneAllocator
  PROVE  \A t \in Allocators : IInv /\ fault = "none" /\ EndList(t) => IInv'
<1> SUFFICES ASSUME NEW t \in Allocators, IInv, fault = "none", EndList(t) PROVE IInv'
  OBVIOUS
<1> DEFINE h == mine[t]
<1>1. t \in Threads /\ Types /\ Adding(t) /\ Goto(t, "idle")
      /\ next' = [next EXCEPT ![h] = NULL] /\ held' = [held EXCEPT ![h] = held[h] + 1]
      /\ UNCHANGED <<free, made, temp, mine, fault>>
  BY DEF Threads, IInv, EndList, Return, Adding
<1>2. h \in Headers /\ held[h] = 0
  BY <1>1 DEF IInv, HandsApart
<1>3. held' \in [Headers -> {0, 1}] /\ held'[h] = 1 /\ \A g \in Headers \ {h} : held'[g] = held[g]
  <2>1. held \in [Headers -> {0, 1}] /\ held[h] + 1 = 1
    BY <1>1, <1>2 DEF Types
  <2> QED BY <1>1, <1>2, <2>1
<1>4. pc' \in [Threads -> Place] /\ pc'[t] = "idle" /\ \A u \in Threads \ {t} : pc'[u] = pc[u]
  BY <1>1, Goes DEF Place
<1>5. next' \in [Headers \cup {HEAD} -> Link]
  BY <1>1 DEF Types, Link
<1>6. free[h] # 1 /\ h \in made
  BY <1>1, <1>2 DEF IInv, FreeIsIdle, NewIsUnknown, Unused
<1>7. \A u \in Threads : /\ Adding(u)' => u # t /\ Adding(u) /\ mine[u] # h
                         /\ Freeing(u)' => u # t /\ Freeing(u) /\ mine[u] # h
                         /\ ~ Taking(u)'
  BY <1>1, <1>4 DEF IInv, HandsApart, Adding, Freeing, Taking, WalksRight, OneAllocator
<1> HIDE DEF h
<1>8. Types'
  BY <1>1, <1>3, <1>4, <1>5 DEF Types
<1>9. FreeIsIdle' /\ NewIsUnknown'
  BY <1>1, <1>3, <1>6, <1>7 DEF IInv, FreeIsIdle, NewIsUnknown, Unused
<1>10. StillFree' /\ WalksRight'
  BY <1>1, <1>4, <1>7 DEF IInv, StillFree, WalksRight
<1>11. HandsApart'
  BY <1>1, <1>3, <1>7 DEF IInv, HandsApart
<1> QED BY <1>8, <1>9, <1>10, <1>11 DEF IInv

\* A caller gives a block up and goes to look for it.
LEMMA CallFreeKeepsIInv ==
  \A t \in Freers : IInv /\ fault = "none" /\ CallFree(t) => IInv'
<1> SUFFICES ASSUME NEW t \in Freers, IInv, fault = "none", CallFree(t) PROVE IInv'
  OBVIOUS
<1>1. t \in Threads /\ Types /\ pc[t] = "idle" /\ Goto(t, "find")
      /\ temp' = [temp EXCEPT ![t] = HEAD] /\ UNCHANGED <<next, free, made, fault>>
  BY DEF Threads, IInv, CallFree, StartWalk
<1>2. PICK h \in Headers : /\ held[h] > 0 /\ held' = [held EXCEPT ![h] = held[h] - 1]
                           /\ mine' = [mine EXCEPT ![t] = h]
  BY DEF CallFree
<1>3. held[h] = 1 /\ held' \in [Headers -> {0, 1}] /\ held'[h] = 0
      /\ \A g \in Headers \ {h} : held'[g] = held[g]
  <2>1. held \in [Headers -> {0, 1}]
    BY <1>1 DEF Types
  <2>2. held[h] = 1 /\ held[h] - 1 = 0
    BY <1>2, <2>1
  <2> QED BY <1>2, <2>1, <2>2
<1>4. pc' \in [Threads -> Place] /\ pc'[t] = "find" /\ \A u \in Threads \ {t} : pc'[u] = pc[u]
  BY <1>1, Goes DEF Place
<1>5. mine' \in [Threads -> Headers \cup {NULL}] /\ mine'[t] = h
      /\ \A u \in Threads \ {t} : mine'[u] = mine[u]
  BY <1>1, <1>2 DEF Types
<1>6. temp' \in [Threads -> Link] /\ temp'[t] = HEAD /\ \A u \in Threads \ {t} : temp'[u] = temp[u]
  BY <1>1 DEF Types, Link
<1>7. \A u \in Threads \ {t} : Adding(u) \/ Freeing(u) => mine[u] # h
  BY <1>3 DEF IInv, HandsApart
<1>8. /\ \A u \in Threads \ {t} : (Adding(u)' <=> Adding(u)) /\ (Freeing(u)' <=> Freeing(u))
                                  /\ (Taking(u)' <=> Taking(u))
      /\ ~ Adding(t)' /\ ~ Taking(t)' /\ Freeing(t)'
  BY <1>4 DEF Adding, Freeing, Taking
<1>9. h \in made /\ free[h] # 1
  BY <1>3 DEF IInv, FreeIsIdle, NewIsUnknown, Unused
<1>10. Types'
  BY <1>1, <1>3, <1>4, <1>5, <1>6 DEF Types
<1>11. FreeIsIdle' /\ NewIsUnknown'
  BY <1>1, <1>3, <1>5, <1>8, <1>9 DEF IInv, FreeIsIdle, NewIsUnknown, Unused
<1>12. StillFree' /\ WalksRight'
  BY <1>1, <1>4, <1>5, <1>6, <1>8, RaceAssumption DEF IInv, StillFree, WalksRight
<1>13. HandsApart'
  BY <1>3, <1>5, <1>7, <1>8 DEF IInv, HandsApart
<1> QED BY <1>10, <1>11, <1>12, <1>13 DEF IInv

LEMMA FindKeepsIInv == \A t \in Freers : IInv /\ fault = "none" /\ FindBlock(t) => IInv'
<1> SUFFICES ASSUME NEW t \in Freers, IInv, fault = "none", FindBlock(t) PROVE IInv'
  OBVIOUS
<1>1. t \in Threads /\ Types /\ temp[t] # JUNK /\ pc[t] = "find" /\ Freeing(t)
      /\ ~ Adding(t) /\ ~ Taking(t) /\ UNCHANGED <<next, free, made, held, mine>>
  BY DEF Threads, IInv, WalksRight, FindBlock, Freeing, Adding, Taking
<1>2. CASE temp[t] = NULL
  <2>1. fault' = "unknown pointer" /\ UNCHANGED <<pc, temp>>
    BY <1>2 DEF FindBlock
  <2> QED BY <1>1, <2>1, WalkKeepsIInv DEF Types, Adding, Taking, Freeing
<1>3. CASE temp[t] # NULL /\ temp[t] = mine[t]
  <2>1. Goto(t, "release") /\ UNCHANGED <<temp, fault>>
    BY <1>3 DEF FindBlock
  <2>2. pc' \in [Threads -> Place] /\ pc'[t] = "release" /\ \A u \in Threads \ {t} : pc'[u] = pc[u]
    BY <1>1, <2>1, Goes DEF Place
  <2>3. ~ Taking(t)' /\ ~ Adding(t)'
    BY <2>2 DEF Taking, Adding
  <2> QED BY <1>1, <1>3, <2>1, <2>2, <2>3, WalkKeepsIInv DEF Types
<1>4. CASE temp[t] # NULL /\ temp[t] # mine[t]
  <2>1. Advance(t) /\ UNCHANGED pc
    BY <1>4 DEF FindBlock
  <2>2. temp[t] \in Headers \cup {HEAD}
    BY <1>1, <1>4 DEF Types, Link
  <2>3. temp' \in [Threads -> Link] /\ (\A u \in Threads \ {t} : temp'[u] = temp[u])
        /\ (fault' = "none" => temp'[t] # JUNK)
    BY <1>1, <2>1, <2>2, AdvanceGoes
  <2>4. ~ Taking(t)' /\ ~ Adding(t)' /\ Freeing(t)'
    BY <1>1, <2>1 DEF Adding, Freeing, Taking
  <2> QED BY <1>1, <2>1, <2>3, <2>4, WalkKeepsIInv DEF Types
<1> QED BY <1>2, <1>3, <1>4

\* The flag goes up when nobody has the block any more.
LEMMA ReleaseKeepsIInv ==
  \A t \in Freers : IInv /\ fault = "none" /\ Release(t) => IInv'
<1> SUFFICES ASSUME NEW t \in Freers, IInv, fault = "none", Release(t) PROVE IInv'
  OBVIOUS
<1> DEFINE h == mine[t]
<1>1. t \in Threads /\ Types /\ Freeing(t) /\ Goto(t, "idle") /\ temp[t] = h
      /\ UNCHANGED <<next, made, held, temp, mine, fault>>
  BY DEF Threads, IInv, Release, Freeing, WalksRight
<1>2. h \in Headers /\ held[h] = 0 /\ h \in made
      /\ \A u \in Threads \ {t} : Adding(u) \/ Freeing(u) => mine[u] # h
  BY <1>1 DEF IInv, HandsApart, NewIsUnknown, Unused
<1>3. free' = [free EXCEPT ![h] = 1]
  BY <1>1 DEF Release
<1> HIDE DEF h
<1>4. pc' \in [Threads -> Place] /\ pc'[t] = "idle" /\ \A u \in Threads \ {t} : pc'[u] = pc[u]
  BY <1>1, Goes DEF Place
<1>5. free' \in [Headers \cup {HEAD} -> {0, 1}] /\ free'[HEAD] = 0
      /\ \A g \in Headers : free[g] = 1 => free'[g] = 1
  <2>1. HEAD # h
    BY <1>2, RaceAssumption
  <2> QED BY <1>1, <1>2, <1>3, <2>1 DEF Types
<1>6. \A g \in Headers \ {h} : free'[g] = free[g]
  BY <1>1, <1>2, <1>3 DEF Types
<1>7. /\ \A u \in Threads \ {t} : (Adding(u)' <=> Adding(u)) /\ (Freeing(u)' <=> Freeing(u))
                                  /\ (Taking(u)' <=> Taking(u))
      /\ ~ Adding(t)' /\ ~ Taking(t)' /\ ~ Freeing(t)'
  BY <1>4 DEF Adding, Freeing, Taking
<1>8. Types'
  BY <1>1, <1>4, <1>5 DEF Types
<1>9. FreeIsIdle' /\ NewIsUnknown'
  BY <1>1, <1>2, <1>6, <1>7 DEF IInv, FreeIsIdle, NewIsUnknown, Unused
<1>10. StillFree' /\ WalksRight'
  BY <1>1, <1>4, <1>5, <1>7 DEF IInv, StillFree, WalksRight
<1>11. HandsApart'
  BY <1>1, <1>7 DEF IInv, HandsApart
<1> QED BY <1>8, <1>9, <1>10, <1>11 DEF IInv

LEMMA InitIInv == Init => IInv
<1> SUFFICES ASSUME Init PROVE IInv
  OBVIOUS
<1>1. Types
  BY DEF Init, Types, Place, Link
<1>2. \A t \in Threads : ~ Adding(t) /\ ~ Freeing(t) /\ ~ Taking(t) /\ pc[t] = "idle" /\ temp[t] = NULL
  BY DEF Init, Adding, Freeing, Taking
<1>3. \A h \in Headers : held[h] = 0
  BY DEF Init
<1>4. \A h \in Headers \cup {HEAD} : free[h] = 0
  BY DEF Init
<1>5. \A h \in Headers : free[h] # 1
  BY <1>4
<1> QED BY <1>1, <1>2, <1>3, <1>4, <1>5, RaceAssumption
       DEF IInv, FreeIsIdle, NewIsUnknown, Unused, StillFree, HandsApart, WalksRight

LEMMA NextIInv ==
  ASSUME OneAllocator
  PROVE  IInv /\ [Next]_vars => IInv'
<1> SUFFICES ASSUME IInv, [Next]_vars PROVE IInv'
  OBVIOUS
<1>1. CASE UNCHANGED vars
  BY <1>1 DEF vars, IInv, Types, FreeIsIdle, NewIsUnknown, Unused, StillFree, HandsApart, WalksRight,
              Adding, Freeing, Taking
<1>2. CASE fault = "none" /\ \E t \in Allocators : Alloc(t)
  BY <1>2, StartKeepsIInv, SearchKeepsIInv, TakeKeepsIInv, MakeKeepsIInv, ListAddKeepsIInv,
     EndListKeepsIInv DEF Alloc
<1>3. CASE fault = "none" /\ \E t \in Freers : Free(t)
  BY <1>3, CallFreeKeepsIInv, FindKeepsIInv, ReleaseKeepsIInv DEF Free
<1> QED BY <1>1, <1>2, <1>3 DEF Next

\* While only one thread allocates, however many threads free and however many
\* blocks there are, no block is in two callers' hands, a call that is giving
\* it back counted (alloc.c:100-115, 148-160).
THEOREM OneOwnerPerBlock ==
  ASSUME OneAllocator
  PROVE  Spec => []OneOwner
<1>1. Spec => []IInv
  BY InitIInv, NextIInv, PTL DEF Spec
<1> QED BY <1>1, IInvIsEnough, PTL

-----------------------------------------------------------------------------
(***************************************************************************)
(* No block is lost, and no walk leaves the list, while only one thread    *)
(* allocates: links are only ever added, at the end, so what a walk has    *)
(* before it stays there.                                                  *)
(***************************************************************************)

Nodes == Headers \cup {HEAD}

\* A walk along the links nx that is at x has h before it, or is at it.
Onward(nx, x, h) ==
  \A S \in SUBSET Nodes : x \in S /\ (\A g \in S : nx[g] \in Headers => nx[g] \in S) => h \in S

Added(h) == \E t \in Threads : Adding(t) /\ mine[t] = h

\* Links lead to headers malloc has returned; only the header being added has a
\* link nobody wrote.
Links ==
  /\ \A h \in Nodes : next[h] \in made \cup {NULL, JUNK}
  /\ next[HEAD] # JUNK
  /\ \A h \in made : next[h] = JUNK => Added(h)
  /\ \A h \in Headers \ made : next[h] = JUNK

AllListed == \A h \in made : Added(h) \/ Onward(next, HEAD, h)

\* A block in nobody's hands is free, if it was not leaked.
NoneIdle ==
  \A h \in made :
    Added(h) \/ held[h] > 0 \/ Returning(h) # {} \/ free[h] = 1 \/ h \in leaked

\* What thread t knows of the list: where a list_add is, that a search is at
\* the head, at a header or at the end, and that rune_free has its block before
\* it.
Knows(t) ==
  /\ Adding(t) => /\ mine[t] \in made /\ next[mine[t]] = JUNK
                  /\ temp[t] \in made \cup {HEAD} /\ Onward(next, HEAD, temp[t])
  /\ pc[t] \in {"tail", "link"} => /\ temp[t] # mine[t]
                                   /\ \A h \in Nodes : next[h] # mine[t]
  /\ pc[t] = "link" => next[temp[t]] = NULL
  /\ pc[t] = "end" => Onward(next, HEAD, mine[t])
  /\ pc[t] \in {"search", "research"} => temp[t] \in made \cup {HEAD, NULL}
  /\ pc[t] = "make" => temp[t] = HEAD
  /\ pc[t] = "find" => temp[t] \in Nodes /\ Onward(next, temp[t], mine[t])

ListInv == Links /\ AllListed /\ NoneIdle /\ \A t \in Threads : Knows(t)

\* A walk comes on from where it is.
LEMMA OnwardStep ==
  ASSUME NEW nx, NEW x \in Nodes, NEW a, Onward(nx, a, x), nx[x] \in Headers
  PROVE  Onward(nx, a, nx[x])
BY DEF Onward

\* A walk that is not at h yet, and has it before it, goes on to a header that
\* has it before it.
LEMMA OnwardNext ==
  ASSUME NEW nx, NEW x \in Nodes, NEW h, x # h, Onward(nx, x, h)
  PROVE  nx[x] \in Headers /\ Onward(nx, nx[x], h)
<1>1. nx[x] \in Headers
  <2> SUFFICES ASSUME nx[x] \notin Headers PROVE FALSE
    OBVIOUS
  <2>1. {x} \in SUBSET Nodes /\ x \in {x} /\ \A g \in {x} : nx[g] \in Headers => nx[g] \in {x}
    OBVIOUS
  <2>2. h \in {x}
    BY <2>1 DEF Onward
  <2> QED BY <2>2
<1>2. ASSUME NEW S \in SUBSET Nodes, nx[x] \in S, \A g \in S : nx[g] \in Headers => nx[g] \in S
      PROVE  h \in S
  <2>1. S \cup {x} \in SUBSET Nodes /\ x \in S \cup {x}
        /\ \A g \in S \cup {x} : nx[g] \in Headers => nx[g] \in S \cup {x}
    BY <1>2
  <2>2. h \in S \cup {x}
    BY <2>1 DEF Onward
  <2> QED BY <2>2
<1> QED BY <1>1, <1>2 DEF Onward

\* Links that are only added leave before a walk what was before it.
LEMMA OnwardGrows ==
  ASSUME NEW nx, NEW ny, \A g \in Nodes : nx[g] \in Headers => ny[g] = nx[g]
  PROVE  \A x, h : Onward(nx, x, h) => Onward(ny, x, h)
<1> SUFFICES ASSUME NEW x, NEW h, Onward(nx, x, h), NEW S \in SUBSET Nodes, x \in S,
                    \A g \in S : ny[g] \in Headers => ny[g] \in S
             PROVE  h \in S
  BY DEF Onward
<1>1. \A g \in S : nx[g] \in Headers => nx[g] \in S
  OBVIOUS
<1> QED BY <1>1 DEF Onward

LEMMA OnwardSelf == \A nx, x : Onward(nx, x, x)
BY DEF Onward

\* Only one thread adds, and then it does nothing else.
LEMMA OneAdds ==
  ASSUME OneAllocator, IInv, NEW t \in Allocators
  PROVE  \A h : Added(h) <=> Adding(t) /\ mine[t] = h
<1>1. t \in Threads /\ \A u \in Threads : Adding(u) => u = t
  BY DEF OneAllocator, Threads, IInv, WalksRight
<1> QED BY <1>1 DEF Added

\* What a thread knows stays true while others walk.
LEMMA OthersKnow ==
  ASSUME ListInv, NEW t \in Threads, UNCHANGED <<next, made, mine>>,
         \A u \in Threads \ {t} : pc'[u] = pc[u] /\ temp'[u] = temp[u]
  PROVE  \A u \in Threads \ {t} : Knows(u)'
<1> SUFFICES ASSUME NEW u \in Threads \ {t} PROVE Knows(u)'
  OBVIOUS
<1>1. Knows(u) /\ pc'[u] = pc[u] /\ temp'[u] = temp[u] /\ mine'[u] = mine[u]
      /\ next' = next /\ made' = made
  BY DEF ListInv
<1> QED BY <1>1 DEF Knows, Adding

\* A step of t that only walks keeps the list, if t knows where it is.
LEMMA WalkKeepsList ==
  ASSUME ListInv, NEW t \in Threads, UNCHANGED <<next, free, made, held, mine, leaked>>,
         \A u \in Threads \ {t} : pc'[u] = pc[u] /\ temp'[u] = temp[u],
         Adding(t)' <=> Adding(t), Freeing(t)' <=> Freeing(t), Knows(t)'
  PROVE  ListInv'
<1>1. \A h : Added(h)' <=> Added(h)
  BY DEF Added, Adding
<1>2. \A h : Returning(h)' = Returning(h)
  BY DEF Returning, Freeing
<1>3. Links' /\ AllListed' /\ NoneIdle'
  BY <1>1, <1>2 DEF ListInv, Links, AllListed, NoneIdle
<1>4. \A u \in Threads : Knows(u)'
  BY OthersKnow
<1> QED BY <1>3, <1>4 DEF ListInv

\* rune_alloc starts, and searches: a search that is over starts at the head
\* again.
LEMMA SearchKeepsList ==
  ASSUME OneAllocator, IInv, ListInv, fault = "none", NEW t \in Allocators,
         CallAlloc(t) \/ Search(t) \/ SearchAgain(t)
  PROVE  ListInv' /\ fault' = "none"
<1>1. t \in Threads /\ Types /\ UNCHANGED <<next, free, made, held, mine, leaked>> /\ ~ Adding(t) /\ ~ Freeing(t)
      /\ temp \in [Threads -> Link]
  BY DEF Threads, IInv, Types, CallAlloc, Search, SearchAgain, FindFreeBlock, Adding, Freeing
<1>2. ASSUME NEW p \in Place \ {"tail", "link", "end", "find", "release"}, Goto(t, p)
      PROVE  /\ pc'[t] = p /\ ~ Adding(t)' /\ ~ Freeing(t)'
             /\ \A u \in Threads \ {t} : pc'[u] = pc[u]
  BY <1>1, <1>2, Goes DEF Adding, Freeing
<1>3. ASSUME NEW p \in Place \ {"tail", "link", "end", "find", "release"}, Goto(t, p),
             StartWalk(t), UNCHANGED fault
      PROVE  ListInv' /\ fault' = "none"
  <2>1. temp'[t] = HEAD /\ \A u \in Threads \ {t} : temp'[u] = temp[u]
    BY <1>1, <1>3 DEF StartWalk
  <2>2. Knows(t)'
    BY <1>2, <1>3, <2>1 DEF Knows
  <2> QED BY <1>1, <1>2, <1>3, <2>1, <2>2, WalkKeepsList
<1>4. ASSUME NEW p \in {"take", "take payload"}, Goto(t, p), UNCHANGED <<temp, fault>>
      PROVE  ListInv' /\ fault' = "none"
  <2>1. p \in Place \ {"tail", "link", "end", "find", "release"}
    BY DEF Place
  <2>2. Knows(t)'
    BY <1>2, <1>4, <2>1 DEF Knows
  <2> QED BY <1>1, <1>2, <1>4, <2>1, <2>2, WalkKeepsList
<1>5. ASSUME pc[t] \in {"search", "research"}, temp[t] # NULL, Advance(t), UNCHANGED pc
      PROVE  ListInv' /\ fault' = "none"
  <2>1. temp[t] \in made \cup {HEAD} /\ temp[t] \in Nodes
    BY <1>1, <1>5 DEF ListInv, Knows, Nodes, Types
  <2>2. next[temp[t]] \in made \cup {NULL}
    <3>1. ~ Added(temp[t])
      BY <1>1, OneAdds
    <3> QED BY <2>1, <3>1 DEF ListInv, Links
  <2>3. temp'[t] = next[temp[t]] /\ \A u \in Threads \ {t} : temp'[u] = temp[u]
    BY <1>1, <1>5 DEF Advance
  <2>4. fault' = "none"
    BY <1>1, <1>5, <2>2, RaceAssumption DEF Advance, Types
  <2>5. Knows(t)'
    BY <1>1, <1>5, <2>2, <2>3 DEF Knows, Adding
  <2> QED BY <1>1, <1>5, <2>3, <2>4, <2>5, WalkKeepsList DEF Adding, Freeing
<1>6. CASE CallAlloc(t)
  BY <1>3, <1>6 DEF CallAlloc, Place
<1>7. CASE Search(t)
  BY <1>3, <1>4, <1>5, <1>7 DEF Search, FindFreeBlock, Place
<1>8. CASE SearchAgain(t)
  BY <1>3, <1>4, <1>5, <1>8 DEF SearchAgain, FindFreeBlock, Place
<1> QED BY <1>6, <1>7, <1>8

\* The walk of list_add comes to the end of the list and no further.
LEMMA TailKeepsList ==
  ASSUME OneAllocator, IInv, ListInv, fault = "none", NEW t \in Allocators, FindTail(t)
  PROVE  ListInv' /\ fault' = "none"
<1>1. t \in Threads /\ Types /\ UNCHANGED <<next, free, made, held, mine, leaked>> /\ pc[t] = "tail"
      /\ Adding(t) /\ ~ Freeing(t) /\ temp \in [Threads -> Link]
  BY DEF Threads, IInv, Types, FindTail, Adding, Freeing
<1>2. /\ mine[t] \in made /\ next[mine[t]] = JUNK /\ temp[t] \in made \cup {HEAD}
      /\ Onward(next, HEAD, temp[t]) /\ temp[t] # mine[t] /\ temp[t] \in Nodes
      /\ \A h \in Nodes : next[h] # mine[t]
  BY <1>1 DEF ListInv, Knows, Types, Nodes
<1>3. CASE next[temp[t]] = NULL
  <2>1. Goto(t, "link") /\ UNCHANGED <<temp, fault>>
    BY <1>3 DEF FindTail
  <2>2. pc'[t] = "link" /\ \A u \in Threads \ {t} : pc'[u] = pc[u]
    BY <1>1, <2>1, Goes DEF Place
  <2>3. Adding(t)' /\ ~ Freeing(t)'
    BY <2>2 DEF Adding, Freeing
  <2>4. Knows(t)'
    BY <1>1, <1>2, <1>3, <2>1, <2>2 DEF Knows
  <2> QED BY <1>1, <2>1, <2>2, <2>3, <2>4, WalkKeepsList
<1>4. CASE next[temp[t]] # NULL
  <2>1. Advance(t) /\ UNCHANGED pc
    BY <1>4 DEF FindTail
  <2>2. next[temp[t]] \in made
    <3>1. ~ Added(temp[t])
      BY <1>1, <1>2, OneAdds
    <3> QED BY <1>2, <1>4, <3>1 DEF ListInv, Links
  <2>3. next[temp[t]] \in Headers /\ next[temp[t]] # JUNK
    BY <1>1, <2>2, RaceAssumption DEF Types
  <2>4. temp'[t] = next[temp[t]] /\ (\A u \in Threads \ {t} : temp'[u] = temp[u]) /\ fault' = "none"
    BY <1>1, <2>1, <2>3 DEF Advance
  <2>5. Onward(next, HEAD, next[temp[t]])
    BY <1>2, <2>3, OnwardStep
  <2>6. Knows(t)'
    BY <1>1, <1>2, <2>1, <2>2, <2>4, <2>5 DEF Knows
  <2> QED BY <1>1, <2>1, <2>4, <2>6, WalkKeepsList DEF Adding, Freeing
<1> QED BY <1>3, <1>4

\* _find_block comes to the block it looks for, and to nothing else.
LEMMA FindKeepsList ==
  ASSUME IInv, ListInv, fault = "none", NEW t \in Freers, FindBlock(t)
  PROVE  ListInv' /\ fault' = "none"
<1>1. t \in Threads /\ Types /\ UNCHANGED <<next, free, made, held, mine, leaked>> /\ pc[t] = "find"
      /\ ~ Adding(t) /\ Freeing(t) /\ temp \in [Threads -> Link]
  BY DEF Threads, IInv, Types, FindBlock, Adding, Freeing
<1>2. temp[t] \in Nodes /\ Onward(next, temp[t], mine[t]) /\ temp[t] # NULL
  BY <1>1, RaceAssumption DEF ListInv, Knows, Nodes
<1>3. CASE temp[t] = mine[t]
  <2>1. Goto(t, "release") /\ UNCHANGED <<temp, fault>>
    BY <1>2, <1>3 DEF FindBlock
  <2>2. pc'[t] = "release" /\ \A u \in Threads \ {t} : pc'[u] = pc[u]
    BY <1>1, <2>1, Goes DEF Place
  <2>3. ~ Adding(t)' /\ Freeing(t)' /\ Knows(t)'
    BY <2>2 DEF Adding, Freeing, Knows
  <2> QED BY <1>1, <2>1, <2>2, <2>3, WalkKeepsList
<1>4. CASE temp[t] # mine[t]
  <2>1. Advance(t) /\ UNCHANGED pc
    BY <1>2, <1>4 DEF FindBlock
  <2>2. next[temp[t]] \in Headers /\ Onward(next, next[temp[t]], mine[t])
    BY <1>2, <1>4, OnwardNext
  <2>3. next[temp[t]] # JUNK /\ next[temp[t]] \in Nodes
    BY <2>2, RaceAssumption DEF Nodes
  <2>4. temp'[t] = next[temp[t]] /\ (\A u \in Threads \ {t} : temp'[u] = temp[u]) /\ fault' = "none"
    BY <1>1, <2>1, <2>3 DEF Advance
  <2>5. Knows(t)'
    BY <1>1, <2>1, <2>2, <2>3, <2>4 DEF Knows, Adding
  <2> QED BY <1>1, <2>1, <2>4, <2>5, WalkKeepsList DEF Adding, Freeing
<1> QED BY <1>3, <1>4

\* A block goes from the list's hands into a caller's, or is leaked.
LEMMA TakeKeepsList ==
  ASSUME IInv, ListInv, fault = "none", NEW t \in Allocators, Take(t) \/ TakePayload(t)
  PROVE  ListInv'
<1>1. t \in Threads /\ Types /\ Taking(t) /\ pc[t] \notin {"find", "release"} /\ ~ Adding(t)
      /\ Goto(t, "idle")
      /\ free' = [free EXCEPT ![temp[t]] = 0]
      /\ UNCHANGED <<next, made, temp, mine, fault>>
  BY DEF Threads, IInv, Take, TakePayload, Return, Taking, Adding
<1>2. temp[t] \in Headers
  BY <1>1 DEF IInv, StillFree
<1>3. pc'[t] = "idle" /\ \A u \in Threads \ {t} : pc'[u] = pc[u]
  BY <1>1, Goes DEF Place
<1>4. \A h : (Added(h)' <=> Added(h)) /\ Returning(h)' = Returning(h)
  BY <1>1, <1>3 DEF Added, Adding, Returning
<1>5. NoneIdle'
  <2> SUFFICES ASSUME NEW h \in made, ~ Added(h), ~ held'[h] > 0, Returning(h) = {}, h \notin leaked'
               PROVE  free'[h] = 1
    BY <1>1, <1>4 DEF NoneIdle
  <2>1. held[temp[t]] \in {0, 1} /\ held \in [Headers -> {0, 1}] /\ h \in Headers
    BY <1>1, <1>2 DEF Types
  <2>2. \/ held' = [held EXCEPT ![temp[t]] = held[temp[t]] + 1] /\ leaked' = leaked
        \/ held' = held /\ leaked' = leaked \cup {temp[t]}
    BY DEF Take, TakePayload, Return
  <2>3. h # temp[t]
    BY <1>2, <2>1, <2>2
  <2>4. held'[h] = held[h] /\ free'[h] = free[h] /\ h \notin leaked
    BY <1>1, <2>1, <2>2, <2>3 DEF Types
  <2> QED BY <2>4 DEF ListInv, NoneIdle
<1>6. Knows(t)'
  BY <1>3 DEF Knows, Adding
<1>7. \A u \in Threads : Knows(u)'
  BY <1>1, <1>3, <1>6, OthersKnow
<1>8. Links' /\ AllListed'
  BY <1>1, <1>4 DEF ListInv, Links, AllListed
<1> QED BY <1>5, <1>7, <1>8 DEF ListInv

\* The new header is on nobody's way yet.
LEMMA MakeKeepsList ==
  ASSUME OneAllocator, IInv, ListInv, fault = "none", NEW t \in Allocators, Make(t)
  PROVE  ListInv'
<1>1. t \in Threads /\ Types /\ pc[t] = "make" /\ Goto(t, "tail")
      /\ UNCHANGED <<next, held, temp, leaked, fault>> /\ ~ Adding(t) /\ ~ Freeing(t) /\ temp[t] = HEAD
  BY DEF Threads, IInv, Make, Adding, Freeing, ListInv, Knows
<1>2. PICK h \in Headers \ made :
        /\ made' = made \cup {h} /\ mine' = [mine EXCEPT ![t] = h] /\ free' = [free EXCEPT ![h] = 0]
  BY DEF Make
<1>3. pc'[t] = "tail" /\ \A u \in Threads \ {t} : pc'[u] = pc[u]
  BY <1>1, Goes DEF Place
<1>4. mine'[t] = h /\ \A u \in Threads \ {t} : mine'[u] = mine[u]
  BY <1>1, <1>2 DEF Types
<1>5. \A g \in made : g \in Headers /\ g # h /\ free'[g] = free[g] /\ ~ Added(g)
  BY <1>1, <1>2, OneAdds DEF Types
<1>6. Added(h)'
  BY <1>1, <1>3, <1>4 DEF Added, Adding
<1>7. \A g : Returning(g)' = Returning(g)
  BY <1>1, <1>3, <1>4 DEF Returning
<1>8. Links'
  <2>1. \A g \in Nodes : next'[g] \in made' \cup {NULL, JUNK}
    BY <1>1, <1>2 DEF ListInv, Links
  <2>2. \A g \in made' : next'[g] = JUNK => Added(g)'
    BY <1>1, <1>2, <1>5, <1>6 DEF ListInv, Links
  <2>3. \A g \in Headers \ made' : next'[g] = JUNK
    BY <1>1, <1>2 DEF ListInv, Links
  <2> QED BY <1>1, <2>1, <2>2, <2>3 DEF ListInv, Links
<1>9. AllListed'
  BY <1>1, <1>2, <1>5, <1>6 DEF ListInv, AllListed
<1>10. NoneIdle'
  <2> SUFFICES ASSUME NEW g \in made', g # h
               PROVE  held'[g] > 0 \/ Returning(g)' # {} \/ free'[g] = 1 \/ g \in leaked'
    BY <1>6 DEF NoneIdle
  <2>1. g \in made
    BY <1>2
  <2> QED BY <1>1, <1>5, <1>7, <2>1 DEF ListInv, NoneIdle
<1>11. Knows(t)'
  <2>1. h \in made' /\ next'[h] = JUNK /\ temp'[t] = HEAD /\ HEAD # h
    BY <1>1, <1>2, RaceAssumption DEF ListInv, Links
  <2>2. \A g \in Nodes : next'[g] # h
    BY <1>1, <1>2, RaceAssumption DEF ListInv, Links
  <2> QED BY <1>3, <1>4, <2>1, <2>2, OnwardSelf DEF Knows
<1>12. ASSUME NEW u \in Threads \ {t}
       PROVE  Knows(u)'
  <2>1. Knows(u) /\ pc'[u] = pc[u] /\ temp'[u] = temp[u] /\ mine'[u] = mine[u] /\ next' = next
    BY <1>1, <1>3, <1>4 DEF ListInv
  <2>2. \A x : x \in made => x \in made'
    BY <1>2
  <2> QED BY <2>1, <2>2 DEF Knows, Adding
<1> QED BY <1>8, <1>9, <1>10, <1>11, <1>12 DEF ListInv

\* Two ways to write a link: a new header behind the last, and the end of the
\* list behind it.
LEMMA LinksGrow ==
  ASSUME ListInv, NEW t \in Threads, UNCHANGED <<made, temp, mine>>,
         \A g \in Nodes : next[g] \in Headers => next'[g] = next[g],
         \A u \in Threads \ {t} : pc'[u] = pc[u] /\ ~ Adding(u)
  PROVE  \A u \in Threads \ {t} : Knows(u)'
<1> SUFFICES ASSUME NEW u \in Threads \ {t} PROVE Knows(u)'
  OBVIOUS
<1>1. Knows(u) /\ pc'[u] = pc[u] /\ ~ Adding(u)
      /\ temp'[u] = temp[u] /\ mine'[u] = mine[u] /\ made' = made
  BY DEF ListInv
<1>2. Onward(next, temp[u], mine[u]) => Onward(next', temp[u], mine[u])
  BY OnwardGrows
<1> QED BY <1>1, <1>2 DEF Knows, Adding

LEMMA LinkKeepsList ==
  ASSUME OneAllocator, IInv, ListInv, fault = "none", NEW t \in Allocators, LinkNew(t)
  PROVE  ListInv'
<1> DEFINE h == mine[t]
           x == temp[t]
<1>1. t \in Threads /\ Types /\ pc[t] = "link" /\ Goto(t, "end") /\ next' = [next EXCEPT ![x] = h]
      /\ UNCHANGED <<free, made, held, temp, mine, leaked, fault>> /\ Adding(t) /\ ~ Freeing(t)
      /\ next \in [Nodes -> Link]
  BY DEF Threads, IInv, Types, LinkNew, Adding, Freeing, Nodes
<1>2. /\ h \in made /\ h \in Headers /\ next[h] = JUNK /\ x # h
      /\ x \in made \cup {HEAD} /\ x \in Nodes /\ Onward(next, HEAD, x) /\ next[x] = NULL
  BY <1>1 DEF ListInv, Knows, Types, Nodes
<1>3. pc'[t] = "end" /\ \A u \in Threads \ {t} : pc'[u] = pc[u]
  BY <1>1, Goes DEF Place
<1>4. next'[x] = h /\ \A g \in Nodes \ {x} : next'[g] = next[g]
  BY <1>1, <1>2
<1>5. \A g \in Nodes : next[g] \in Headers => next'[g] = next[g]
  BY <1>2, <1>4, RaceAssumption
<1>6. \A a, b : Onward(next, a, b) => Onward(next', a, b)
  BY <1>5, OnwardGrows
<1>7. \A u \in Threads \ {t} : ~ Adding(u)
  BY DEF OneAllocator, Threads, IInv, WalksRight
<1>8. \A g : (Added(g)' <=> Added(g)) /\ Returning(g)' = Returning(g)
  BY <1>1, <1>3 DEF Added, Adding, Returning, Freeing
<1>9. Onward(next', HEAD, h)
  BY <1>2, <1>4, <1>6, OnwardStep
<1> HIDE DEF h, x
<1>10. Links'
  <2>1. h # NULL /\ h # JUNK
    BY <1>2, RaceAssumption
  <2> QED BY <1>1, <1>2, <1>4, <1>8, <2>1 DEF ListInv, Links, Nodes, Types
<1>11. AllListed'
  BY <1>1, <1>6, <1>8 DEF ListInv, AllListed
<1>12. NoneIdle'
  BY <1>1, <1>8 DEF ListInv, NoneIdle
<1>13. \A u \in Threads \ {t} : Knows(u)'
  BY <1>1, <1>3, <1>5, <1>7, LinksGrow
<1>14. Knows(t)'
  <2>1. mine'[t] = h /\ temp'[t] = x /\ h \in made' /\ x \in made' \cup {HEAD}
    BY <1>1, <1>2 DEF h, x
  <2>2. next'[h] = JUNK /\ Onward(next', HEAD, x)
    BY <1>2, <1>4, <1>6 DEF Nodes
  <2> QED BY <1>3, <1>9, <2>1, <2>2 DEF Knows, Adding
<1> QED BY <1>10, <1>11, <1>12, <1>13, <1>14 DEF ListInv

LEMMA EndListKeepsList ==
  ASSUME OneAllocator, IInv, ListInv, fault = "none", NEW t \in Allocators, EndList(t)
  PROVE  ListInv'
<1> DEFINE h == mine[t]
<1>1. t \in Threads /\ Types /\ pc[t] = "end" /\ Goto(t, "idle") /\ next' = [next EXCEPT ![h] = NULL]
      /\ held' = [held EXCEPT ![h] = held[h] + 1]
      /\ UNCHANGED <<free, made, temp, mine, leaked, fault>> /\ Adding(t)
      /\ next \in [Nodes -> Link]
  BY DEF Threads, IInv, Types, EndList, Return, Adding, Nodes
<1>2. h \in made /\ h \in Headers /\ h \in Nodes /\ next[h] = JUNK /\ Onward(next, HEAD, h)
  BY <1>1 DEF ListInv, Knows, Types, Nodes
<1>3. pc'[t] = "idle" /\ \A u \in Threads \ {t} : pc'[u] = pc[u]
  BY <1>1, Goes DEF Place
<1>4. next'[h] = NULL /\ \A g \in Nodes \ {h} : next'[g] = next[g]
  BY <1>1, <1>2
<1>5. \A g \in Nodes : next[g] \in Headers => next'[g] = next[g]
  BY <1>2, <1>4, RaceAssumption
<1>6. \A a, b : Onward(next, a, b) => Onward(next', a, b)
  BY <1>5, OnwardGrows
<1>7. \A u \in Threads \ {t} : ~ Adding(u)
  BY DEF OneAllocator, Threads, IInv, WalksRight
<1>8. \A g : (Added(g) <=> g = h) /\ ~ Added(g)' /\ Returning(g)' = Returning(g)
  <2>1. \A u \in Threads : ~ Adding(u)' /\ (pc'[u] \in {"find", "release"} <=> pc[u] \in {"find", "release"})
    BY <1>1, <1>3, <1>7 DEF Adding
  <2>2. \A g : Added(g) <=> g = h
    BY <1>1, OneAdds
  <2> QED BY <1>1, <2>1, <2>2 DEF Added, Returning
<1> HIDE DEF h
<1>9. Links'
  <2>1. \A g \in Nodes : next'[g] \in made' \cup {NULL, JUNK}
    BY <1>1, <1>4 DEF ListInv, Links
  <2>2. HEAD \in Nodes \ {h} /\ next'[HEAD] # JUNK
    BY <1>2, <1>4, RaceAssumption DEF ListInv, Links, Nodes
  <2>3. \A g \in made' : next'[g] # JUNK
    BY <1>1, <1>2, <1>4, <1>8, RaceAssumption DEF ListInv, Links, Nodes, Types
  <2>4. \A g \in Headers \ made' : next'[g] = JUNK
    BY <1>1, <1>2, <1>4 DEF ListInv, Links, Nodes
  <2> QED BY <2>1, <2>2, <2>3, <2>4 DEF Links
<1>10. AllListed'
  BY <1>1, <1>2, <1>6, <1>8 DEF ListInv, AllListed
<1>11. NoneIdle'
  <2>1. held'[h] > 0 /\ \A g \in Headers \ {h} : held'[g] = held[g]
    <3>1. held[h] \in {0, 1} /\ held \in [Headers -> {0, 1}]
      BY <1>1, <1>2 DEF Types
    <3>2. held'[h] = held[h] + 1
      BY <1>1, <1>2, <3>1
    <3> QED BY <1>1, <3>1, <3>2
  <2> QED BY <1>1, <1>8, <2>1 DEF ListInv, NoneIdle, Types
<1>12. Knows(t)'
  BY <1>3 DEF Knows, Adding
<1>13. \A u \in Threads \ {t} : Knows(u)'
  BY <1>1, <1>3, <1>5, <1>7, LinksGrow
<1> QED BY <1>9, <1>10, <1>11, <1>12, <1>13 DEF ListInv

\* A block that a caller has is on the list, before a walk from the head.
LEMMA CallFreeKeepsList ==
  ASSUME IInv, ListInv, fault = "none", NEW t \in Freers, CallFree(t)
  PROVE  ListInv'
<1>1. t \in Threads /\ Types /\ pc[t] = "idle" /\ Goto(t, "find")
      /\ temp' = [temp EXCEPT ![t] = HEAD] /\ UNCHANGED <<next, free, made, leaked, fault>>
  BY DEF Threads, IInv, CallFree, StartWalk
<1>2. PICK h \in Headers : /\ held[h] > 0 /\ held' = [held EXCEPT ![h] = held[h] - 1]
                           /\ mine' = [mine EXCEPT ![t] = h]
  BY DEF CallFree
<1>3. pc'[t] = "find" /\ mine'[t] = h /\ temp'[t] = HEAD
      /\ \A u \in Threads \ {t} : pc'[u] = pc[u] /\ temp'[u] = temp[u] /\ mine'[u] = mine[u]
  <2>1. pc'[t] = "find" /\ \A u \in Threads \ {t} : pc'[u] = pc[u]
    BY <1>1, Goes DEF Place
  <2> QED BY <1>1, <1>2, <2>1 DEF Types
<1>4. held[h] # 0 /\ h \in made /\ ~ Added(h)
  <2>1. held[h] # 0
    BY <1>2
  <2>2. h \in made
    BY <2>1 DEF IInv, NewIsUnknown, Unused
  <2> QED BY <2>1, <2>2 DEF IInv, HandsApart, Added
<1>5. Onward(next, HEAD, h)
  BY <1>4 DEF ListInv, AllListed
<1>6. \A g : Added(g)' <=> Added(g)
  BY <1>1, <1>3 DEF Added, Adding
<1>7. t \in Returning(h)' /\ \A g : Returning(g) \subseteq Returning(g)'
  BY <1>1, <1>3 DEF Returning
<1>8. NoneIdle'
  <2> SUFFICES ASSUME NEW g \in made, g # h
               PROVE  Added(g)' \/ held'[g] > 0 \/ Returning(g)' # {} \/ free'[g] = 1 \/ g \in leaked'
    BY <1>1, <1>7 DEF NoneIdle
  <2>1. held'[g] = held[g]
    BY <1>1, <1>2 DEF Types
  <2> QED BY <1>1, <1>6, <1>7, <2>1 DEF ListInv, NoneIdle
<1>9. Links' /\ AllListed'
  BY <1>1, <1>6 DEF ListInv, Links, AllListed
<1>10. Knows(t)'
  BY <1>1, <1>3, <1>5 DEF Knows, Adding, Nodes
<1>11. ASSUME NEW u \in Threads \ {t}
       PROVE  Knows(u)'
  <2>1. Knows(u) /\ pc'[u] = pc[u] /\ temp'[u] = temp[u] /\ mine'[u] = mine[u]
        /\ next' = next /\ made' = made
    BY <1>1, <1>3 DEF ListInv
  <2> QED BY <2>1 DEF Knows, Adding
<1> QED BY <1>8, <1>9, <1>10, <1>11 DEF ListInv

\* A block that was given back is free.
LEMMA ReleaseKeepsList ==
  ASSUME IInv, ListInv, fault = "none", NEW t \in Freers, Release(t)
  PROVE  ListInv'
<1>1. t \in Threads /\ Types /\ pc[t] = "release" /\ Goto(t, "idle") /\ temp[t] = mine[t]
      /\ free' = [free EXCEPT ![temp[t]] = 1] /\ UNCHANGED <<next, made, held, temp, mine, leaked, fault>>
  BY DEF Threads, IInv, Release, WalksRight
<1>2. pc'[t] = "idle" /\ \A u \in Threads \ {t} : pc'[u] = pc[u]
  BY <1>1, Goes DEF Place
<1>3. mine[t] \in Headers
  BY <1>1 DEF IInv, HandsApart, Freeing
<1>4. \A g : Added(g)' <=> Added(g)
  BY <1>1, <1>2 DEF Added, Adding
<1>5. \A g : g # mine[t] => Returning(g)' = Returning(g)
  BY <1>1, <1>2 DEF Returning
<1>6. free'[mine[t]] = 1 /\ \A g \in Headers \ {mine[t]} : free'[g] = free[g]
  BY <1>1, <1>3 DEF Types
<1>7. NoneIdle'
  <2> SUFFICES ASSUME NEW g \in made, g # mine[t]
               PROVE  Added(g)' \/ held'[g] > 0 \/ Returning(g)' # {} \/ free'[g] = 1 \/ g \in leaked'
    BY <1>1, <1>6 DEF NoneIdle
  <2> QED BY <1>1, <1>4, <1>5, <1>6 DEF ListInv, NoneIdle, Types
<1>8. Links' /\ AllListed'
  BY <1>1, <1>4 DEF ListInv, Links, AllListed
<1>9. Knows(t)'
  BY <1>2 DEF Knows, Adding
<1>10. \A u \in Threads : Knows(u)'
  BY <1>1, <1>2, <1>9, OthersKnow
<1> QED BY <1>7, <1>8, <1>10 DEF ListInv

\* What holds while the pool is used: nothing goes wrong with the list.
LInv ==
  /\ fault = "none"
  /\ ListInv
  /\ leaked \subseteq made
  /\ \A t \in Threads : temp[t] # JUNK

LEMMA InitLInv == Init => LInv
<1> SUFFICES ASSUME Init PROVE LInv
  OBVIOUS
<1>1. fault = "none" /\ made = {} /\ leaked = {} /\ \A t \in Threads : pc[t] = "idle" /\ temp[t] = NULL
  BY DEF Init
<1>2. \A h \in Nodes : next[h] = IF h = HEAD THEN NULL ELSE JUNK
  BY DEF Init, Nodes
<1>3. Links /\ AllListed /\ NoneIdle
  BY <1>1, <1>2, RaceAssumption DEF Links, AllListed, NoneIdle, Nodes
<1>4. \A t \in Threads : Knows(t)
  BY <1>1 DEF Knows, Adding
<1> QED BY <1>1, <1>3, <1>4, RaceAssumption DEF LInv, ListInv

\* Nothing ListInv speaks of changes in a stutter.
LEMMA StutterKeepsList == ListInv /\ UNCHANGED vars => ListInv'
<1> SUFFICES ASSUME ListInv, UNCHANGED vars PROVE ListInv'
  OBVIOUS
<1>1. UNCHANGED <<next, free, made, held, pc, temp, mine, leaked>>
  BY DEF vars
<1>2. \A h : (Added(h)' <=> Added(h)) /\ Returning(h)' = Returning(h)
  BY <1>1 DEF Added, Adding, Returning
<1>3. Links' /\ AllListed' /\ NoneIdle'
  BY <1>1, <1>2 DEF ListInv, Links, AllListed, NoneIdle
<1>4. \A t \in Threads : Knows(t)'
  BY <1>1 DEF ListInv, Knows, Adding
<1> QED BY <1>3, <1>4 DEF ListInv

LEMMA NextLInv ==
  ASSUME OneAllocator
  PROVE  IInv /\ LInv /\ [Next]_vars => LInv'
<1> SUFFICES ASSUME IInv, LInv, [Next]_vars, IInv' PROVE LInv'
  BY NextIInv
<1>1. CASE UNCHANGED vars
  BY <1>1, StutterKeepsList DEF vars, LInv
<1>2. ASSUME fault' = "none", ListInv', leaked' \subseteq made' PROVE LInv'
  BY <1>2 DEF LInv, IInv, WalksRight
<1>3. ASSUME NEW t \in Allocators, Alloc(t) PROVE LInv'
  <2>1. ListInv /\ fault = "none"
    BY DEF LInv
  <2>2. leaked' \subseteq made'
    <3>1. \/ leaked' = leaked /\ made \subseteq made'
          \/ TakePayload(t) /\ leaked' = leaked \cup {temp[t]} /\ made' = made
      BY <1>3 DEF Alloc, CallAlloc, Search, SearchAgain, FindFreeBlock, Take, TakePayload, Make,
                  FindTail, LinkNew, EndList
    <3>2. TakePayload(t) => temp[t] \in made
      <4>1. t \in Threads
        BY DEF Threads
      <4> QED BY <2>1, <4>1 DEF TakePayload, Taking, IInv, StillFree, FreeIsIdle
    <3> QED BY <3>1, <3>2 DEF LInv
  <2>3. CASE CallAlloc(t) \/ Search(t) \/ SearchAgain(t)
    BY <1>2, <1>3, <2>1, <2>2, <2>3, SearchKeepsList
  <2>4. CASE FindTail(t)
    BY <1>2, <1>3, <2>1, <2>2, <2>4, TailKeepsList
  <2>5. CASE Take(t) \/ TakePayload(t) \/ Make(t) \/ LinkNew(t) \/ EndList(t)
    <3>1. fault' = "none"
      BY <2>1, <2>5 DEF Take, TakePayload, Make, LinkNew, EndList
    <3> QED BY <1>2, <1>3, <2>1, <2>2, <2>5, <3>1, TakeKeepsList, MakeKeepsList, LinkKeepsList,
               EndListKeepsList
  <2> QED BY <1>3, <2>3, <2>4, <2>5 DEF Alloc
<1>4. ASSUME NEW t \in Freers, Free(t) PROVE LInv'
  <2>1. ListInv /\ fault = "none"
    BY DEF LInv
  <2>2. leaked' \subseteq made'
    BY <1>4 DEF Free, CallFree, FindBlock, Release, LInv
  <2>3. CASE FindBlock(t)
    BY <1>2, <1>4, <2>1, <2>2, <2>3, FindKeepsList
  <2>4. CASE CallFree(t) \/ Release(t)
    <3>1. fault' = "none"
      BY <2>1, <2>4 DEF CallFree, Release
    <3> QED BY <1>2, <1>4, <2>1, <2>2, <2>4, <3>1, CallFreeKeepsList, ReleaseKeepsList
  <2> QED BY <1>4, <2>3, <2>4 DEF Free
<1> QED BY <1>1, <1>3, <1>4 DEF Next

LEMMA AlwaysLInv ==
  ASSUME OneAllocator
  PROVE  Spec => [](IInv /\ LInv)
<1>1. Init => IInv /\ LInv
  BY InitIInv, InitLInv
<1>2. IInv /\ LInv /\ [Next]_vars => (IInv /\ LInv)'
  BY NextIInv, NextLInv
<1> QED BY <1>1, <1>2, PTL DEF Spec

\* While only one thread allocates, the state is of the declared types: a walk
\* is never at a link nobody wrote (alloc.c:100-160).
THEOREM RaceTypes ==
  ASSUME OneAllocator
  PROVE  Spec => []TypeOK
<1>1. IInv /\ LInv => TypeOK
  <2> SUFFICES ASSUME IInv, LInv PROVE TypeOK
    OBVIOUS
  <2>1. Types /\ {0, 1} \subseteq Nat
    BY DEF IInv
  <2>2. held \in [Headers -> Nat]
    BY <2>1 DEF Types
  <2>3. temp \in [Threads -> Link \ {JUNK}]
    BY <2>1 DEF Types, LInv
  <2> QED BY <2>1, <2>2, <2>3 DEF Types, TypeOK, LInv, Place
<1> QED BY <1>1, AlwaysLInv, PTL

\* While only one thread allocates, every block malloc returned is being added
\* or on the list, and is free there if nobody has it and it was not leaked: no
\* walk and no list_add that interleave lose a block (list.h:40-48,
\* alloc.c:34-56).
THEOREM NoBlockIsLost ==
  ASSUME OneAllocator
  PROVE  Spec => []NoneLost
<1>1. IInv /\ LInv => NoneLost
  <2> SUFFICES ASSUME IInv, LInv, NEW h \in made, ~ Added(h)
               PROVE  /\ \A S \in SUBSET Nodes : Reached(S) => h \in S
                      /\ held[h] = 0 /\ Returning(h) = {} /\ h \notin leaked => free[h] = 1
    BY DEF NoneLost, Added, Adding, Nodes
  <2>1. Onward(next, HEAD, h)
    BY DEF LInv, ListInv, AllListed
  <2>2. held[h] = 0 /\ Returning(h) = {} /\ h \notin leaked => free[h] = 1
    <3>1. held[h] > 0 \/ Returning(h) # {} \/ free[h] = 1 \/ h \in leaked
      BY DEF LInv, ListInv, NoneIdle
    <3> QED BY <3>1
  <2> QED BY <2>1, <2>2 DEF Onward, Reached
<1> QED BY <1>1, AlwaysLInv, PTL

\* While only one thread allocates, rune_free finds the block it was given and
\* no walk follows a link that was not written yet, though list_add links a
\* header before it writes the header's own link (alloc.c:148-160, list.h:40-48).
THEOREM EveryWalkStays ==
  ASSUME OneAllocator
  PROVE  Spec => []WalksStayInList
<1>1. LInv => WalksStayInList
  BY DEF LInv, WalksStayInList
<1> QED BY <1>1, AlwaysLInv, PTL

=============================================================================
