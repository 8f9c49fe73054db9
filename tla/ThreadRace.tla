------------------------------ MODULE ThreadRace ------------------------------
(***************************************************************************)
(* The list of threads of engine/core/thread.c while calls overlap: nothing*)
(* locks it, so a thread that ends takes its struct off it (thread.c:86-92)*)
(* between any two accesses of a list_add or of a walk (thread.c:40-68,    *)
(* 120-123).  A step is one iteration of a walk or one access to a link.   *)
(*                                                                         *)
(* Two of the rules of ThreadApi are kept: the first thread does not end,  *)
(* and a thread has read its start_args before the next is created.  The   *)
(* third, that calls and ends do not overlap, is not.  Left out are        *)
(* detached threads, failing calls, mutexes, and the pool's own accesses   *)
(* (PoolRace): it hands out its first free block.  Only the client takes   *)
(* blocks, so what a struct that was freed holds, the handle a join found  *)
(* in it included, stays as it was until the client's next call.           *)
(***************************************************************************)
EXTENDS Integers, FiniteSetsExt

CONSTANTS
  Pthread,   \* what pthread_create can store
  CLIENT,    \* the thread that calls rune_thread_init and rune_thread_join
  MaxBlock   \* bound: the structs of the pool, and the threads ever created

VARIABLES
  threads,                 \* the first struct of the list
  next_tid,
  used,                    \* the blocks that are not free
  id, handle, next, prev,  \* the fields of the struct in a block
  os,                      \* os[p]: what pthread p is doing
  self,                    \* self[p]: the struct p was created for
  pc,                      \* pc[t]: where thread t is
  temp,                    \* temp[t]: the struct its walk is at
  nxt, prv,                \* list_del's copies of the links of its struct
  arg,                     \* the struct, or the ID, the client's call is about
  told                     \* the IDs rune_thread_join has reported success for

links == <<next, prev>>
fields == <<id, handle>>
os_vars == <<os, self>>
locals == <<nxt, prv, arg>>
vars == <<threads, next_tid, used, fields, links, os_vars, pc, temp, locals, told>>

NULL == 0
Block == 1..MaxBlock
Thread == Pthread \cup {CLIENT}

\* ID 0 is the client's own, and on no list.
Init ==
  /\ threads = NULL /\ next_tid = 1 /\ used = {}
  /\ id = [n \in Block |-> 0]
  /\ handle = [n \in Block |-> NULL]
  /\ next = [n \in Block |-> NULL]
  /\ prev = [n \in Block |-> NULL]
  /\ os = [p \in Pthread |-> "none"]
  /\ self = [p \in Pthread |-> NULL]
  /\ pc = [t \in Thread |-> "idle"]
  /\ temp = [t \in Thread |-> NULL]
  /\ nxt = [p \in Pthread |-> NULL]
  /\ prv = [p \in Pthread |-> NULL]
  /\ arg = 0
  /\ told = {}

Goto(t, place) == pc' = [pc EXCEPT ![t] = place]
At(t, n) == temp' = [temp EXCEPT ![t] = n]

-----------------------------------------------------------------------------
(* The client: rune_thread_init.                                             *)

Register ==
  /\ pc[CLIENT] = "idle" /\ next_tid <= MaxBlock /\ used # Block
  /\ LET n == Min(Block \ used)
     IN  /\ used' = used \cup {n}
         /\ id' = [id EXCEPT ![n] = next_tid]
         /\ arg' = n
         /\ IF threads = NULL
            THEN threads' = n /\ Goto(CLIENT, "create") /\ UNCHANGED temp
            ELSE At(CLIENT, threads) /\ Goto(CLIENT, "tail") /\ UNCHANGED threads
  /\ next_tid' = next_tid + 1
  /\ UNCHANGED <<handle, links, os_vars, nxt, prv, told>>

\* list_add: the walk to the tail, and the three writes in their order.
FindTail ==
  /\ pc[CLIENT] = "tail"
  /\ IF next[temp[CLIENT]] = NULL
     THEN Goto(CLIENT, "link") /\ UNCHANGED temp
     ELSE At(CLIENT, next[temp[CLIENT]]) /\ UNCHANGED pc
  /\ UNCHANGED <<threads, next_tid, used, fields, links, os_vars, locals, told>>

LinkNew ==
  /\ pc[CLIENT] = "link"
  /\ next' = [next EXCEPT ![temp[CLIENT]] = arg]
  /\ Goto(CLIENT, "link back")
  /\ UNCHANGED <<threads, next_tid, used, fields, prev, os_vars, temp, locals, told>>

LinkBack ==
  /\ pc[CLIENT] = "link back"
  /\ prev' = [prev EXCEPT ![arg] = temp[CLIENT]]
  /\ Goto(CLIENT, "end list")
  /\ UNCHANGED <<threads, next_tid, used, fields, next, os_vars, temp, locals, told>>

EndList ==
  /\ pc[CLIENT] = "end list"
  /\ next' = [next EXCEPT ![arg] = NULL]
  /\ Goto(CLIENT, "create")
  /\ UNCHANGED <<threads, next_tid, used, fields, prev, os_vars, temp, locals, told>>

Create(p) ==
  /\ pc[CLIENT] = "create" /\ os[p] = "none"
  /\ os' = [os EXCEPT ![p] = "running"]
  /\ self' = [self EXCEPT ![p] = arg]
  /\ handle' = [handle EXCEPT ![arg] = p]
  /\ Goto(CLIENT, "idle")
  /\ UNCHANGED <<threads, next_tid, used, id, links, temp, locals, told>>

-----------------------------------------------------------------------------
(* The client: rune_thread_join of a thread it was given the ID of, and has  *)
(* not joined; nor is it the first, which does not end.                      *)

Join(i) ==
  /\ pc[CLIENT] = "idle"
  /\ i \in 2..next_tid - 1 /\ i \notin told
  /\ arg' = i
  /\ At(CLIENT, threads)
  /\ Goto(CLIENT, "find")
  /\ UNCHANGED <<threads, next_tid, used, fields, links, os_vars, nxt, prv, told>>

\* One iteration of _find_thread_by_id.  What it does not find is reported as
\* joined.
FindThread ==
  /\ pc[CLIENT] = "find"
  /\ LET n == temp[CLIENT]
     IN  \/ /\ n = NULL
            /\ told' = told \cup {arg}
            /\ Goto(CLIENT, "idle")
            /\ UNCHANGED temp
         \/ /\ n # NULL /\ id[n] = arg
            /\ Goto(CLIENT, "join")
            /\ UNCHANGED <<temp, told>>
         \/ /\ n # NULL /\ id[n] # arg
            /\ At(CLIENT, next[n])
            /\ UNCHANGED <<pc, told>>
  /\ UNCHANGED <<threads, next_tid, used, fields, links, os_vars, locals>>

\* pthread_join comes back.
JoinReturns ==
  /\ pc[CLIENT] = "join"
  /\ LET p == handle[temp[CLIENT]]
     IN  /\ os[p] = "ended"
         /\ os' = [os EXCEPT ![p] = "none"]
         /\ self' = [self EXCEPT ![p] = NULL]
  /\ told' = told \cup {arg}
  /\ Goto(CLIENT, "idle")
  /\ UNCHANGED <<threads, next_tid, used, fields, links, temp, locals>>

-----------------------------------------------------------------------------
(* A thread that ends: _cleanup_pthread, list_del access by access.          *)

End(p) ==
  /\ os[p] = "running" /\ pc[p] = "idle" /\ self[p] # threads
  /\ nxt' = [nxt EXCEPT ![p] = next[self[p]]]
  /\ Goto(p, "read prev")
  /\ UNCHANGED <<threads, next_tid, used, fields, links, os_vars, temp, prv, arg, told>>

ReadPrev(p) ==
  /\ pc[p] = "read prev"
  /\ prv' = [prv EXCEPT ![p] = prev[self[p]]]
  /\ Goto(p, "close back")
  /\ UNCHANGED <<threads, next_tid, used, fields, links, os_vars, temp, nxt, arg, told>>

CloseBack(p) ==
  /\ pc[p] = "close back"
  /\ prev' = IF nxt[p] = NULL THEN prev ELSE [prev EXCEPT ![nxt[p]] = prv[p]]
  /\ Goto(p, "close")
  /\ UNCHANGED <<threads, next_tid, used, fields, next, os_vars, temp, locals, told>>

CloseGap(p) ==
  /\ pc[p] = "close"
  /\ next' = IF prv[p] = NULL THEN next ELSE [next EXCEPT ![prv[p]] = nxt[p]]
  /\ Goto(p, "cut next")
  /\ UNCHANGED <<threads, next_tid, used, fields, prev, os_vars, temp, locals, told>>

CutNext(p) ==
  /\ pc[p] = "cut next"
  /\ next' = [next EXCEPT ![self[p]] = NULL]
  /\ Goto(p, "cut prev")
  /\ UNCHANGED <<threads, next_tid, used, fields, prev, os_vars, temp, locals, told>>

CutPrev(p) ==
  /\ pc[p] = "cut prev"
  /\ prev' = [prev EXCEPT ![self[p]] = NULL]
  /\ Goto(p, "free")
  /\ UNCHANGED <<threads, next_tid, used, fields, next, os_vars, temp, locals, told>>

\* The struct goes back to the pool, and the thread is over.
FreeStruct(p) ==
  /\ pc[p] = "free"
  /\ used' = used \ {self[p]}
  /\ os' = [os EXCEPT ![p] = "ended"]
  /\ Goto(p, "idle")
  /\ UNCHANGED <<threads, next_tid, fields, links, self, temp, locals, told>>

Client ==
  \/ Register \/ FindTail \/ LinkNew \/ LinkBack \/ EndList
  \/ \E p \in Pthread : Create(p)
  \/ \E i \in Block : Join(i)
  \/ FindThread \/ JoinReturns

Cleanup(p) ==
  \/ End(p) \/ ReadPrev(p) \/ CloseBack(p) \/ CloseGap(p)
  \/ CutNext(p) \/ CutPrev(p) \/ FreeStruct(p)

Next == Client \/ \E p \in Pthread : Cleanup(p)

Spec == Init /\ [][Next]_vars

-----------------------------------------------------------------------------
=============================================================================
