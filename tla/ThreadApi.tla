------------------------------ MODULE ThreadApi ------------------------------
(***************************************************************************)
(* engine/core/thread.c: the lists of threads and mutexes, the IDs callers *)
(* name them by, and the threads behind them.  One client thread calls the *)
(* API; the threads it starts run, ask who they are, and end at a moment   *)
(* of their choosing.  A step is what the code does between two points at  *)
(* which another thread's progress can matter to it.                       *)
(*                                                                         *)
(* Thread and mutex structs have one size and share the pool's blocks; the *)
(* start_args of all calls share one.  A struct's handle block is part of  *)
(* it here, and memory fresh from malloc reads zero.  Locking and unlocking*)
(* a mutex change nothing of this and are left out.                        *)
(*                                                                         *)
(* THREE RULES OF USE.  The code holds to what is stated below only when   *)
(*   1. what a list starts with is never ended (FirstStays);               *)
(*   2. a thread has started before the next is created (OneStart);        *)
(*   3. calls and ends do not overlap: no thread takes its struct off the  *)
(*      list (thread.c:86-92) in the middle of another's walk, list_add or *)
(*      list_del, which nothing locks.                                     *)
(* The third is in the model itself, where each of these is one step.  The *)
(* code enforces none of them.  V_JoinWaits and V_OwnArgs show what breaks *)
(* without the first two; ThreadRace, in which a step is one access to a   *)
(* link, what breaks without the third, and PoolRace the pool's side of it.*)
(***************************************************************************)
EXTENDS Integers, FiniteSetsExt

CONSTANTS
  Pthread,     \* what pthread_create can store: a value comes back once its
               \* thread was joined, or has ended detached
  MaxBlock,    \* bound: the blocks of the pool
  MaxID,       \* bound: the thread IDs given out, not counting 0
  MaxMutex,    \* bound: the mutex IDs given out
  MaxFails,    \* bound: the calls of pthread_create that fail
  FirstStays,  \* TRUE if the first thread and the first mutex are never ended
  OneStart     \* TRUE if the client waits for a thread to start before the next

ASSUME ThreadAssumption ==
  /\ MaxBlock \in Nat /\ MaxID \in Nat /\ MaxMutex \in Nat /\ MaxFails \in Nat
  /\ FirstStays \in BOOLEAN /\ OneStart \in BOOLEAN
  /\ Pthread \cap Int = {}

VARIABLES
  threads, mutexes,                  \* the first struct of each list
  next_tid, next_mid,
  made,                              \* malloc has returned the blocks 1..made
  used,                              \* those that are not free
  id, detached, handle, next, prev,  \* the fields of the struct in a block
  args,      \* the struct named by the start_args of the last call
  os,        \* os[p]: what pthread p is doing
  loose,     \* the pthreads that were detached
  doomed,    \* the pthreads with a cancellation pending
  self,      \* self[p]: the struct p's cleanup handler was given
  tid,       \* tid[p]: the ID p was created for
  told,      \* told[i]: what the client was told of thread i
  live,      \* the mutexes the client has
  pc, cur,   \* where the client is, and the struct it is at
  fault      \* the undefined behaviour or endless walk that ended the run

fields == <<id, detached, handle>>
list == <<next, prev>>
pool == <<made, used>>
mutex_vars == <<mutexes, next_mid, live>>
os_vars == <<os, loose, doomed, self, tid>>
vars == <<threads, mutex_vars, next_tid, pool, fields, list, args, os_vars,
          told, pc, cur, fault>>

NULL == 0
Block == 1..MaxBlock
ID == 0..MaxID

\* rune_init_thread_api gives the client ID 0, and a struct that is on no list.
Init ==
  /\ threads = NULL /\ mutexes = NULL
  /\ next_tid = 1 /\ next_mid = 0
  /\ made = 0 /\ used = {}
  /\ id = [n \in Block |-> 0]
  /\ detached = [n \in Block |-> 0]
  /\ handle = [n \in Block |-> NULL]
  /\ next = [n \in Block |-> NULL]
  /\ prev = [n \in Block |-> NULL]
  /\ args = NULL
  /\ os = [p \in Pthread |-> "none"]
  /\ loose = {} /\ doomed = {}
  /\ self = [p \in Pthread |-> NULL]
  /\ tid = [p \in Pthread |-> 0]
  /\ told = [i \in ID |-> "nothing"]
  /\ live = {}
  /\ pc = "idle" /\ cur = NULL
  /\ fault = "none"

-----------------------------------------------------------------------------
(* Lists and blocks.                                                         *)

\* The struct k links after head, NULL beyond the end.
Walk(head) ==
  LET at[k \in 0..MaxBlock] ==
        IF k = 0 THEN head ELSE IF at[k - 1] = NULL THEN NULL ELSE next[at[k - 1]]
  IN  at

OnList(head) == Range(Walk(head)) \ {NULL}
Ends(head) == Walk(head)[MaxBlock] = NULL

\* Mutant of Find: it stops at the tail without looking at it.
FindBeforeTail(head, S) ==
  LET at == Walk(head)
      hits == {k \in 0..MaxBlock : at[k] \in S /\ next[at[k]] # NULL}
  IN  IF hits = {} THEN NULL ELSE at[Min(hits)]

\* The first struct of the list that is one of S, NULL if there is none.
Find(head, S) ==
  LET at == Walk(head)
      hits == {k \in 0..MaxBlock : at[k] \in S}
  IN  IF hits = {} THEN NULL ELSE at[Min(hits)]

_find_thread_by_id(i) == Find(threads, {n \in Block : id[n] = i})
_find_thread_by_handle(p) == Find(threads, {n \in Block : handle[n] = p})
_find_mutex_by_id(i) == Find(mutexes, {n \in Block : id[n] = i})

\* Mutant of list_add: no walk to the tail.
list_addNoWalk(new, head) ==
  /\ next' = [next EXCEPT ![head] = new, ![new] = NULL]
  /\ prev' = [prev EXCEPT ![new] = head]
  /\ UNCHANGED fault

\* In the order of the code: when new is the tail already, its link ends NULL.
list_add(new, head) ==
  IF Ends(head)
  THEN LET tail == CHOOSE n \in OnList(head) : next[n] = NULL
       IN  /\ next' = [next EXCEPT ![tail] = new, ![new] = NULL]
           /\ prev' = [prev EXCEPT ![new] = tail]
           /\ UNCHANGED fault
  ELSE fault' = "endless walk" /\ UNCHANGED list

\* Mutant of list_del: the next struct keeps its link back.
list_delOneWay(item) ==
  /\ prev' = [prev EXCEPT ![item] = NULL]
  /\ next' = [n \in Block |-> IF n = item THEN NULL
                              ELSE IF n = prev[item] THEN next[item] ELSE next[n]]

list_del(item) ==
  /\ prev' = [n \in Block |-> IF n = item THEN NULL
                              ELSE IF n = next[item] THEN prev[item] ELSE prev[n]]
  /\ next' = [n \in Block |-> IF n = item THEN NULL
                              ELSE IF n = prev[item] THEN next[item] ELSE next[n]]

\* Mutants of Alloc: a new block is not accounted for; the flag is not looked at.
AllocUnaccounted(n) ==
  /\ n = IF 1..made \ used = {} THEN made + 1 ELSE Min(1..made \ used)
  /\ used' = used \cup {n}
  /\ UNCHANGED made

AllocInUse(n) ==
  /\ n = IF made < 2 THEN made + 1 ELSE made
  /\ made' = IF n > made THEN n ELSE made
  /\ used' = used \cup {n}

\* rune_alloc of a struct: the first free block, or a new one.
Alloc(n) ==
  /\ n = IF 1..made \ used = {} THEN made + 1 ELSE Min(1..made \ used)
  /\ made' = IF n > made THEN n ELSE made
  /\ used' = used \cup {n}

Add(n, head) ==
  IF head = NULL THEN UNCHANGED <<list, fault>> ELSE list_add(n, head)
First(n, head) == IF head = NULL THEN n ELSE head

\* The head of a list is not taken off it.
Remove(n, head) ==
  /\ IF n = head THEN UNCHANGED list ELSE list_del(n)
  /\ used' = used \ {n}
  /\ UNCHANGED made

Goto(place) == pc' = place

\* Nothing is left of a pthread that has ended and was joined or detached.
Collect(p) ==
  /\ os' = [os EXCEPT ![p] = "none"]
  /\ loose' = loose \ {p} /\ doomed' = doomed \ {p}
  /\ self' = [self EXCEPT ![p] = NULL]
  /\ tid' = [tid EXCEPT ![p] = 0]

-----------------------------------------------------------------------------
(* rune_thread_init.                                                         *)

\* Up to pthread_create.  The handle block is as its last owner left it.
Register(d) ==
  /\ pc = "idle" /\ next_tid <= MaxID
  /\ OneStart => \A p \in Pthread : os[p] # "created"
  /\ \E n \in Block, stale \in Pthread \cup {NULL} :
       /\ Alloc(n)
       /\ id' = [id EXCEPT ![n] = next_tid]
       /\ detached' = [detached EXCEPT ![n] = d]
       /\ handle' = [handle EXCEPT ![n] = stale]
       /\ Add(n, threads)
       /\ threads' = First(n, threads)
       /\ args' = n
       /\ cur' = n
  /\ next_tid' = next_tid + 1
  /\ Goto("create")
  /\ UNCHANGED <<mutex_vars, os_vars, told>>

\* pthread_create, and the start_args go back to the pool whether or not the
\* thread has read them.
Create(p) ==
  /\ pc = "create" /\ os[p] = "none"
  /\ os' = [os EXCEPT ![p] = "created"]
  /\ tid' = [tid EXCEPT ![p] = id[cur]]
  /\ handle' = [handle EXCEPT ![cur] = p]
  /\ Goto("return")
  /\ UNCHANGED <<threads, mutex_vars, next_tid, pool, id, detached, list, args, loose, doomed, self, told, cur, fault>>

Failed == {i \in ID : told[i] = "failed"}

\* The struct of a thread that could not be created stays on the list.
CreateFails ==
  /\ pc = "create" /\ Cardinality(Failed) < MaxFails
  /\ told' = [told EXCEPT ![id[cur]] = "failed"]
  /\ Goto("idle")
  /\ UNCHANGED <<threads, mutex_vars, next_tid, pool, fields, list, args, os_vars, cur, fault>>

\* Mutant of Return: every thread is detached.
ReturnDetaches ==
  /\ pc = "return"
  /\ LET p == handle[cur]
     IN  IF os[p] = "ended" THEN Collect(p)
         ELSE loose' = loose \cup {p} /\ UNCHANGED <<os, doomed, self, tid>>
  /\ told' = [told EXCEPT ![id[cur]] = "running"]
  /\ Goto("idle")
  /\ UNCHANGED <<threads, mutex_vars, next_tid, pool, fields, list, args, cur, fault>>

\* The end of rune_thread_init; by now the thread may have freed its struct.
Return ==
  /\ pc = "return"
  /\ LET p == handle[cur]
     IN  IF detached[cur] # 1 THEN UNCHANGED os_vars
         ELSE IF os[p] = "ended" THEN Collect(p)
         ELSE loose' = loose \cup {p} /\ UNCHANGED <<os, doomed, self, tid>>
  /\ told' = [told EXCEPT ![id[cur]] = "running"]
  /\ Goto("idle")
  /\ UNCHANGED <<threads, mutex_vars, next_tid, pool, fields, list, args, cur, fault>>

-----------------------------------------------------------------------------
(* The threads: _startup_pthread and _cleanup_pthread.                       *)

Start(p) ==
  /\ os[p] = "created"
  /\ self' = [self EXCEPT ![p] = args]
  /\ os' = [os EXCEPT ![p] = "running"]
  /\ UNCHANGED <<threads, mutex_vars, next_tid, pool, fields, list, args, loose, doomed, tid, told, pc, cur, fault>>

\* thread_fn returns, calls rune_thread_exit or is cancelled: the cleanup
\* handler runs in each case.
End(p) ==
  /\ os[p] = "running"
  /\ FirstStays => self[p] # threads
  /\ Remove(self[p], threads)
  /\ IF p \in loose THEN Collect(p)
     ELSE os' = [os EXCEPT ![p] = "ended"] /\ UNCHANGED <<loose, doomed, self, tid>>
  /\ UNCHANGED <<threads, mutex_vars, next_tid, fields, args, told, pc, cur, fault>>

-----------------------------------------------------------------------------
(* What else the client calls, for IDs it was returned.                      *)

\* rune_thread_join of i up to pthread_join, which it does not get to when the
\* thread is unknown (the call reports success) or detached.
Join(i) ==
  /\ pc = "idle" /\ told[i] = "running"
  /\ FirstStays => id[threads] # i
  /\ LET n == _find_thread_by_id(i)
     IN  \/ /\ n = NULL
            /\ IF Ends(threads)
               THEN told' = [told EXCEPT ![i] = "joined"] /\ UNCHANGED fault
               ELSE fault' = "endless walk" /\ UNCHANGED told
            /\ UNCHANGED <<pc, cur>>
         \/ /\ n # NULL /\ detached[n] = 1
            /\ told' = [told EXCEPT ![i] = "refused"]
            /\ UNCHANGED <<pc, cur, fault>>
         \/ /\ n # NULL /\ detached[n] # 1
            /\ cur' = n
            /\ Goto("join")
            /\ UNCHANGED <<told, fault>>
  /\ UNCHANGED <<threads, mutex_vars, next_tid, pool, fields, list, args, os_vars>>

\* pthread_join comes back.
JoinReturns ==
  /\ pc = "join"
  /\ os[handle[cur]] = "ended" /\ Collect(handle[cur])
  /\ told' = [told EXCEPT ![id[cur]] = "joined"]
  /\ Goto("idle")
  /\ UNCHANGED <<threads, mutex_vars, next_tid, pool, fields, list, args, cur, fault>>

\* rune_thread_cancel of a thread it finds.
Cancel(i) ==
  /\ pc = "idle" /\ told[i] = "running"
  /\ FirstStays => id[threads] # i
  /\ LET n == _find_thread_by_id(i)
     IN  n # NULL /\ doomed' = doomed \cup {handle[n]}
  /\ UNCHANGED <<threads, mutex_vars, next_tid, pool, fields, list, args, os, loose, self, tid, told, pc, cur, fault>>

MutexInit ==
  /\ pc = "idle" /\ next_mid < MaxMutex
  /\ \E n \in Block :
       /\ Alloc(n)
       /\ id' = [id EXCEPT ![n] = next_mid]
       /\ handle' = [handle EXCEPT ![n] = NULL]
       /\ Add(n, mutexes)
       /\ mutexes' = First(n, mutexes)
  /\ live' = live \cup {next_mid}
  /\ next_mid' = next_mid + 1
  /\ UNCHANGED <<threads, next_tid, detached, args, os_vars, told, pc, cur>>

\* What the search does not find is dereferenced all the same.
MutexDestroy(i) ==
  /\ pc = "idle" /\ i \in live
  /\ FirstStays => id[mutexes] # i
  /\ LET n == _find_mutex_by_id(i)
     IN  IF n = NULL
         THEN fault' = "null mutex" /\ UNCHANGED <<list, pool>>
         ELSE Remove(n, mutexes) /\ UNCHANGED fault
  /\ live' = live \ {i}
  /\ UNCHANGED <<threads, mutexes, next_tid, next_mid, fields, args, os_vars, told, pc, cur>>

Client ==
  \/ \E d \in {0, 1} : Register(d)
  \/ \E p \in Pthread : Create(p)
  \/ CreateFails \/ Return
  \/ \E i \in ID : Join(i) \/ Cancel(i)
  \/ JoinReturns
  \/ MutexInit
  \/ \E i \in 0..MaxMutex : MutexDestroy(i)

Next ==
  /\ fault = "none"
  /\ \/ Client
     \/ \E p \in Pthread : Start(p) \/ End(p)

Spec == Init /\ [][Next]_vars

\* The client comes out of rune_thread_init, threads are scheduled, and one
\* that was cancelled gets to a cancellation point.
FairSpec ==
  /\ Spec
  /\ WF_vars(fault = "none" /\ ((\E p \in Pthread : Create(p)) \/ CreateFails \/ Return \/ JoinReturns))
  /\ \A p \in Pthread : /\ WF_vars(fault = "none" /\ Start(p))
                        /\ WF_vars(fault = "none" /\ p \in doomed /\ End(p))

-----------------------------------------------------------------------------
TypeOK ==
  /\ {threads, mutexes, args, cur} \subseteq Block \cup {NULL}
  /\ next_tid \in 1..MaxID + 1 /\ next_mid \in 0..MaxMutex
  /\ made \in 0..MaxBlock /\ used \subseteq 1..made
  /\ id \in [Block -> Nat]
  /\ detached \in [Block -> {0, 1}]
  /\ handle \in [Block -> Pthread \cup {NULL}]
  /\ {next, prev} \subseteq [Block -> Block \cup {NULL}]
  /\ os \in [Pthread -> {"none", "created", "running", "ended"}]
  /\ loose \subseteq Pthread /\ doomed \subseteq Pthread \cup {NULL}
  /\ self \in [Pthread -> Block \cup {NULL}]
  /\ tid \in [Pthread -> ID]
  /\ told \in [ID -> {"nothing", "running", "failed", "refused", "joined"}]
  /\ live \subseteq 0..MaxMutex
  /\ pc \in {"idle", "create", "return", "join"}
  /\ fault \in {"none", "endless walk", "null mutex"}

Alive == {p \in Pthread : os[p] \in {"created", "running"}}
BeingMade == IF pc = "create" THEN {id[cur]} ELSE {}

\* IDs names exactly the structs in S, one each.
Names(S, IDs) == {id[n] : n \in S} = IDs /\ Cardinality(S) = Cardinality(IDs)

\* Under the three rules, whatever threads start and end between the client's
\* calls and between the two halves of rune_thread_init, the lists are of the
\* threads that have not ended (and those that could not be created) and of the
\* client's mutexes, one struct for each, no struct is on both, and no block is
\* in use but theirs (thread.c:116-135, 86-93, 182-201).
RegistryExact ==
  LET T == OnList(threads)
      M == OnList(mutexes)
  IN  /\ Ends(threads) /\ Names(T, {tid[p] : p \in Alive} \cup Failed \cup BeingMade)
      /\ Ends(mutexes) /\ Names(M, live)
      /\ T \cap M = {} /\ T \cup M = used

\* A thread runs with, and cleans up, the struct it was created for, though its
\* start_args are freed while it may not have read them: under the three rules
\* nobody takes that block in time (thread.c:94-103, 130).
OwnArgs ==
  \A p \in Pthread : os[p] = "running" => self[p] \in used /\ id[self[p]] = tid[p]

\* Under the three rules a thread that asks is told its own ID, unless a thread
\* that could not be created left a stale handle on the list (thread.c:167-173),
\* and rune_thread_exit finds the struct it dereferences.  Without the third,
\* its walk may stand on a struct that is just being unlinked, and end there.
SelfIsMine ==
  \A p \in Pthread :
    os[p] = "running" =>
      LET n == _find_thread_by_handle(p)
      IN  n # NULL /\ (id[n] = tid[p] \/ id[n] \in Failed \cup BeingMade)

\* Under the three rules a thread that rune_thread_join has reported success for
\* is no longer running, also when the call did not find it (thread.c:154-165).
\* Without the third it may be: JoinedHasEnded of ThreadRace.
JoinWaits ==
  \A p \in Pthread : tid[p] # 0 /\ told[tid[p]] = "joined" => p \notin Alive

\* A join of a thread that was cancelled returns: it waits for that thread, and
\* nobody else collects it (thread.c:143-165).
CancelledJoinReturns == (pc = "join" /\ handle[cur] \in doomed) ~> pc = "idle"
=============================================================================
