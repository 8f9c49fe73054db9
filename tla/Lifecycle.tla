------------------------------ MODULE Lifecycle ------------------------------
(***************************************************************************)
(* The engine's life: mods register themselves, rune_init starts them,     *)
(* rune_exit ends them and gives the pool's blocks back, and rune_abort    *)
(* does so from wherever a fatal error is met (engine/core/init.c, mod.c,  *)
(* abort.c).  Meanwhile other threads allocate and end.                    *)
(*                                                                         *)
(* A mod's struct lives in the pool: once freed, its block is handed out   *)
(* again to whoever asks for its size (PoolAlloc), and reads as something  *)
(* else.  It stays linked: rune_close_mods takes nothing off the list.     *)
(*                                                                         *)
(* External: the mods' functions, which return, register mods (init) or    *)
(* call rune_abort; the application's other threads.                       *)
(***************************************************************************)
EXTENDS Naturals, Sequences, Functions

CONSTANTS
  Mods,     \* the mods there are, linked in or in the mods folder
  Main,     \* the thread that runs the engine
  Workers,  \* the threads the application created
  Allow     \* what of Liberties the application and its mods take

\* What nothing forbids, and what the engine is not up to.
Liberties == {"worker aborts",      \* a worker calls rune_abort
              "exit aborts",        \* a mod's exit function calls rune_abort
              "workers stay",       \* rune_exit is called while workers run
              "late mods"}          \* a mod is registered after rune_init

ASSUME LifecycleAssumption ==
  /\ Main \notin Workers
  /\ Allow \subseteq Liberties

VARIABLES
  mods,     \* the list of registered mods, in order
  inited,   \* the mods whose init function was called
  exits,    \* exits[m]: how often the exit function of m was called, 2 for more than once
  freed,    \* the mods whose struct was freed
  reused,   \* those whose block has a new owner
  at,       \* at[t]: temp of the walk of thread t, as a position of mods
  mod,      \* mod[t]: mod of that walk, also a position
  step,     \* step[t]: what thread t is about to do
  pool,     \* "up" until rune_free_all, "going" while that walks the list
  aborted,  \* history: has rune_abort been called?
  fault     \* the undefined behaviour the run ended in, if any

lvars == <<mods, inited, exits, freed, reused, at, mod, step, pool, aborted, fault>>

Threads == Workers \cup {Main}

Step == {"load", "init", "initing", "app", "running", "call", "advance", "free",
         "free all", "freeing", "leave", "ended", "gone"}

\* The process has ended or crashed.
Over == fault # "none" \/ \E t \in Threads : step[t] = "gone"

LInit ==
  /\ mods = <<>> /\ inited = {}
  /\ exits = [m \in Mods |-> 0]
  /\ freed = {} /\ reused = {}
  /\ at = [t \in Threads |-> 1] /\ mod = [t \in Threads |-> 1]
  /\ step = [t \in Threads |-> IF t = Main THEN "load" ELSE "running"]
  /\ pool = "up" /\ aborted = FALSE /\ fault = "none"

Goto(t, s) == step' = [step EXCEPT ![t] = s]

\* Step s, if the liberty what is taken.
IfAllowed(what, s) == {x \in {s} : what \in Allow}

Crash(what) == fault' = what /\ UNCHANGED step

-----------------------------------------------------------------------------
(* Registration and rune_init.                                               *)

\* A constructor runs, before main or in rune_load_mods, or an init function
\* registers a mod of its own.  The constructors of a library run once.
rune_register_mod(m) ==
  /\ ~ Over
  /\ step[Main] \in {"load", "initing"} \cup IfAllowed("late mods", "app")
  /\ m \notin Range(mods)
  /\ mods' = Append(mods, m)
  /\ UNCHANGED <<inited, exits, freed, reused, at, mod, step, pool, aborted, fault>>

\* Mutant of PastEnd: the walks stop at the last mod.
PastEndEarly(i) == i >= Len(mods)

\* temp is NULL: the walks of rune_init_mods and rune_close_mods end.
PastEnd(i) == i > Len(mods)

rune_init ==
  /\ ~ Over
  /\ step[Main] = "load"
  /\ Goto(Main, IF PastEnd(1) THEN "app" ELSE "init")
  /\ UNCHANGED <<mods, inited, exits, freed, reused, at, mod, pool, aborted, fault>>

CallInit ==
  /\ ~ Over
  /\ step[Main] = "init"
  /\ inited' = inited \cup {mods[at[Main]]}
  /\ Goto(Main, "initing")
  /\ UNCHANGED <<mods, exits, freed, reused, at, mod, pool, aborted, fault>>

InitReturns ==
  /\ ~ Over
  /\ step[Main] = "initing"
  /\ at' = [at EXCEPT ![Main] = at[Main] + 1]
  /\ Goto(Main, IF PastEnd(at[Main] + 1) THEN "app" ELSE "init")
  /\ UNCHANGED <<mods, inited, exits, freed, reused, mod, pool, aborted, fault>>

-----------------------------------------------------------------------------
(* rune_exit and rune_abort, by whichever thread calls them.                 *)

\* rune_close_mods begins, if there are mods.
EnterExit(t) ==
  /\ at' = [at EXCEPT ![t] = 1]
  /\ Goto(t, IF mods = <<>> THEN "free all" ELSE "call")

rune_exit ==
  /\ ~ Over
  /\ step[Main] = "app"
  /\ "workers stay" \in Allow \/ \A w \in Workers : step[w] = "ended"
  /\ EnterExit(Main)
  /\ UNCHANGED <<mods, inited, exits, freed, reused, mod, pool, aborted, fault>>

\* Called from a mod's init function, the application or the engine, and, when
\* nothing keeps them from it, by a worker or from a mod's exit function.
AbortFrom ==
  {"initing", "app"} \cup IfAllowed("worker aborts", "running")
                     \cup IfAllowed("exit aborts", "advance")

rune_abort(t) ==
  /\ ~ Over
  /\ step[t] \in AbortFrom
  /\ aborted' = TRUE
  /\ EnterExit(t)
  /\ UNCHANGED <<mods, inited, exits, freed, reused, mod, pool, fault>>

\* Bound: calls of an exit function are counted up to 2.
OneMore(n) == IF n = 0 THEN 1 ELSE 2

\* Mutant of Follow: a struct is freed before its link is read.
FollowFreeFirst == [call |-> "free", free |-> "advance", advance |-> "call"]

\* The order of one round of rune_close_mods.
Follow == [call |-> "advance", advance |-> "free", free |-> "call"]

\* Thread t goes on in its walk, whose temp is now i.
GoOn(t, i) ==
  Goto(t, IF Follow[step[t]] = "call" /\ PastEnd(i) THEN "free all" ELSE Follow[step[t]])

\* The exit function is called through the struct temp is in.
CallExit(t) ==
  /\ ~ Over
  /\ step[t] = "call"
  /\ LET m == mods[at[t]] IN
       IF m \in reused THEN Crash("wild mod") /\ UNCHANGED <<exits, mod>>
       ELSE /\ exits' = [exits EXCEPT ![m] = OneMore(@)]
            /\ mod' = [mod EXCEPT ![t] = at[t]]
            /\ GoOn(t, at[t]) /\ UNCHANGED fault
  /\ UNCHANGED <<mods, inited, freed, reused, at, pool, aborted>>

\* Mutant of TempNext: the link is read from the head.
TempNextOfHead(i) == 2

\* temp->next.
TempNext(i) == i + 1

AdvanceExit(t) ==
  /\ ~ Over
  /\ step[t] = "advance"
  /\ IF mods[at[t]] \in reused THEN Crash("wild mod") /\ UNCHANGED at
     ELSE /\ at' = [at EXCEPT ![t] = TempNext(at[t])]
          /\ GoOn(t, TempNext(at[t])) /\ UNCHANGED fault
  /\ UNCHANGED <<mods, inited, exits, freed, reused, mod, pool, aborted>>

\* rune_free: a block freed twice stays free, or is taken from its new owner;
\* after rune_free_all it is not found.
FreeMod(t) ==
  /\ ~ Over
  /\ step[t] = "free"
  /\ IF pool # "up" THEN Crash("unknown block") /\ UNCHANGED freed
     ELSE /\ freed' = freed \cup {mods[mod[t]]}
          /\ GoOn(t, at[t]) /\ UNCHANGED fault
  /\ UNCHANGED <<mods, inited, exits, reused, at, mod, pool, aborted>>

\* The walk of rune_free_all, which frees the blocks under whoever else walks.
rune_free_all(t) ==
  /\ ~ Over
  /\ step[t] = "free all"
  /\ pool' = "going"
  /\ Goto(t, "freeing")
  /\ UNCHANGED <<mods, inited, exits, freed, reused, at, mod, aborted, fault>>

\* _free_block logs the size of the header it has just freed, which malloc may
\* have unmapped; there is one at least, rune_init_thread_api's.
AllFreed(t) ==
  /\ ~ Over
  /\ step[t] = "freeing"
  /\ \/ Crash("freed header") /\ UNCHANGED pool
     \/ pool' = "gone" /\ Goto(t, "leave") /\ UNCHANGED fault
  /\ UNCHANGED <<mods, inited, exits, freed, reused, at, mod, aborted>>

\* main returns, or rune_abort calls exit.
EndProcess(t) ==
  /\ ~ Over
  /\ step[t] = "leave"
  /\ Goto(t, "gone")
  /\ UNCHANGED <<mods, inited, exits, freed, reused, at, mod, pool, aborted, fault>>

Ending(t) == \/ CallExit(t) \/ AdvanceExit(t) \/ FreeMod(t)
             \/ rune_free_all(t) \/ AllFreed(t) \/ EndProcess(t)

-----------------------------------------------------------------------------
(* The others.                                                               *)

\* A worker, or the exit function being called, gets the block of a freed struct.
Reuse ==
  /\ ~ Over
  /\ pool = "up"
  /\ \E t \in Threads : step[t] = "running" \/ step[t] = "advance"
  /\ \E m \in freed \ reused : reused' = reused \cup {m}
  /\ UNCHANGED <<mods, inited, exits, freed, at, mod, step, pool, aborted, fault>>

\* Its cleanup handler frees its struct, if that is still found (thread.c:86-92).
WorkerEnds(w) ==
  /\ ~ Over
  /\ step[w] = "running" /\ pool # "gone"
  /\ Goto(w, "ended")
  /\ UNCHANGED <<mods, inited, exits, freed, reused, at, mod, pool, aborted, fault>>

\* What a walk of the pool's list meets during rune_free_all and after it.
Meets == [up |-> {}, going |-> {"torn list", "unknown block"}, gone |-> {"unknown block"}]

\* A worker frees a block it has, its struct when it ends or another, or, with
\* rune_free_all going on, allocates one.
WorkerFails(w) ==
  /\ ~ Over
  /\ step[w] = "running"
  /\ \E what \in Meets[pool] : Crash(what)
  /\ UNCHANGED <<mods, inited, exits, freed, reused, at, mod, pool, aborted>>

Others == Reuse \/ \E w \in Workers : WorkerEnds(w) \/ WorkerFails(w)

Starting == (\E m \in Mods : rune_register_mod(m)) \/ rune_init \/ CallInit \/ InitReturns

LNext == Starting \/ Others \/ \E t \in Threads : rune_abort(t) \/ Ending(t)

\* The scheduler lets a thread that ends the engine go on.
EndingFair == \A t \in Threads : WF_lvars(Ending(t))

LSpec == LInit /\ [][LNext \/ rune_exit]_lvars

-----------------------------------------------------------------------------
LTypeOK ==
  /\ mods \in Seq(Mods) /\ inited \subseteq Mods
  /\ exits \in [Mods -> 0 .. 2]
  /\ freed \subseteq Mods /\ reused \subseteq freed
  /\ at \in [Threads -> Nat \ {0}] /\ mod \in [Threads -> Nat \ {0}]
  /\ step \in [Threads -> Step]
  /\ pool \in {"up", "going", "gone"} /\ aborted \in BOOLEAN
  /\ fault \in {"none", "wild mod", "unknown block", "torn list", "freed header"}

\* No mod is ended twice, from wherever the engine is ended: the application,
\* or a fatal error in the engine, in the main loop or in a mod's init function
\* (mod.c:64-78, init.c:43-48, abort.c:72-77).
ExitsOnce == \A m \in Mods : exits[m] <= 1

\* When the process ends, be it in the logging of rune_free_all, every mod that
\* was registered has been ended, also those registered by other mods and those
\* an abort left without their init function; on the way from rune_init to
\* rune_exit no mod is ended that was not started (mod.c:53-78).
NoneMissed ==
  /\ fault \in {"none", "freed header"} /\ Over => \A m \in Range(mods) : exits[m] = 1
  /\ ~ aborted => \A m \in Mods : exits[m] # 0 => m \in inited

\* Every end reads what it has given back: each header, for the log, right after
\* it was freed (alloc.c:93-94).  That is all an end without abort reads or frees
\* so: no function and no link is taken from a mod's struct whose block has gone
\* to another owner, and nobody else is in the pool when rune_free_all is.  After
\* an abort a worker it did not wait for may be in it, or come after it; that is
\* all an abort adds (mod.c:70-75, init.c:43-48, abort.c:72-77, alloc.c:148-178,
\* thread.c:86-92).
FreedOnlyLogged ==
  \/ fault \in {"none", "freed header"}
  \/ fault \in {"torn list", "unknown block"} /\ aborted

\* The end comes: once a thread is on its way through rune_exit or rune_abort,
\* the process ends (mod.c:68-75, init.c:43-48, abort.c:72-77).
Leaving(t) == step[t] \in {"call", "advance", "free", "free all", "freeing", "leave"}
Ends == \A t \in Threads : Leaving(t) ~> Over
=============================================================================
