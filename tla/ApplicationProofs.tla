-------------------------- MODULE ApplicationProofs --------------------------
(***************************************************************************)
(* The engine ends as it should, however many mods and workers there are,  *)
(* and wherever main meets a fatal error, when nobody takes a liberty; and *)
(* what the components promise holds of the application they make up.      *)
(***************************************************************************)
EXTENDS Application, RenderObjectsProofs

\* Thread t's walk of rune_close_mods is over, or the process is.
Walked == {"free all", "freeing", "leave", "gone"}

\* Main is on its way out.
Leaves == {"call", "advance", "free"} \cup Walked

\* No mod is on the list twice.
Distinct == \A i, j \in 1 .. Len(mods) : mods[i] = mods[j] => i = j

\* The mods before position i were ended, once, and no other.
Ended(i) ==
  /\ \A k \in 1 .. Len(mods) : exits[mods[k]] = IF k < i THEN 1 ELSE 0
  /\ \A m \in Mods : m \notin Range(mods) => exits[m] = 0

\* Only structs before position i were freed.
FreedBefore(i) == \A k \in 1 .. Len(mods) : mods[k] \in freed => k < i

\* The mods before position i were started.
Started(i) == \A k \in 1 .. Len(mods) : k < i => mods[k] \in inited

\* Workers end nothing but themselves.
WorkersWork == \A w \in Workers : step[w] \in {"running", "ended"}

\* Until main leaves, nothing was ended or given back.
AllThere ==
  step[Main] \notin Leaves =>
    /\ \A m \in Mods : exits[m] = 0
    /\ freed = {}

\* Where the walk of rune_init_mods is.
Starts ==
  /\ step[Main] = "load" => at[Main] = 1
  /\ step[Main] = "init" => at[Main] <= Len(mods) /\ Started(at[Main])
  /\ step[Main] = "initing" => at[Main] <= Len(mods) /\ Started(at[Main] + 1)
  /\ step[Main] \in Leaves \cup {"app"} => aborted \/ Started(Len(mods) + 1)

\* Where main's walk of rune_close_mods is.
Walks ==
  /\ step[Main] = "call" =>
       at[Main] <= Len(mods) /\ Ended(at[Main]) /\ FreedBefore(at[Main])
  /\ step[Main] = "advance" =>
       /\ at[Main] <= Len(mods) /\ mod[Main] = at[Main]
       /\ Ended(at[Main] + 1) /\ FreedBefore(at[Main])
  /\ step[Main] = "free" =>
       /\ mod[Main] <= Len(mods) /\ at[Main] = mod[Main] + 1
       /\ Ended(at[Main]) /\ FreedBefore(mod[Main])
  /\ step[Main] \in Walked => Ended(Len(mods) + 1)

\* The pool goes last, and after the workers unless there was an abort.
PoolLast ==
  /\ pool # "up" => step[Main] \in {"freeing", "leave", "gone"}
  /\ fault = "freed header" => step[Main] \in Walked
  /\ step[Main] \in Leaves => aborted \/ \A w \in Workers : step[w] = "ended"

LInv == /\ LTypeOK /\ Distinct /\ WorkersWork /\ AllThere
        /\ Starts /\ Walks /\ PoolLast /\ FreedOnlyLogged

-----------------------------------------------------------------------------
\* Without liberties a mod is registered while main starts, main aborts from
\* where it starts or runs, and workers do not abort.
LEMMA NoLiberties ==
  ASSUME Allow = {}, NEW what, NEW s
  PROVE  IfAllowed(what, s) = {}
BY DEF IfAllowed

LEMMA MainIsThread == Main \in Threads /\ \A w \in Workers : w \in Threads /\ w # Main
BY LifecycleAssumption DEF Threads

\* What the walks' places are.
LEMMA WalkPlaces ==
  ASSUME LTypeOK
  PROVE  /\ mods \in Seq(Mods) /\ Len(mods) \in Nat /\ (mods = <<>> <=> Len(mods) = 0)
         /\ \A k \in 1 .. Len(mods) : mods[k] \in Mods
         /\ at[Main] \in Nat /\ at[Main] >= 1
         /\ mod[Main] \in Nat /\ mod[Main] >= 1
<1>1. mods \in Seq(Mods)
  BY DEF LTypeOK
<1>2. at \in [Threads -> Nat \ {0}] /\ mod \in [Threads -> Nat \ {0}]
  BY DEF LTypeOK
<1>3. at[Main] \in Nat \ {0} /\ mod[Main] \in Nat \ {0}
  BY <1>2, MainIsThread
<1> QED
  BY <1>1, <1>3

LEMMA InitHolds == LInit => LInv
<1> SUFFICES ASSUME LInit PROVE LInv
  OBVIOUS
<1>1. LTypeOK
  <2>1. mods \in Seq(Mods)
    BY DEF LInit
  <2>2. at \in [Threads -> Nat \ {0}] /\ mod \in [Threads -> Nat \ {0}]
    BY DEF LInit
  <2>3. step \in [Threads -> Step]
    BY DEF LInit, Step
  <2>4. exits \in [Mods -> 0 .. 2]
    BY DEF LInit
  <2> QED
    BY <2>1, <2>2, <2>3, <2>4 DEF LInit, LTypeOK
<1>2. WorkersWork /\ AllThere /\ PoolLast /\ FreedOnlyLogged /\ Distinct
  BY MainIsThread DEF LInit, WorkersWork, AllThere, PoolLast, FreedOnlyLogged, Distinct, Leaves, Walked
<1>3. Starts /\ Walks
  BY MainIsThread DEF LInit, Starts, Walks, Leaves, Walked
<1> QED
  BY <1>1, <1>2, <1>3 DEF LInv

\* A mod is added at the end of the list while nothing was ended.
LEMMA RegisterKeeps ==
  ASSUME Allow = {}, LInv, NEW m \in Mods, rune_register_mod(m)
  PROVE  LInv'
<1>1. step[Main] \in {"load", "initing"} /\ m \notin Range(mods) /\ mods' = Append(mods, m)
  BY NoLiberties DEF rune_register_mod
<1>2. UNCHANGED <<inited, exits, freed, reused, at, mod, step, pool, aborted, fault>>
  BY DEF rune_register_mod
<1>3. /\ mods \in Seq(Mods) /\ mods' \in Seq(Mods)
      /\ Len(mods') = Len(mods) + 1 /\ Len(mods) \in Nat
      /\ \A k \in 1 .. Len(mods) : mods'[k] = mods[k] /\ mods[k] # m
      /\ mods'[Len(mods) + 1] = m
  <2>1. mods \in Seq(Mods)
    BY DEF LInv, LTypeOK
  <2>2. \A k \in 1 .. Len(mods) : mods[k] # m
    BY <1>1, <2>1 DEF Range
  <2> QED
    BY <1>1, <2>1, <2>2
<1>4. LTypeOK'
  BY <1>2, <1>3 DEF LInv, LTypeOK
<1>5. Distinct'
  BY <1>3 DEF LInv, Distinct
<1>6. WorkersWork' /\ AllThere' /\ PoolLast' /\ FreedOnlyLogged'
  BY <1>2 DEF LInv, WorkersWork, AllThere, PoolLast, FreedOnlyLogged
<1>7. Starts'
  <2>1. at[Main] \in Nat /\ Len(mods) \in Nat /\ step[Main] \notin Leaves \cup {"app"}
    BY <1>1, WalkPlaces DEF LInv, Leaves, Walked
  <2>2. \A i \in Nat : i <= Len(mods) + 1 /\ Started(i) => Started(i)'
    BY <1>2, <1>3, <2>1 DEF Started
  <2> QED
    BY <1>2, <1>3, <2>1, <2>2 DEF LInv, Starts
<1>8. Walks'
  BY <1>1, <1>2 DEF Walks, Walked
<1> QED
  BY <1>4, <1>5, <1>6, <1>7, <1>8 DEF LInv

LEMMA InitStepKeeps ==
  ASSUME LInv, rune_init \/ CallInit \/ InitReturns
  PROVE  LInv'
<1>1. /\ step[Main] \in {"load", "init", "initing"}
      /\ step' = [step EXCEPT ![Main] = step'[Main]]
      /\ step'[Main] \in {"init", "initing", "app"}
      /\ UNCHANGED <<mods, exits, freed, reused, mod, pool, aborted, fault>>
  BY MainIsThread DEF LInv, LTypeOK, rune_init, CallInit, InitReturns, Goto
<1>2. LTypeOK'
  <2>1. at' \in [Threads -> Nat \ {0}] /\ inited' \subseteq Mods
    <3>1. CASE rune_init
      BY <3>1 DEF LInv, LTypeOK, rune_init
    <3>2. CASE CallInit
      <4>1. mods[at[Main]] \in Mods
        BY <3>2, WalkPlaces DEF LInv, CallInit, Starts
      <4> QED
        BY <3>2, <4>1 DEF LInv, LTypeOK, CallInit
    <3>3. CASE InitReturns
      <4>1. at[Main] + 1 \in Nat \ {0}
        BY WalkPlaces DEF LInv
      <4> QED
        BY <3>3, <4>1 DEF LInv, LTypeOK, InitReturns
    <3> QED
      BY <3>1, <3>2, <3>3
  <2>2. step' \in [Threads -> Step]
    BY <1>1 DEF LInv, LTypeOK, Step
  <2> QED
    BY <1>1, <2>1, <2>2 DEF LInv, LTypeOK
<1>3. \A w \in Workers : step'[w] = step[w]
  BY <1>1, MainIsThread DEF LInv, LTypeOK
<1>4. Distinct' /\ WorkersWork' /\ FreedOnlyLogged'
  BY <1>1, <1>3 DEF LInv, Distinct, WorkersWork, FreedOnlyLogged
<1>5. AllThere' /\ Walks'
  BY <1>1 DEF LInv, AllThere, Walks, Leaves, Walked
<1>6. PoolLast'
  BY <1>1 DEF LInv, PoolLast, Leaves, Walked
<1>7. Starts'
  <2>1. Len(mods) \in Nat /\ at[Main] \in Nat /\ at[Main] >= 1 /\ at \in [Threads -> Nat \ {0}]
    BY WalkPlaces DEF LInv, LTypeOK
  <2>2. CASE rune_init
    <3>1. /\ at[Main] = 1 /\ at' = at /\ inited' = inited
          /\ step'[Main] = IF 1 > Len(mods) THEN "app" ELSE "init"
      BY <2>2, MainIsThread DEF LInv, LTypeOK, Starts, rune_init, Goto, PastEnd
    <3>2. Started(1)' /\ (1 > Len(mods) => Started(Len(mods) + 1)')
      BY <1>1, <2>1 DEF Started
    <3> QED
      BY <1>1, <2>1, <3>1, <3>2 DEF Starts, Leaves, Walked
  <2>3. CASE CallInit
    <3>1. /\ at' = at /\ inited' = inited \cup {mods[at[Main]]}
          /\ step[Main] = "init" /\ step'[Main] = "initing"
      BY <2>3, MainIsThread DEF LInv, LTypeOK, CallInit, Goto
    <3>2. at[Main] <= Len(mods) /\ Started(at[Main])
      BY <3>1 DEF LInv, Starts
    <3>3. Started(at[Main] + 1)'
      BY <1>1, <2>1, <3>1, <3>2 DEF Started
    <3> QED
      BY <1>1, <2>1, <3>1, <3>2, <3>3 DEF Starts, Leaves, Walked
  <2>4. CASE InitReturns
    <3>1. /\ at'[Main] = at[Main] + 1 /\ inited' = inited
          /\ step[Main] = "initing"
          /\ step'[Main] = IF at[Main] + 1 > Len(mods) THEN "app" ELSE "init"
      BY <2>1, <2>4, MainIsThread DEF LInv, LTypeOK, InitReturns, Goto, PastEnd
    <3>2. at[Main] <= Len(mods) /\ Started(at[Main] + 1)
      BY <3>1 DEF LInv, Starts
    <3>3. Started(at[Main])'
      BY <1>1, <3>1, <3>2 DEF Started
    <3>4. at[Main] + 1 > Len(mods) => Started(Len(mods) + 1)'
      BY <1>1, <2>1, <3>1, <3>2 DEF Started
    <3> QED
      BY <1>1, <2>1, <3>1, <3>3, <3>4 DEF Starts, Leaves, Walked
  <2> QED
    BY <2>2, <2>3, <2>4
<1> QED
  BY <1>2, <1>4, <1>5, <1>6, <1>7 DEF LInv

\* Main leaves for rune_exit: the walk is at its first mod.
LEMMA EnterKeeps ==
  ASSUME LInv, step[Main] \notin Leaves, EnterExit(Main),
         aborted' \in BOOLEAN,
         aborted' \/ (/\ \A w \in Workers : step[w] = "ended"
                      /\ ~ aborted /\ step[Main] = "app"),
         aborted => aborted',
         UNCHANGED <<mods, inited, exits, freed, reused, mod, pool, fault>>
  PROVE  LInv'
<1>1. /\ at' = [at EXCEPT ![Main] = 1] /\ at'[Main] = 1
      /\ step' = [step EXCEPT ![Main] = step'[Main]]
      /\ step'[Main] = IF mods = <<>> THEN "free all" ELSE "call"
      /\ \A w \in Workers : step'[w] = step[w]
  BY MainIsThread DEF LInv, LTypeOK, EnterExit, Goto
<1>2. LTypeOK'
  <2>1. at' \in [Threads -> Nat \ {0}]
    <3>1. at \in [Threads -> Nat \ {0}]
      BY DEF LInv, LTypeOK
    <3>2. 1 \in Nat \ {0}
      OBVIOUS
    <3> QED
      BY <1>1, <3>1, <3>2
  <2> QED
    BY <1>1, <2>1 DEF LInv, LTypeOK, Step
<1>3. Distinct' /\ WorkersWork' /\ FreedOnlyLogged' /\ AllThere'
  BY <1>1 DEF LInv, Distinct, WorkersWork, FreedOnlyLogged, AllThere, Leaves, Walked
<1>4. PoolLast'
  BY <1>1 DEF LInv, PoolLast, Leaves, Walked
<1>5. Starts'
  <2>1. ~ aborted /\ step[Main] = "app" => Started(Len(mods) + 1)
    BY DEF LInv, Starts
  <2>2. Started(Len(mods) + 1) => Started(Len(mods) + 1)'
    BY DEF Started
  <2>3. aborted' \/ Started(Len(mods) + 1)'
    BY <2>1, <2>2, Zenon
  <2>4. mods' = mods /\ step'[Main] \in {"free all", "call"}
    BY <1>1
  <2> QED
    BY <2>3, <2>4 DEF Starts
<1>6. /\ \A k \in 1 .. Len(mods) : exits[mods[k]] = 0 /\ mods[k] \notin freed
      /\ \A m \in Mods : exits[m] = 0
  BY WalkPlaces DEF LInv, AllThere
<1>7. Ended(1)' /\ FreedBefore(1)' /\ (mods = <<>> => Ended(Len(mods) + 1)')
  BY <1>6 DEF Ended, FreedBefore
<1>8. Len(mods) \in Nat /\ (mods # <<>> => 1 <= Len(mods))
  BY WalkPlaces DEF LInv
<1>9. Walks'
  BY <1>1, <1>7, <1>8 DEF Walks, Walked
<1> QED
  BY <1>2, <1>3, <1>4, <1>5, <1>9 DEF LInv

LEMMA ExitKeeps ==
  ASSUME Allow = {}, LInv, rune_exit
  PROVE  LInv'
<1>1. /\ step[Main] = "app" /\ EnterExit(Main)
      /\ \A w \in Workers : step[w] = "ended"
      /\ UNCHANGED <<mods, inited, exits, freed, reused, mod, pool, aborted, fault>>
  BY DEF rune_exit
<1>2. step[Main] \notin Leaves
  BY <1>1 DEF Leaves, Walked
<1> QED
  BY <1>1, <1>2, EnterKeeps DEF LInv, LTypeOK

LEMMA AbortKeeps ==
  ASSUME Allow = {}, LInv, NEW t \in Threads, rune_abort(t)
  PROVE  LInv'
<1>1. step[t] \in {"initing", "app"}
  BY NoLiberties DEF rune_abort, AbortFrom
<1>2. t = Main
  BY <1>1 DEF LInv, WorkersWork, Threads
<1>3. step[Main] \notin Leaves
  BY <1>1, <1>2 DEF Leaves, Walked
<1> QED
  BY <1>2, <1>3, EnterKeeps DEF rune_abort

LEMMA OthersKeep ==
  ASSUME LInv, Others
  PROVE  LInv'
<1>1. CASE Reuse
  <2>1. /\ reused' \subseteq freed
        /\ UNCHANGED <<mods, inited, exits, freed, at, mod, step, pool, aborted, fault>>
    BY <1>1 DEF LInv, LTypeOK, Reuse
  <2>2. LTypeOK'
    BY <2>1 DEF LInv, LTypeOK
  <2>3. Distinct' /\ WorkersWork' /\ AllThere' /\ PoolLast' /\ FreedOnlyLogged'
    BY <2>1 DEF LInv, Distinct, WorkersWork, AllThere, PoolLast, FreedOnlyLogged
  <2>4. Starts' /\ Walks'
    BY <2>1 DEF LInv, Starts, Started, Walks, Ended, FreedBefore
  <2> QED
    BY <2>2, <2>3, <2>4 DEF LInv
<1>2. ASSUME NEW w \in Workers, WorkerEnds(w) PROVE LInv'
  <2>1. /\ step' = [step EXCEPT ![w] = "ended"]
        /\ UNCHANGED <<mods, inited, exits, freed, reused, at, mod, pool, aborted, fault>>
    BY <1>2 DEF WorkerEnds, Goto
  <2>2. step'[Main] = step[Main] /\ \A v \in Workers : step'[v] = step[v] \/ step'[v] = "ended"
    BY <2>1, MainIsThread DEF LInv, LTypeOK
  <2>3. LTypeOK'
    BY <2>1 DEF LInv, LTypeOK, Step
  <2>4. Distinct' /\ WorkersWork' /\ AllThere' /\ PoolLast' /\ FreedOnlyLogged'
    BY <2>1, <2>2 DEF LInv, Distinct, WorkersWork, AllThere, PoolLast, FreedOnlyLogged
  <2>5. Starts' /\ Walks'
    BY <2>1, <2>2 DEF LInv, Starts, Started, Walks, Ended, FreedBefore
  <2> QED
    BY <2>3, <2>4, <2>5 DEF LInv
<1>3. ASSUME NEW w \in Workers, WorkerFails(w) PROVE LInv'
  <2>1. /\ step[w] = "running" /\ step' = step /\ fault' \in Meets[pool]
        /\ UNCHANGED <<mods, inited, exits, freed, reused, at, mod, pool, aborted>>
    BY <1>3 DEF WorkerFails, Crash
  <2>2. pool \in {"up", "going", "gone"}
    BY DEF LInv, LTypeOK
  <2>3. pool # "up" /\ fault' \in {"torn list", "unknown block"}
    <3>1. Meets["up"] = {} /\ Meets["going"] = {"torn list", "unknown block"}
          /\ Meets["gone"] = {"unknown block"}
      BY DEF Meets
    <3> QED
      BY <2>1, <2>2, <3>1
  <2>4. step[Main] \in Leaves
    BY <2>3 DEF LInv, PoolLast, Leaves, Walked
  <2>5. aborted
    BY <2>1, <2>4 DEF LInv, PoolLast
  <2>6. LTypeOK'
    BY <2>1, <2>3 DEF LInv, LTypeOK
  <2>7. Distinct' /\ WorkersWork' /\ AllThere' /\ PoolLast' /\ FreedOnlyLogged'
    BY <2>1, <2>3, <2>5 DEF LInv, Distinct, WorkersWork, AllThere, PoolLast, FreedOnlyLogged
  <2>8. Starts' /\ Walks'
    BY <2>1 DEF LInv, Starts, Started, Walks, Ended, FreedBefore
  <2> QED
    BY <2>6, <2>7, <2>8 DEF LInv
<1> QED
  BY <1>1, <1>2, <1>3 DEF Others

\* A round of main's walk of rune_close_mods.
LEMMA CallExitKeeps ==
  ASSUME LInv, CallExit(Main)
  PROVE  LInv'
<1> DEFINE i == at[Main]
           m == mods[i]
<1>1. step[Main] = "call" /\ i \in Nat /\ i >= 1 /\ i <= Len(mods) /\ Len(mods) \in Nat
  BY WalkPlaces DEF LInv, Walks, CallExit
<1>2. m \in Mods /\ m \notin freed /\ Ended(i) /\ FreedBefore(i)
  BY <1>1, WalkPlaces DEF LInv, Walks, FreedBefore
<1>3. m \notin reused
  BY <1>2 DEF LInv, LTypeOK
<1>4. /\ exits' = [exits EXCEPT ![m] = OneMore(exits[m])]
      /\ mod' = [mod EXCEPT ![Main] = i]
      /\ step' = [step EXCEPT ![Main] = "advance"]
      /\ UNCHANGED <<mods, inited, freed, reused, at, pool, aborted, fault>>
  BY <1>1, <1>3 DEF CallExit, GoOn, Goto, Follow
<1>5. /\ step'[Main] = "advance" /\ mod'[Main] = i
      /\ \A w \in Workers : step'[w] = step[w]
  BY <1>4, MainIsThread DEF LInv, LTypeOK
<1>6. exits[m] = 0 /\ exits'[m] = 1 /\ \A x \in Mods : x # m => exits'[x] = exits[x]
  <2>1. exits[m] = 0
    BY <1>1, <1>2 DEF Ended
  <2>2. exits \in [Mods -> 0 .. 2]
    BY DEF LInv, LTypeOK
  <2> HIDE DEF m
  <2> QED
    BY <1>2, <1>4, <2>1, <2>2 DEF OneMore
<1>7. LTypeOK'
  <2>1. exits' \in [Mods -> 0 .. 2]
    <3>1. exits \in [Mods -> 0 .. 2]
      BY DEF LInv, LTypeOK
    <3>2. OneMore(exits[m]) \in 0 .. 2
      BY DEF OneMore
    <3> HIDE DEF m
    <3> QED
      BY <1>4, <3>1, <3>2
  <2>2. mod' \in [Threads -> Nat \ {0}]
    BY <1>1, <1>4 DEF LInv, LTypeOK
  <2>3. step' \in [Threads -> Step]
    BY <1>4 DEF LInv, LTypeOK, Step
  <2> QED
    BY <1>4, <2>1, <2>2, <2>3 DEF LInv, LTypeOK
<1>8. Distinct' /\ WorkersWork' /\ FreedOnlyLogged' /\ AllThere'
  BY <1>4, <1>5 DEF LInv, Distinct, WorkersWork, FreedOnlyLogged, AllThere, Leaves, Walked
<1>9. PoolLast' /\ Starts'
  BY <1>1, <1>4, <1>5 DEF LInv, PoolLast, Starts, Started, Leaves, Walked
<1>10. Ended(i + 1)'
  <2>1. i' = i
    BY <1>4
  <2>2. ASSUME NEW k \in 1 .. Len(mods) PROVE exits'[mods[k]] = IF k < i + 1 THEN 1 ELSE 0
    <3>1. CASE k = i
      BY <1>1, <1>6, <3>1
    <3>2. CASE k # i
      <4>1. mods[k] # m /\ mods[k] \in Mods
        BY <1>1, <3>2, WalkPlaces DEF LInv, Distinct
      <4>2. exits'[mods[k]] = IF k < i THEN 1 ELSE 0
        BY <1>2, <1>6, <4>1 DEF Ended
      <4> QED
        BY <1>1, <3>2, <4>2
    <3> QED
      BY <3>1, <3>2
  <2>3. ASSUME NEW x \in Mods, x \notin Range(mods) PROVE exits'[x] = 0
    <3>1. m \in Range(mods)
      BY <1>1, WalkPlaces DEF Range, LInv
    <3> QED
      BY <1>2, <1>6, <2>3, <3>1 DEF Ended
  <2> QED
    BY <1>4, <2>1, <2>2, <2>3 DEF Ended
<1>11. Walks'
  <2>1. i' = i /\ FreedBefore(i)'
    BY <1>2, <1>4 DEF FreedBefore
  <2> HIDE DEF i, m
  <2>2. at'[Main] = i /\ mod'[Main] = i /\ i <= Len(mods)'
    BY <1>1, <1>4, <1>5 DEF i
  <2> QED
    BY <1>5, <1>10, <2>1, <2>2 DEF Walks, Walked, i
<1> QED
  BY <1>7, <1>8, <1>9, <1>11 DEF LInv

LEMMA AdvanceKeeps ==
  ASSUME LInv, AdvanceExit(Main)
  PROVE  LInv'
<1>1. /\ step[Main] = "advance" /\ at[Main] \in Nat /\ at[Main] >= 1 /\ at[Main] <= Len(mods)
      /\ mod[Main] = at[Main] /\ Ended(at[Main] + 1) /\ FreedBefore(at[Main])
  BY WalkPlaces DEF LInv, Walks, AdvanceExit
<1>2. mods[at[Main]] \notin reused
  <2>1. mods[at[Main]] \notin freed
    BY <1>1, WalkPlaces DEF FreedBefore, LInv
  <2> QED
    BY <2>1 DEF LInv, LTypeOK
<1>3. /\ at' = [at EXCEPT ![Main] = at[Main] + 1]
      /\ step' = [step EXCEPT ![Main] = "free"]
      /\ UNCHANGED <<mods, inited, exits, freed, reused, mod, pool, aborted, fault>>
  BY <1>1, <1>2 DEF AdvanceExit, GoOn, Goto, Follow, TempNext
<1>4. /\ step'[Main] = "free" /\ at'[Main] = mod'[Main] + 1
      /\ \A w \in Workers : step'[w] = step[w]
  BY <1>1, <1>3, MainIsThread DEF LInv, LTypeOK
<1>5. LTypeOK'
  <2>1. at[Main] + 1 \in Nat \ {0}
    BY <1>1
  <2>2. at' \in [Threads -> Nat \ {0}]
    BY <1>3, <2>1 DEF LInv, LTypeOK
  <2>3. step' \in [Threads -> Step]
    BY <1>3 DEF LInv, LTypeOK, Step
  <2> QED
    BY <1>3, <2>2, <2>3 DEF LInv, LTypeOK
<1>6. Distinct' /\ WorkersWork' /\ FreedOnlyLogged' /\ AllThere'
  BY <1>3, <1>4 DEF LInv, Distinct, WorkersWork, FreedOnlyLogged, AllThere, Leaves, Walked
<1>7. PoolLast' /\ Starts'
  BY <1>1, <1>3, <1>4 DEF LInv, PoolLast, Starts, Started, Leaves, Walked
<1>8. Ended(at[Main])' /\ FreedBefore(mod[Main])'
  BY <1>1, <1>3, <1>4 DEF Ended, FreedBefore
<1>9. Walks'
  BY <1>1, <1>3, <1>4, <1>8 DEF Walks, Walked
<1> QED
  BY <1>5, <1>6, <1>7, <1>9 DEF LInv

LEMMA FreeKeeps ==
  ASSUME LInv, FreeMod(Main)
  PROVE  LInv'
<1>1. /\ step[Main] = "free" /\ mod[Main] \in Nat /\ mod[Main] >= 1 /\ mod[Main] <= Len(mods)
      /\ at[Main] = mod[Main] + 1 /\ Ended(at[Main]) /\ FreedBefore(mod[Main])
      /\ Len(mods) \in Nat
  BY WalkPlaces DEF LInv, Walks, FreeMod
<1>2. pool = "up"
  BY <1>1 DEF LInv, PoolLast
<1>3. /\ freed' = freed \cup {mods[mod[Main]]}
      /\ step' = [step EXCEPT ![Main] = IF at[Main] > Len(mods) THEN "free all" ELSE "call"]
      /\ UNCHANGED <<mods, inited, exits, reused, at, mod, pool, aborted, fault>>
  <2>1. Follow[step[Main]] = "call"
    BY <1>1 DEF Follow
  <2>2. /\ freed' = freed \cup {mods[mod[Main]]} /\ GoOn(Main, at[Main])
        /\ UNCHANGED <<mods, inited, exits, reused, at, mod, pool, aborted, fault>>
    BY <1>2 DEF FreeMod
  <2> QED
    BY <2>1, <2>2 DEF GoOn, Goto, PastEnd
<1>4. /\ step'[Main] = IF at[Main] > Len(mods) THEN "free all" ELSE "call"
      /\ \A w \in Workers : step'[w] = step[w]
  BY <1>3, MainIsThread DEF LInv, LTypeOK
<1>5. LTypeOK'
  <2>1. mods[mod[Main]] \in Mods
    BY <1>1, WalkPlaces DEF LInv
  <2>2. step' \in [Threads -> Step]
    BY <1>3 DEF LInv, LTypeOK, Step
  <2> QED
    BY <1>3, <2>1, <2>2 DEF LInv, LTypeOK
<1>6. Distinct' /\ WorkersWork' /\ FreedOnlyLogged' /\ AllThere'
  BY <1>3, <1>4 DEF LInv, Distinct, WorkersWork, FreedOnlyLogged, AllThere, Leaves, Walked
<1>7. PoolLast' /\ Starts'
  <2>1. step'[Main] \in {"free all", "call"} /\ pool' = pool /\ aborted' = aborted
    BY <1>3, <1>4
  <2>2. step[Main] \in Leaves
    BY <1>1 DEF Leaves
  <2>3. PoolLast'
    <3>1. fault # "freed header" /\ fault' = fault /\ pool' = "up"
      BY <1>1, <1>2, <1>3 DEF LInv, PoolLast, Walked
    <3>2. aborted \/ \A w \in Workers : step[w] = "ended"
      BY <2>2 DEF LInv, PoolLast
    <3> QED
      BY <1>4, <2>1, <3>1, <3>2 DEF PoolLast
  <2>4. aborted \/ Started(Len(mods) + 1)
    BY <2>2 DEF LInv, Starts
  <2>5. Started(Len(mods) + 1) => Started(Len(mods) + 1)'
    BY <1>3 DEF Started
  <2>6. Starts'
    BY <2>1, <2>4, <2>5 DEF Starts
  <2> QED
    BY <2>3, <2>6
<1>8. FreedBefore(at[Main])'
  <2>1. ASSUME NEW k \in 1 .. Len(mods), mods[k] \in freed' PROVE k < at[Main]
    <3>1. mods[k] \in freed => k < mod[Main]
      BY <1>1 DEF FreedBefore
    <3>2. mods[k] = mods[mod[Main]] => k = mod[Main]
      BY <1>1 DEF LInv, Distinct
    <3>3. freed' = freed \cup {mods[mod[Main]]}
      BY <1>3
    <3>4. k <= mod[Main]
      <4>1. CASE mods[k] \in freed
        BY <1>1, <3>1, <4>1
      <4>2. CASE mods[k] = mods[mod[Main]]
        BY <1>1, <3>2, <4>2
      <4> QED
        BY <2>1, <3>3, <4>1, <4>2
    <3> QED
      BY <1>1, <3>4
  <2>2. mods' = mods /\ at' = at
    BY <1>3
  <2> QED
    BY <2>1, <2>2 DEF FreedBefore
<1>9. Ended(at[Main])' /\ (at[Main] > Len(mods) => Ended(Len(mods) + 1)')
  <2>1. mods' = mods /\ at' = at /\ exits' = exits
    BY <1>3
  <2>2. Ended(at[Main])'
    BY <1>1, <2>1 DEF Ended
  <2>3. at[Main] > Len(mods) => at[Main] = Len(mods) + 1
    BY <1>1
  <2> QED
    BY <2>1, <2>2, <2>3
<1>10. Walks'
  <2>1. mods' = mods /\ at' = at
    BY <1>3
  <2>2. CASE at[Main] > Len(mods)
    <3>1. step'[Main] = "free all"
      BY <1>4, <2>2
    <3>2. Ended(Len(mods) + 1)'
      BY <1>9, <2>2
    <3> QED
      BY <3>1, <3>2 DEF Walks
  <2>3. CASE ~ (at[Main] > Len(mods))
    <3>1. step'[Main] = "call"
      BY <1>4, <2>3
    <3>2. at'[Main] <= Len(mods')
      BY <1>1, <2>1, <2>3
    <3> QED
      BY <1>8, <1>9, <3>1, <3>2 DEF Walks, Walked
  <2> QED
    BY <2>2, <2>3
<1> QED
  BY <1>5, <1>6, <1>7, <1>10 DEF LInv

LEMMA LastStepsKeep ==
  ASSUME LInv, rune_free_all(Main) \/ AllFreed(Main) \/ EndProcess(Main)
  PROVE  LInv'
<1>1. /\ step[Main] \in {"free all", "freeing", "leave"}
      /\ step' = [step EXCEPT ![Main] = step'[Main]]
      /\ step'[Main] \in {"freeing", "leave", "gone"}
      /\ pool' \in {pool, "going", "gone"}
      /\ fault' \in {fault, "freed header"}
      /\ UNCHANGED <<mods, inited, exits, freed, reused, at, mod, aborted>>
  BY MainIsThread DEF LInv, LTypeOK, rune_free_all, AllFreed, EndProcess, Goto, Crash
<1>2. \A w \in Workers : step'[w] = step[w]
  BY <1>1, MainIsThread DEF LInv, LTypeOK
<1>3. LTypeOK'
  BY <1>1 DEF LInv, LTypeOK, Step
<1>4. Distinct' /\ WorkersWork' /\ FreedOnlyLogged' /\ AllThere'
  BY <1>1, <1>2 DEF LInv, Distinct, WorkersWork, FreedOnlyLogged, AllThere, Leaves, Walked
<1>5. PoolLast' /\ Starts'
  BY <1>1, <1>2 DEF LInv, PoolLast, Starts, Started, Leaves, Walked
<1>6. Walks'
  BY <1>1 DEF LInv, Walks, Ended, Walked
<1> QED
  BY <1>3, <1>4, <1>5, <1>6 DEF LInv

LEMMA EndingKeeps ==
  ASSUME LInv, NEW t \in Threads, Ending(t)
  PROVE  LInv'
<1>1. step[t] \in {"call", "advance", "free", "free all", "freeing", "leave"}
  BY DEF Ending, CallExit, AdvanceExit, FreeMod, rune_free_all, AllFreed, EndProcess
<1>2. t = Main
  BY <1>1 DEF LInv, WorkersWork, Threads
<1> QED
  BY <1>2, CallExitKeeps, AdvanceKeeps, FreeKeeps, LastStepsKeep DEF Ending

LEMMA LifeKeeps ==
  ASSUME Allow = {}, LInv, LNext \/ rune_exit \/ UNCHANGED lvars
  PROVE  LInv'
<1>1. CASE Starting
  BY <1>1, RegisterKeeps, InitStepKeeps DEF Starting
<1>2. CASE Others
  BY <1>2, OthersKeep
<1>3. CASE \E t \in Threads : rune_abort(t) \/ Ending(t)
  BY <1>3, AbortKeeps, EndingKeeps
<1>4. CASE rune_exit
  BY <1>4, ExitKeeps
<1>5. CASE UNCHANGED lvars
  <2>1. UNCHANGED <<mods, inited, exits, freed, reused, at, mod, step, pool, aborted, fault>>
    BY <1>5 DEF lvars
  <2>2. LTypeOK'
    BY <2>1 DEF LInv, LTypeOK
  <2>3. Distinct' /\ WorkersWork' /\ AllThere' /\ PoolLast' /\ FreedOnlyLogged'
    BY <2>1 DEF LInv, Distinct, WorkersWork, AllThere, PoolLast, FreedOnlyLogged
  <2>4. Starts' /\ Walks'
    BY <2>1 DEF LInv, Starts, Started, Walks, Ended, FreedBefore
  <2> QED
    BY <2>2, <2>3, <2>4 DEF LInv
<1> QED
  BY <1>1, <1>2, <1>3, <1>4, <1>5 DEF LNext

-----------------------------------------------------------------------------
\* Whatever main or the others do is a step of the engine's life or leaves it alone.
LEMMA StepsOfLife ==
  ASSUME [Next]_vars
  PROVE  LNext \/ rune_exit \/ UNCHANGED lvars
<1>1. CASE Setup
  BY <1>1 DEF Setup, rune_init_window, InitInput, SelectRenderer, Render
<1>2. CASE Loop
  BY <1>2 DEF Loop, Register, rune_input_tick, KeyDone, SetMode
<1>3. CASE Close \/ rune_destroy_window
  BY <1>3 DEF Close, rune_destroy_window
<1>4. CASE Exit \/ Life
  BY <1>4 DEF Exit, Life
<1>5. CASE UNCHANGED vars
  BY <1>5 DEF vars
<1> QED
  BY <1>1, <1>2, <1>3, <1>4, <1>5 DEF Next

\* The application is an engine's life: Lifecycle, with whatever callbacks,
\* renderer and window main has beside it (init.c:31-48, abort.c:72-77).
THEOREM ApplicationLives == Spec => LSpec
<1>1. Init => LInit
  BY DEF Init
<1>2. [Next]_vars => [LNext \/ rune_exit]_lvars
  BY StepsOfLife
<1> QED
  BY <1>1, <1>2, PTL DEF Spec, LSpec

\* The invariant of the engine's life, of which every step keeps every part.
LEMMA LifeInvariant == Allow = {} /\ LSpec => []LInv
<1>1. SUFFICES ASSUME Allow = {} PROVE LSpec => []LInv
  OBVIOUS
<1>2. LInit => LInv
  BY InitHolds
<1>3. LInv /\ [LNext \/ rune_exit]_lvars => LInv'
  BY <1>1, LifeKeeps
<1> QED
  BY <1>2, <1>3, PTL DEF LSpec

\* A mod's exit function was called at most once, and of started mods unless
\* the engine was aborted.
LEMMA EndedOnce ==
  ASSUME LInv
  PROVE  /\ ExitsOnce
         /\ ~ aborted => \A m \in Mods : exits[m] # 0 => m \in inited
<1>1. CASE step[Main] \notin Leaves
  BY <1>1 DEF LInv, AllThere, ExitsOnce
<1>2. CASE step[Main] \in Leaves
  <2>1. PICK i \in Nat : Ended(i)
    <3>1. /\ at[Main] \in Nat /\ at[Main] + 1 \in Nat /\ Len(mods) + 1 \in Nat
      BY WalkPlaces DEF LInv
    <3> QED
      BY <1>2, <3>1 DEF LInv, Walks, Leaves
  <2>2. \A m \in Mods : m \in Range(mods) => \E k \in 1 .. Len(mods) : mods[k] = m
    BY WalkPlaces DEF LInv, Range
  <2>3. \A m \in Mods : m \in Range(mods) => exits[m] \in {0, 1}
    BY <2>1, <2>2 DEF Ended
  <2>4. \A m \in Mods : m \notin Range(mods) => exits[m] = 0
    BY <2>1 DEF Ended
  <2>5. ExitsOnce
    BY <2>3, <2>4 DEF ExitsOnce
  <2>6. ASSUME ~ aborted, NEW m \in Mods, exits[m] # 0 PROVE m \in inited
    <3>1. PICK k \in 1 .. Len(mods) : mods[k] = m
      BY <2>2, <2>4, <2>6
    <3>2. Started(Len(mods) + 1)
      BY <1>2, <2>6 DEF LInv, Starts
    <3>3. Len(mods) \in Nat
      BY WalkPlaces DEF LInv
    <3> QED
      BY <3>1, <3>2, <3>3 DEF Started
  <2> QED
    BY <2>5, <2>6
<1> QED
  BY <1>1, <1>2

\* A walk that is over has ended all there are.
LEMMA WalkOver ==
  ASSUME LTypeOK, Ended(Len(mods) + 1)
  PROVE  \A m \in Range(mods) : exits[m] = 1
<1>1. ASSUME NEW k \in 1 .. Len(mods) PROVE exits[mods[k]] = 1
  <2>1. k < Len(mods) + 1
    BY WalkPlaces
  <2> QED
    BY <2>1 DEF Ended
<1> QED
  BY <1>1, WalkPlaces DEF Range

\* When the process has ended, also in the log of rune_free_all, it was main that
\* ended it, and all of its walk is done.
LEMMA AllEnded ==
  ASSUME LInv, fault \in {"none", "freed header"}, Over
  PROVE  \A m \in Range(mods) : exits[m] = 1
<1>1. step[Main] \in Walked
  <2>1. CASE fault = "none"
    <3>1. PICK t \in Threads : step[t] = "gone"
      BY <2>1 DEF Over
    <3>2. t = Main
      BY <3>1 DEF LInv, WorkersWork, Threads
    <3> QED
      BY <3>1, <3>2 DEF Walked
  <2>2. CASE fault = "freed header"
    BY <2>2 DEF LInv, PoolLast
  <2> QED
    BY <2>1, <2>2
<1>2. Ended(Len(mods) + 1) /\ LTypeOK
  BY <1>1 DEF LInv, Walks
<1> QED
  BY <1>2, WalkOver

\* However many mods there are, whichever of them register others, however many
\* workers run, and wherever main meets a fatal error: no exit function is
\* called twice, none of a registered mod is missed, and no mod is touched whose
\* struct was given back: of what was, only headers are read, for the log, unless
\* there was an abort (mod.c:54-78, init.c:31-48, abort.c:72-77, alloc.c:93-94).
THEOREM EngineEnds ==
  ASSUME Allow = {}
  PROVE  Spec => [](ExitsOnce /\ NoneMissed /\ FreedOnlyLogged)
<1>1. LInv => ExitsOnce /\ NoneMissed /\ FreedOnlyLogged
  BY EndedOnce, AllEnded DEF LInv, NoneMissed
<1> QED
  BY <1>1, ApplicationLives, LifeInvariant, PTL

\* No exit function is called twice: the walk of rune_close_mods passes each mod
\* once, and nobody walks again (mod.c:64-78, init.c:43-48, abort.c:72-77).
THEOREM ModsExitOnce ==
  ASSUME Allow = {}
  PROVE  Spec => []ExitsOnce
BY EngineEnds, PTL

\* The log of rune_free_all aside, which reads every header it has freed, what was
\* given back is read or freed again only after an abort, by a worker it did not
\* wait for (mod.c:70-75, abort.c:72-77, alloc.c:93-94, 148-178, thread.c:86-92).
THEOREM OnlyHeadersAreRead ==
  ASSUME Allow = {}
  PROVE  Spec => []FreedOnlyLogged
BY EngineEnds, PTL

-----------------------------------------------------------------------------
(* The renderer, in the application.                                         *)

\* The application's steps are the renderer's or leave it alone.
THEOREM ApplicationRenders == Spec => RSpec
<1>1. Init => RInit
  BY DEF Init
<1>2. [Next]_vars => [RNext]_rvars
  <2> SUFFICES ASSUME [Next]_vars PROVE RNext \/ UNCHANGED rvars
    OBVIOUS
  <2>1. CASE SelectRenderer \/ Render \/ Close
    BY <2>1 DEF SelectRenderer, Render, Close, RNext
  <2>2. CASE rune_init_window \/ InitInput \/ rune_destroy_window \/ Exit \/ Life
    BY <2>2 DEF rune_init_window, InitInput, rune_destroy_window, Exit, Life
  <2>3. CASE Loop
    BY <2>3 DEF Loop, Register, rune_input_tick, KeyDone, SetMode
  <2>4. CASE UNCHANGED vars
    BY <2>4 DEF vars
  <2> QED
    BY <2>1, <2>2, <2>3, <2>4 DEF Next, Setup
<1> QED
  BY <1>1, <1>2, PTL DEF Spec, RSpec

\* Whatever else main does, and wherever a fatal error ends it: the renderer's
\* objects outlive what was made from them, nothing is destroyed that was not
\* made but semaphores whose creation failed, drawing starts from empty arrays
\* and a closed renderer has left nothing (renderer.c:97-185).
THEOREM RendererIsSound ==
  ASSUME ~ DebugChanges, MaxSpare <= 2
  PROVE  Spec => [](ParentsOutlive /\ OnlySemaphoresGoWrong /\ StartsEmpty /\ NothingLeft)
BY ApplicationRenders, ParentsGoLast, WrongAreSemaphores, ArraysStartEmpty, ClosingLeavesNothing, PTL

-----------------------------------------------------------------------------
(* Types.                                                                    *)

\* The table and the keyboard's state, through a step.
LEMMA InputKeepsTypes ==
  ASSUME ITypeOK, [Next]_vars
  PROVE  ITypeOK'
<1>1. CASE UNCHANGED ivars
  BY <1>1 DEF ivars, ITypeOK
<1>2. CASE InitInput
  BY <1>2 DEF InitInput, rune_input_init, ITypeOK, Modes
<1>3. CASE Register
  BY <1>3 DEF Register, register_input_callback, ITypeOK
<1>4. CASE rune_input_tick
  BY <1>4 DEF rune_input_tick, _key_callback, Entry, ITypeOK
<1>5. CASE KeyDone
  BY <1>5 DEF KeyDone, CallbackReturns, ITypeOK
<1>6. CASE SetMode
  BY <1>6 DEF SetMode, set_keyboard_mode, ITypeOK
<1>7. CASE rune_init_window \/ SelectRenderer \/ Render \/ Close \/ rune_destroy_window \/ Exit
  BY <1>1, <1>7 DEF rune_init_window, SelectRenderer, Render, Close, rune_destroy_window, Exit,
                    avars, ivars
<1>8. CASE Life \/ UNCHANGED vars
  BY <1>1, <1>8 DEF Life, vars, avars
<1> QED
  BY <1>2, <1>3, <1>4, <1>5, <1>6, <1>7, <1>8 DEF Next, Setup, Loop

\* When nobody takes a liberty, every part of the application stays within its
\* types, whatever keys are pressed and whatever is registered for them.
THEOREM ApplicationTypes ==
  ASSUME Allow = {}
  PROVE  Spec => []TypeOK
<1>1. Init => ITypeOK
  BY DEF Init, IInit, ITypeOK, Modes
<1>2. ITypeOK /\ [Next]_vars => ITypeOK'
  BY InputKeepsTypes
<1>3. Init => place \in Places
  BY DEF Init, Places
<1>4. place \in Places /\ [Next]_vars => (place \in Places)'
  BY DEF Next, Setup, Loop, Life, rune_init_window, InitInput, SelectRenderer, Render, Close,
         rune_destroy_window, Exit, Register, rune_input_tick, KeyDone, SetMode, avars, vars, Places
<1>5. LInv => LTypeOK
  BY DEF LInv
<1>6. TypeOK <=> LTypeOK /\ ITypeOK /\ RTypeOK /\ place \in Places
  BY DEF TypeOK
<1> QED
  BY <1>1, <1>2, <1>3, <1>4, <1>5, <1>6, ApplicationLives, LifeInvariant, ApplicationRenders,
     RendererTypes, PTL DEF Spec

=============================================================================
