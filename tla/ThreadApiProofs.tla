--------------------------- MODULE ThreadApiProofs ---------------------------
(***************************************************************************)
(* What holds of ThreadApi for any number of threads, mutexes and blocks,  *)
(* under the three rules of use ThreadApi states: the first thread and the *)
(* first mutex are not ended (FirstStays), threads are started one after   *)
(* the other (OneStart), and calls and ends do not overlap (each is a step *)
(* of ThreadApi).  Nothing here is about overlapping calls: the code fails *)
(* these theorems there, as ThreadRace shows.                              *)
(*                                                                         *)
(* The lists are walked by a recursive function.  The proof has each list  *)
(* as a path, a function from positions to structs (Path), shows that the  *)
(* walk takes it, and how list_add and list_del change the set of structs  *)
(* on it; all else is about two disjoint sets of structs, and about whose  *)
(* they are (Mine).                                                        *)
(***************************************************************************)
EXTENDS ThreadApi, NumberFacts

\* The list from head is the k structs of q, linked both ways by nx and pv.
Path(nx, pv, head, k, q) ==
  /\ \A i, j \in 1 .. k : q[i] = q[j] => i = j
  /\ k = 0 => head = NULL
  /\ k # 0 => head = q[1] /\ nx[q[k]] = NULL
  /\ \A i \in 1 .. k : i < k => nx[q[i]] = q[i + 1]
  /\ \A i \in 1 .. k : 1 < i => pv[q[i]] = q[i - 1]

IsList(nx, pv, head, L) ==
  \E k \in 0 .. MaxBlock : \E q \in [1 .. k -> Block] :
    Path(nx, pv, head, k, q) /\ L = {q[i] : i \in 1 .. k}

\* The struct a thread was created for.
Mine(p) == IF os[p] = "created" THEN args ELSE self[p]

Present == {p \in Pthread : os[p] # "none"}

\* T and M are the structs on the two lists.  A free block has no link.
Shape(T, M) ==
  /\ IsList(next, prev, threads, T)
  /\ IsList(next, prev, mutexes, M)
  /\ T \cap M = {} /\ T \cup M = used
  /\ \A n \in Block \ used : next[n] = NULL

\* No ID is given twice.
IdsApart(T, M) ==
  /\ \A n \in T : id[n] \in 1 .. next_tid - 1
  /\ \A n \in M : id[n] \in live
  /\ \A i \in live : i < next_mid /\ \E n \in M : id[n] = i
  /\ \A n, m \in T : id[n] = id[m] => n = m
  /\ \A n, m \in M : id[n] = id[m] => n = m

\* Each struct of T is that of a thread that has not ended, of one that could
\* not be created, or of the one being created.
Owners(T) ==
  /\ \A p \in Alive : Mine(p) \in T /\ id[Mine(p)] = tid[p] /\ handle[Mine(p)] = p
  /\ \A n \in T : \/ \E p \in Alive : Mine(p) = n
                  \/ told[id[n]] = "failed"
                  \/ pc = "create" /\ cur = n
  /\ \A i \in Failed : \E n \in T : id[n] = i

\* No two pthreads were created for one ID.
TidsApart ==
  /\ \A p \in Present : tid[p] \in 1 .. next_tid - 1
  /\ \A p \in Pthread \ Present : tid[p] = 0
  /\ \A p, r \in Present : tid[p] = tid[r] => p = r
  /\ \A p \in Present : told[tid[p]] # "failed"
  /\ \A p \in Alive : told[tid[p]] # "joined"

\* One thread at a time is starting.
OneStarts ==
  /\ \A p, r \in Pthread : os[p] = "created" /\ os[r] = "created" => p = r
  /\ pc = "create" => \A p \in Pthread : os[p] # "created"

\* Where the client is.
ClientAt(T) ==
  /\ \A i \in ID : i >= next_tid => told[i] = "nothing"
  /\ pc # "idle" => cur \in Block /\ id[cur] \in 1 .. next_tid - 1
  /\ pc = "create" => /\ cur \in T /\ args = cur
                      /\ \A p \in Present : tid[p] # id[cur]
  /\ pc \in {"create", "return"} => id[cur] = next_tid - 1 /\ told[id[cur]] = "nothing"
  /\ pc \in {"return", "join"} => handle[cur] \in Pthread
  /\ pc = "join" => /\ told[id[cur]] = "running"
                    /\ handle[cur] \in Present => tid[handle[cur]] = id[cur]

Keeps(T, M) ==
  Shape(T, M) /\ IdsApart(T, M) /\ Owners(T) /\ TidsApart /\ OneStarts /\ ClientAt(T)

IInv ==
  /\ TypeOK
  /\ fault = "none"
  /\ \E T, M \in SUBSET Block : Keeps(T, M)

-----------------------------------------------------------------------------
(* Lists.                                                                    *)

\* The walk from head takes the path, and then stays at NULL.
LEMMA WalkTakesPath ==
  ASSUME ThreadAssumption, NEW head, NEW k \in 0 .. MaxBlock, NEW q \in [1 .. k -> Block],
         Path(next, prev, head, k, q)
  PROVE  Walk(head) = [j \in 0 .. MaxBlock |-> IF j < k THEN q[j + 1] ELSE NULL]
<1> DEFINE w == [j \in 0 .. MaxBlock |-> IF j < k THEN q[j + 1] ELSE NULL]
           Step(at, j) == IF j = 0 THEN head ELSE IF at[j - 1] = NULL THEN NULL ELSE next[at[j - 1]]
           Takes(at) == at = [j \in 0 .. MaxBlock |-> Step(at, j)]
<1>1. k \in Nat /\ MaxBlock \in Nat /\ NULL \notin Block
  BY DEF ThreadAssumption, NULL, Block
<1>2. ASSUME NEW j \in 0 .. MaxBlock PROVE w[j] = Step(w, j)
  <2>1. CASE j = 0
    BY <1>1, <2>1 DEF Path
  <2>2. CASE j # 0
    <3>1. j - 1 \in 0 .. MaxBlock /\ j \in 1 .. MaxBlock
      BY <2>2
    <3>2. CASE j < k
      <4>1. w[j - 1] = q[j] /\ j \in 1 .. k /\ q[j] # NULL
        BY <1>1, <3>1, <3>2
      <4> QED BY <1>1, <2>2, <3>2, <4>1 DEF Path
    <3>3. CASE j = k
      <4>1. w[j - 1] = q[k] /\ k \in 1 .. k /\ q[k] # NULL
        BY <1>1, <3>1, <3>3
      <4> QED BY <1>1, <2>2, <3>3, <4>1 DEF Path
    <3>4. CASE j > k
      BY <1>1, <2>2, <3>1, <3>4
    <3> QED BY <1>1, <3>2, <3>3, <3>4
  <2> QED BY <2>1, <2>2
<1>3. Takes(w)
  BY <1>2
<1>4. Takes(Walk(head))
  <2>1. Walk(head) = CHOOSE at : Takes(at)
    BY DEF Walk
  <2> HIDE DEF Takes, w
  <2> QED BY <1>3, <2>1
<1>5. \A j \in 0 .. MaxBlock : Walk(head)[j] = Step(Walk(head), j)
  BY <1>4
<1>6. \A j \in 0 .. MaxBlock : Walk(head)[j] = w[j]
  <2> DEFINE S == {j \in 0 .. MaxBlock : Walk(head)[j] = w[j]}
  <2>1. 0 \in S
    <3>1. 0 \in 0 .. MaxBlock
      BY <1>1
    <3>2. w[0] = head /\ Walk(head)[0] = head
      BY <1>2, <1>5, <3>1
    <3> HIDE DEF w
    <3> QED BY <3>1, <3>2
  <2>2. ASSUME NEW m \in 0 .. MaxBlock, m \in S, m < MaxBlock PROVE m + 1 \in S
    <3>1. m + 1 \in 0 .. MaxBlock /\ m + 1 # 0 /\ (m + 1) - 1 = m /\ Walk(head)[m] = w[m]
      BY <1>1, <2>2
    <3> HIDE DEF w
    <3> QED BY <1>2, <1>5, <3>1
  <2>3. 0 .. MaxBlock \subseteq S
    <3> HIDE DEF S
    <3> QED BY <1>1, <2>1, <2>2, UpTo
  <2> QED BY <2>3
<1> QED BY <1>4, <1>6

\* So the walk comes to every struct on the list, and to its end.
LEMMA ListIsWalked ==
  ASSUME ThreadAssumption, NEW head, NEW L, IsList(next, prev, head, L)
  PROVE  OnList(head) = L /\ Ends(head)
<1>0. PICK k \in 0 .. MaxBlock : \E q \in [1 .. k -> Block] :
        Path(next, prev, head, k, q) /\ L = {q[i] : i \in 1 .. k}
  BY DEF IsList
<1>1. PICK q \in [1 .. k -> Block] :
        Path(next, prev, head, k, q) /\ L = {q[i] : i \in 1 .. k}
  BY <1>0
<1>2. Walk(head) = [j \in 0 .. MaxBlock |-> IF j < k THEN q[j + 1] ELSE NULL]
  BY <1>1, WalkTakesPath
<1>3. k \in Nat /\ MaxBlock \in Nat /\ NULL \notin Block /\ k <= MaxBlock
  BY DEF ThreadAssumption, NULL, Block
<1>4. Ends(head)
  BY <1>2, <1>3 DEF Ends
<1>5. DOMAIN Walk(head) = 0 .. MaxBlock
      /\ \A j \in 0 .. MaxBlock : /\ j < k => Walk(head)[j] = q[j + 1]
                                  /\ j >= k => Walk(head)[j] = NULL
  BY <1>2, <1>3
<1>6. ASSUME NEW i \in 1 .. k PROVE q[i] \in OnList(head)
  <2>1. i - 1 \in 0 .. MaxBlock /\ i - 1 < k /\ (i - 1) + 1 = i
    BY <1>3
  <2> QED BY <1>3, <1>5, <2>1 DEF OnList, Range
<1>7. ASSUME NEW n \in OnList(head) PROVE n \in L
  <2>1. PICK j \in 0 .. MaxBlock : Walk(head)[j] = n /\ n # NULL
    BY <1>5 DEF OnList, Range
  <2>2. j < k /\ j + 1 \in 1 .. k
    BY <1>3, <1>5, <2>1
  <2> QED BY <1>1, <1>5, <2>1, <2>2
<1> QED BY <1>1, <1>4, <1>6, <1>7

\* A search finds a struct of the list that is one of S, if there is one.
LEMMA FindFinds ==
  ASSUME ThreadAssumption, NEW head, NEW L, IsList(next, prev, head, L), NEW S \in SUBSET Block
  PROVE  \/ Find(head, S) \in L \cap S
         \/ Find(head, S) = NULL /\ L \cap S = {}
<1> DEFINE hits == {j \in 0 .. MaxBlock : Walk(head)[j] \in S}
<1>1. OnList(head) = L
  BY ListIsWalked
<1>2. NULL \notin Block /\ MaxBlock \in Nat
  BY DEF ThreadAssumption, NULL, Block
<1>3. DOMAIN Walk(head) = 0 .. MaxBlock
  <2>0. PICK k \in 0 .. MaxBlock : \E q \in [1 .. k -> Block] : Path(next, prev, head, k, q)
    BY DEF IsList
  <2>1. PICK q \in [1 .. k -> Block] : Path(next, prev, head, k, q)
    BY <2>0
  <2> QED BY <2>1, WalkTakesPath
<1>4. CASE hits = {}
  <2>1. L \cap S = {}
    BY <1>1, <1>3, <1>4 DEF OnList, Range
  <2>2. Find(head, S) = NULL
    BY <1>4 DEF Find
  <2> QED BY <2>1, <2>2
<1>5. CASE hits # {}
  <2>1. hits \in SUBSET (0 .. MaxBlock)
    OBVIOUS
  <2>2. Min(hits) \in hits
    <3> HIDE DEF hits
    <3> QED BY <1>2, <1>5, <2>1, MinIsLeast
  <2>3. Find(head, S) = Walk(head)[Min(hits)]
    BY <1>5 DEF Find
  <2>4. Walk(head)[Min(hits)] \in L \cap S
    BY <1>1, <1>2, <1>3, <2>2 DEF OnList, Range
  <2> QED BY <2>3, <2>4
<1> QED BY <1>4, <1>5

\* A list does not change with the links of structs that are not on it.
LEMMA ListStays ==
  ASSUME NEW nx, NEW pv, NEW ny, NEW py, NEW head, NEW L, IsList(nx, pv, head, L),
         \A n \in L : ny[n] = nx[n] /\ py[n] = pv[n]
  PROVE  IsList(ny, py, head, L)
<1>0. PICK k \in 0 .. MaxBlock : \E q \in [1 .. k -> Block] :
        Path(nx, pv, head, k, q) /\ L = {q[i] : i \in 1 .. k}
  BY DEF IsList
<1>1. PICK q \in [1 .. k -> Block] :
        Path(nx, pv, head, k, q) /\ L = {q[i] : i \in 1 .. k}
  BY <1>0
<1>2. \A i \in 1 .. k : ny[q[i]] = nx[q[i]] /\ py[q[i]] = pv[q[i]]
  BY <1>1
<1>3. k # 0 => k \in 1 .. k
  OBVIOUS
<1>4. Path(ny, py, head, k, q)
  BY <1>1, <1>2, <1>3 DEF Path
<1> QED BY <1>1, <1>4 DEF IsList

LEMMA EmptyList ==
  ASSUME ThreadAssumption, NEW nx, NEW pv, NEW L
  PROVE  /\ IsList(nx, pv, NULL, {})
         /\ IsList(nx, pv, NULL, L) => L = {}
<1>1. ~ \E i \in 1 .. 0 : TRUE
  OBVIOUS
<1>2. IsList(nx, pv, NULL, {})
  <2>1. 0 \in 0 .. MaxBlock /\ [i \in 1 .. 0 |-> 1] \in [1 .. 0 -> Block]
    BY <1>1 DEF ThreadAssumption
  <2>2. PICK q \in [1 .. 0 -> Block] : TRUE
    BY <2>1
  <2>3. Path(nx, pv, NULL, 0, q) /\ {} = {q[i] : i \in 1 .. 0}
    BY <1>1 DEF Path
  <2> QED BY <2>1, <2>3 DEF IsList
<1>3. ASSUME IsList(nx, pv, NULL, L) PROVE L = {}
  <2>0. PICK k \in 0 .. MaxBlock : \E q \in [1 .. k -> Block] :
          Path(nx, pv, NULL, k, q) /\ L = {q[i] : i \in 1 .. k}
    BY <1>3 DEF IsList
  <2>1. PICK q \in [1 .. k -> Block] :
          Path(nx, pv, NULL, k, q) /\ L = {q[i] : i \in 1 .. k}
    BY <2>0
  <2>2. k = 0
    <3> SUFFICES ASSUME k # 0 PROVE FALSE
      OBVIOUS
    <3>1. 1 \in 1 .. k /\ NULL \notin Block
      BY DEF NULL, Block
    <3> QED BY <2>1, <3>1 DEF Path
  <2> QED BY <1>1, <2>1, <2>2
<1> QED BY <1>2, <1>3

\* The head is on the list, if there is one.
LEMMA HeadIsListed ==
  ASSUME NEW nx, NEW pv, NEW head, NEW L, IsList(nx, pv, head, L), head # NULL
  PROVE  head \in L
<1>0. PICK k \in 0 .. MaxBlock : \E q \in [1 .. k -> Block] :
        Path(nx, pv, head, k, q) /\ L = {q[i] : i \in 1 .. k}
  BY DEF IsList
<1>1. PICK q \in [1 .. k -> Block] :
        Path(nx, pv, head, k, q) /\ L = {q[i] : i \in 1 .. k}
  BY <1>0
<1>2. k # 0 /\ 1 \in 1 .. k
  BY <1>1 DEF Path
<1> QED BY <1>1, <1>2 DEF Path

\* A path has no more structs than there are blocks.
LEMMA PathIsShort ==
  ASSUME ThreadAssumption, NEW k \in Nat, NEW q \in [1 .. k -> Block],
         \A i, j \in 1 .. k : q[i] = q[j] => i = j
  PROVE  k <= MaxBlock
<1>1. q \in Injection(1 .. k, Block)
  BY DEF Injection, IsInjective
<1>2. MaxBlock \in Nat /\ IsFiniteSet(Block) /\ Cardinality(Block) = MaxBlock
  BY FS_Interval DEF ThreadAssumption, Block
<1>3. Cardinality(1 .. k) = k
  BY FS_Interval
<1>4. Cardinality(1 .. k) <= Cardinality(Block)
  BY <1>1, <1>2, FS_Injection
<1> QED BY <1>2, <1>3, <1>4

\* A struct linked behind the last one is the last one.
LEMMA ListGrows ==
  ASSUME ThreadAssumption, NEW nx, NEW pv, NEW ny, NEW py, NEW head, NEW L,
         IsList(nx, pv, head, L), head # NULL,
         NEW new \in Block \ L, NEW tail \in L, nx[tail] = NULL,
         \A n \in L : /\ n # tail => ny[n] = nx[n]
                      /\ py[n] = pv[n],
         ny[tail] = new, ny[new] = NULL, py[new] = tail
  PROVE  IsList(ny, py, head, L \cup {new})
<1>0. PICK k \in 0 .. MaxBlock : \E q \in [1 .. k -> Block] :
        Path(nx, pv, head, k, q) /\ L = {q[i] : i \in 1 .. k}
  BY DEF IsList
<1>1. PICK q \in [1 .. k -> Block] :
        Path(nx, pv, head, k, q) /\ L = {q[i] : i \in 1 .. k}
  BY <1>0
<1>2. k \in Nat /\ k # 0 /\ NULL \notin Block
  BY <1>1 DEF Path, NULL, Block
<1>3. tail = q[k]
  <2>1. PICK i \in 1 .. k : tail = q[i]
    BY <1>1
  <2>2. i < k => nx[q[i]] = q[i + 1] /\ i + 1 \in 1 .. k
    BY <1>1, <1>2 DEF Path
  <2>3. ~ i < k
    BY <1>2, <2>1, <2>2
  <2> QED BY <1>2, <2>1, <2>3
<1>4. PICK r \in [1 .. k + 1 -> Block] :
        r = [i \in 1 .. k + 1 |-> IF i = k + 1 THEN new ELSE q[i]]
  <2>1. \A i \in 1 .. k + 1 : i = k + 1 \/ i \in 1 .. k
    BY <1>2
  <2> QED BY <2>1
<1>5. r[k + 1] = new /\ \A i \in 1 .. k : r[i] = q[i] /\ q[i] \in L
  BY <1>1, <1>2, <1>4
<1>6. \A i \in 1 .. k + 1 : i = k + 1 \/ i \in 1 .. k
  BY <1>2
<1>7. \A i, j \in 1 .. k + 1 : r[i] = r[j] => i = j
  BY <1>1, <1>5, <1>6 DEF Path
<1>8. k + 1 \in 0 .. MaxBlock
  <2>1. k + 1 \in Nat /\ MaxBlock \in Nat
    BY <1>2 DEF ThreadAssumption
  <2>2. k + 1 <= MaxBlock
    BY <1>7, <2>1, PathIsShort
  <2> QED BY <2>1, <2>2
<1>9. Path(ny, py, head, k + 1, r)
  <2>1. head = r[1] /\ k + 1 # 0
    BY <1>1, <1>2, <1>5 DEF Path
  <2>2. ny[r[k + 1]] = NULL
    BY <1>5
  <2>3. ASSUME NEW i \in 1 .. k + 1, i < k + 1 PROVE ny[r[i]] = r[i + 1]
    <3>1. CASE i = k
      BY <1>2, <1>3, <1>5, <3>1
    <3>2. CASE i # k
      <4>1. i \in 1 .. k /\ i < k /\ i + 1 \in 1 .. k /\ k \in 1 .. k
        BY <1>2, <2>3, <3>2
      <4>2. q[i] # tail
        BY <1>1, <1>3, <3>2, <4>1 DEF Path
      <4>3. ny[q[i]] = q[i + 1]
        BY <1>1, <1>5, <4>1, <4>2 DEF Path
      <4> QED BY <1>5, <4>1, <4>3
    <3> QED BY <3>1, <3>2
  <2>4. ASSUME NEW i \in 1 .. k + 1, 1 < i PROVE py[r[i]] = r[i - 1]
    <3>1. CASE i = k + 1
      <4>1. i - 1 = k /\ k \in 1 .. k
        BY <1>2, <3>1
      <4> QED BY <1>3, <1>5, <3>1, <4>1
    <3>2. CASE i # k + 1
      <4>1. i \in 1 .. k /\ i - 1 \in 1 .. k
        BY <1>2, <2>4, <3>2
      <4>2. py[q[i]] = q[i - 1]
        BY <1>1, <1>5, <2>4, <4>1 DEF Path
      <4> QED BY <1>5, <4>1, <4>2
    <3> QED BY <3>1, <3>2
  <2> QED BY <1>7, <2>1, <2>2, <2>3, <2>4 DEF Path
<1>10. L \cup {new} = {r[i] : i \in 1 .. k + 1}
  <2>1. \A i \in 1 .. k : i \in 1 .. k + 1
    BY <1>2
  <2>2. k + 1 \in 1 .. k + 1
    BY <1>2
  <2> QED BY <1>1, <1>5, <1>6, <2>1, <2>2
<1> QED BY <1>8, <1>9, <1>10 DEF IsList

\* A struct other than the head, taken off as list_del does.
LEMMA ListShrinks ==
  ASSUME ThreadAssumption, NEW nx, NEW pv, NEW ny, NEW py, NEW head, NEW L,
         IsList(nx, pv, head, L), NEW item \in L, item # head,
         \A n \in L : /\ n # item /\ n = pv[item] => ny[n] = nx[item]
                      /\ n # item /\ n # pv[item] => ny[n] = nx[n]
                      /\ n # item /\ n = nx[item] => py[n] = pv[item]
                      /\ n # item /\ n # nx[item] => py[n] = pv[n]
  PROVE  IsList(ny, py, head, L \ {item})
<1>0. PICK k \in 0 .. MaxBlock : \E q \in [1 .. k -> Block] :
        Path(nx, pv, head, k, q) /\ L = {q[i] : i \in 1 .. k}
  BY DEF IsList
<1>1. PICK q \in [1 .. k -> Block] :
        Path(nx, pv, head, k, q) /\ L = {q[i] : i \in 1 .. k}
  BY <1>0
<1>2. PICK m \in 1 .. k : item = q[m]
  BY <1>1
<1>3. k \in Nat /\ m \in 2 .. k /\ NULL \notin Block /\ head = q[1] /\ k # 0
  BY <1>1, <1>2 DEF Path, NULL, Block
<1>4. pv[item] = q[m - 1] /\ m - 1 \in 1 .. k
  BY <1>1, <1>2, <1>3 DEF Path
<1>5. m < k => nx[item] = q[m + 1] /\ m + 1 \in 1 .. k
  BY <1>1, <1>2, <1>3 DEF Path
<1>6. m = k => nx[item] = NULL
  BY <1>1, <1>2, <1>3 DEF Path
<1>7. ASSUME NEW i \in 1 .. k, i # m
      PROVE  /\ q[i] \in L /\ q[i] # item
             /\ i = m - 1 => ny[q[i]] = nx[item]
             /\ i # m - 1 => ny[q[i]] = nx[q[i]]
             /\ i = m + 1 => py[q[i]] = pv[item]
             /\ i # m + 1 => py[q[i]] = pv[q[i]]
  <2>1. q[i] \in L /\ q[i] # item
    BY <1>1, <1>2, <1>7 DEF Path
  <2>2. q[i] = pv[item] <=> i = m - 1
    BY <1>1, <1>4 DEF Path
  <2>3. q[i] = nx[item] <=> i = m + 1
    <3>1. m < k \/ m = k
      BY <1>3
    <3>2. CASE m < k
      BY <1>1, <1>5, <3>2 DEF Path
    <3>3. CASE m = k
      BY <1>3, <1>6, <3>3
    <3> QED BY <3>1, <3>2, <3>3
  <2> QED BY <2>1, <2>2, <2>3
<1>8. PICK r \in [1 .. k - 1 -> Block] :
        r = [i \in 1 .. k - 1 |-> IF i < m THEN q[i] ELSE q[i + 1]]
  <2>1. \A i \in 1 .. k - 1 : i \in 1 .. k /\ i + 1 \in 1 .. k
    BY <1>3
  <2> QED BY <2>1
<1>9. \A i \in 1 .. k - 1 : /\ i < m => r[i] = q[i]
                            /\ i >= m => r[i] = q[i + 1]
  BY <1>3, <1>8
<1>10. \A i \in 1 .. k - 1 : i \in 1 .. k /\ i + 1 \in 1 .. k /\ i \in Nat /\ (i < m \/ i >= m)
  BY <1>3
<1>11. Path(ny, py, head, k - 1, r)
  <2>1. \A i, j \in 1 .. k - 1 : r[i] = r[j] => i = j
    <3> TAKE i, j \in 1 .. k - 1
    <3>1. CASE i < m /\ j < m
      BY <1>1, <1>9, <1>10, <3>1 DEF Path
    <3>2. CASE i >= m /\ j >= m
      <4>1. r[i] = r[j] => i + 1 = j + 1
        BY <1>1, <1>9, <1>10, <3>2 DEF Path
      <4> QED BY <1>10, <4>1
    <3>3. CASE i < m /\ j >= m
      <4>1. r[i] = r[j] => i = j + 1
        BY <1>1, <1>9, <1>10, <3>3 DEF Path
      <4> QED BY <1>3, <1>10, <3>3, <4>1
    <3>4. CASE i >= m /\ j < m
      <4>1. r[i] = r[j] => i + 1 = j
        BY <1>1, <1>9, <1>10, <3>4 DEF Path
      <4> QED BY <1>3, <1>10, <3>4, <4>1
    <3> QED BY <1>10, <3>1, <3>2, <3>3, <3>4
  <2>2. k - 1 # 0 /\ 1 \in 1 .. k - 1 /\ k - 1 \in 1 .. k - 1 /\ head = r[1]
    BY <1>3, <1>9
  <2>3. ny[r[k - 1]] = NULL
    <3>1. CASE m = k
      <4>1. r[k - 1] = q[k - 1] /\ k - 1 # m /\ k - 1 \in 1 .. k
        BY <1>3, <1>9, <2>2, <3>1
      <4> QED BY <1>6, <1>7, <3>1, <4>1
    <3>2. CASE m # k
      <4>1. r[k - 1] = q[k] /\ k \in 1 .. k /\ k # m - 1
        BY <1>3, <1>9, <2>2, <3>2
      <4>2. nx[q[k]] = NULL
        BY <1>1, <1>3 DEF Path
      <4> QED BY <1>7, <3>2, <4>1, <4>2
    <3> QED BY <3>1, <3>2
  <2>4. ASSUME NEW i \in 1 .. k - 1, i < k - 1 PROVE ny[r[i]] = r[i + 1]
    <3>1. i + 1 \in 1 .. k - 1 /\ i \in 1 .. k /\ i + 1 \in 1 .. k /\ i < k /\ i + 1 < k /\ i \in Nat
      BY <1>3, <2>4
    <3>2. CASE i + 1 < m
      <4>1. r[i] = q[i] /\ r[i + 1] = q[i + 1] /\ i # m /\ i # m - 1
        BY <1>3, <1>9, <3>1, <3>2
      <4>2. nx[q[i]] = q[i + 1]
        BY <1>1, <3>1 DEF Path
      <4> QED BY <1>7, <3>1, <4>1, <4>2
    <3>3. CASE i + 1 = m
      <4>1. r[i] = q[i] /\ r[i + 1] = q[m + 1] /\ i # m /\ i = m - 1 /\ m < k
        BY <1>3, <1>9, <3>1, <3>3
      <4> QED BY <1>5, <1>7, <3>1, <4>1
    <3>4. CASE i + 1 > m
      <4>1. r[i] = q[i + 1] /\ r[i + 1] = q[(i + 1) + 1] /\ i + 1 # m /\ i + 1 # m - 1
        BY <1>3, <1>9, <3>1, <3>4
      <4>2. nx[q[i + 1]] = q[(i + 1) + 1]
        BY <1>1, <3>1 DEF Path
      <4> QED BY <1>7, <3>1, <4>1, <4>2
    <3> QED BY <1>3, <3>1, <3>2, <3>3, <3>4
  <2>5. ASSUME NEW i \in 1 .. k - 1, 1 < i PROVE py[r[i]] = r[i - 1]
    <3>1. i - 1 \in 1 .. k - 1 /\ i \in 1 .. k /\ i + 1 \in 1 .. k /\ i \in Nat /\ 1 < i + 1
      BY <1>3, <2>5
    <3>2. CASE i < m
      <4>1. r[i] = q[i] /\ r[i - 1] = q[i - 1] /\ i # m /\ i # m + 1
        BY <1>3, <1>9, <3>1, <3>2
      <4>2. pv[q[i]] = q[i - 1]
        BY <1>1, <2>5, <3>1 DEF Path
      <4> QED BY <1>7, <3>1, <4>1, <4>2
    <3>3. CASE i = m
      <4>1. r[i] = q[m + 1] /\ r[i - 1] = q[m - 1] /\ m + 1 # m /\ m + 1 \in 1 .. k
        BY <1>3, <1>9, <3>1, <3>3
      <4> QED BY <1>4, <1>7, <4>1
    <3>4. CASE i > m
      <4>1. r[i] = q[i + 1] /\ r[i - 1] = q[(i - 1) + 1] /\ i + 1 # m /\ i + 1 # m + 1
        BY <1>3, <1>9, <3>1, <3>4
      <4>2. pv[q[i + 1]] = q[(i + 1) - 1]
        BY <1>1, <3>1 DEF Path
      <4>3. (i + 1) - 1 = (i - 1) + 1
        BY <3>1
      <4> QED BY <1>7, <3>1, <4>1, <4>2, <4>3
    <3> QED BY <1>3, <3>1, <3>2, <3>3, <3>4
  <2> QED BY <2>1, <2>2, <2>3, <2>4, <2>5 DEF Path
<1>12. L \ {item} = {r[i] : i \in 1 .. k - 1}
  <2>1. ASSUME NEW i \in 1 .. k - 1 PROVE r[i] \in L \ {item}
    <3>1. i < m => i # m
      BY <1>10
    <3>2. i >= m => i + 1 # m
      BY <1>3, <1>10
    <3> QED BY <1>7, <1>9, <1>10, <3>1, <3>2
  <2>2. ASSUME NEW n \in L \ {item} PROVE \E i \in 1 .. k - 1 : n = r[i]
    <3>1. PICK i \in 1 .. k : n = q[i] /\ i # m
      BY <1>1, <1>2
    <3>2. CASE i < m
      <4>1. i \in 1 .. k - 1
        BY <1>3, <3>2
      <4> QED BY <1>9, <3>1, <3>2, <4>1
    <3>3. CASE i > m
      <4>1. i - 1 \in 1 .. k - 1 /\ i - 1 >= m /\ (i - 1) + 1 = i
        BY <1>3, <3>3
      <4> QED BY <1>9, <3>1, <4>1
    <3> QED BY <1>3, <3>1, <3>2, <3>3
  <2> QED BY <2>1, <2>2
<1>13. k - 1 \in 0 .. MaxBlock
  BY <1>3 DEF ThreadAssumption
<1> QED BY <1>11, <1>12, <1>13 DEF IsList

Linked == next \in [Block -> Block \cup {NULL}] /\ prev \in [Block -> Block \cup {NULL}]

\* A free struct is put on a list: the other list stays as it is.
LEMMA AddAdds ==
  ASSUME ThreadAssumption, Linked, NEW head, NEW L \in SUBSET Block, IsList(next, prev, head, L),
         NEW other, NEW O \in SUBSET Block, IsList(next, prev, other, O), L \cap O = {},
         NEW n \in Block \ (L \cup O), next[n] = NULL, Add(n, head)
  PROVE  /\ IsList(next', prev', First(n, head), L \cup {n})
         /\ IsList(next', prev', other, O)
         /\ UNCHANGED fault /\ Linked'
         /\ \A m \in Block \ (L \cup {n}) : next'[m] = next[m]
<1>1. NULL \notin Block
  BY DEF NULL, Block
<1>2. CASE head = NULL
  <2>1. UNCHANGED <<list, fault>> /\ First(n, head) = n
    BY <1>2 DEF Add, First
  <2>2. next' = next /\ prev' = prev
    BY <2>1 DEF list
  <2>3. L = {}
    BY <1>2, EmptyList
  <2>4. PICK q \in [1 .. 1 -> Block] : q = [i \in 1 .. 1 |-> n]
    OBVIOUS
  <2>5. 1 \in 0 .. MaxBlock
    <3>1. n \in 1 .. MaxBlock /\ MaxBlock \in Nat
      BY DEF Block, ThreadAssumption
    <3> QED BY <3>1
  <2>6. \A i \in 1 .. 1 : i = 1
    OBVIOUS
  <2>7. 1 \in 1 .. 1 /\ q[1] = n
    BY <2>4
  <2>8. Path(next, prev, n, 1, q) /\ {n} = {q[i] : i \in 1 .. 1}
    BY <2>6, <2>7 DEF Path
  <2>9. IsList(next, prev, n, {n})
    BY <2>5, <2>8 DEF IsList
  <2> QED BY <2>1, <2>2, <2>3, <2>9 DEF Linked
<1>3. CASE head # NULL
  <2>1. OnList(head) = L /\ Ends(head) /\ head \in L
    BY <1>3, ListIsWalked, HeadIsListed
  <2>2. \E t \in L : next[t] = NULL
    <3>1. PICK k \in 0 .. MaxBlock : \E q \in [1 .. k -> Block] :
            Path(next, prev, head, k, q) /\ L = {q[i] : i \in 1 .. k}
      BY DEF IsList
    <3>2. PICK q \in [1 .. k -> Block] :
            Path(next, prev, head, k, q) /\ L = {q[i] : i \in 1 .. k}
      BY <3>1
    <3>3. k # 0 /\ k \in 1 .. k
      BY <1>3, <3>2 DEF Path
    <3> QED BY <3>2, <3>3 DEF Path
  <2>3. PICK tail \in L : /\ next[tail] = NULL
                          /\ next' = [next EXCEPT ![tail] = n, ![n] = NULL]
                          /\ prev' = [prev EXCEPT ![n] = tail]
                          /\ UNCHANGED fault
    <3>1. list_add(n, head)
      BY <1>3 DEF Add
    <3> QED BY <2>1, <2>2, <3>1 DEF list_add
  <2>4. /\ next'[tail] = n /\ next'[n] = NULL /\ prev'[n] = tail
        /\ \A m \in Block : /\ m # tail /\ m # n => next'[m] = next[m]
                            /\ m # n => prev'[m] = prev[m]
    BY <2>3 DEF Linked
  <2>5. IsList(next', prev', head, L \cup {n})
    <3>1. \A m \in L : /\ m # tail => next'[m] = next[m]
                       /\ prev'[m] = prev[m]
      BY <2>4
    <3>2. n \in Block \ L /\ next[tail] = NULL
      BY <2>3
    <3>3. next'[tail] = n /\ next'[n] = NULL /\ prev'[n] = tail
      BY <2>4
    <3> QED BY ONLY ThreadAssumption, IsList(next, prev, head, L), <1>3, tail \in L, <3>1, <3>2, <3>3,
                    ListGrows
  <2>6. IsList(next', prev', other, O)
    <3>1. \A m \in O : next'[m] = next[m] /\ prev'[m] = prev[m]
      BY <2>3, <2>4
    <3> QED BY <3>1, ListStays
  <2>7. Linked'
    BY <2>3 DEF Linked
  <2>8. \A m \in Block \ (L \cup {n}) : next'[m] = next[m]
    BY <2>3, <2>4
  <2> QED BY <1>3, <2>3, <2>5, <2>6, <2>7, <2>8 DEF First
<1> QED BY <1>2, <1>3

\* A struct that is not the head is taken off a list: the other list stays.
LEMMA RemoveRemoves ==
  ASSUME ThreadAssumption, Linked, NEW head, NEW L \in SUBSET Block, IsList(next, prev, head, L),
         NEW other, NEW O \in SUBSET Block, IsList(next, prev, other, O), L \cap O = {},
         NEW n \in L, n # head, Remove(n, head)
  PROVE  /\ IsList(next', prev', head, L \ {n})
         /\ IsList(next', prev', other, O)
         /\ Linked' /\ next'[n] = NULL
         /\ \A m \in Block \ L : next'[m] = next[m]
<1>1. list_del(n) /\ NULL \notin Block
  BY DEF Remove, NULL, Block
<1>2. \A m \in Block : /\ m # n /\ m = prev[n] => next'[m] = next[n]
                       /\ m # n /\ m # prev[n] => next'[m] = next[m]
                       /\ m # n /\ m = next[n] => prev'[m] = prev[n]
                       /\ m # n /\ m # next[n] => prev'[m] = prev[m]
  BY <1>1 DEF list_del
<1>3. prev[n] \in L /\ next[n] \in L \cup {NULL}
  <2>1. PICK k \in 0 .. MaxBlock : \E q \in [1 .. k -> Block] :
          Path(next, prev, head, k, q) /\ L = {q[i] : i \in 1 .. k}
    BY DEF IsList
  <2>2. PICK q \in [1 .. k -> Block] :
          Path(next, prev, head, k, q) /\ L = {q[i] : i \in 1 .. k}
    BY <2>1
  <2>3. PICK m \in 1 .. k : n = q[m]
    BY <2>2
  <2>4. 1 < m /\ m - 1 \in 1 .. k
    BY <2>2, <2>3 DEF Path, ThreadAssumption
  <2>5. prev[n] = q[m - 1]
    BY <2>2, <2>3, <2>4 DEF Path
  <2>6. m < k => next[n] = q[m + 1] /\ m + 1 \in 1 .. k
    BY <2>2, <2>3 DEF Path, ThreadAssumption
  <2>7. m = k => next[n] = NULL
    BY <2>2, <2>3 DEF Path
  <2>8. m < k \/ m = k
    OBVIOUS
  <2> QED BY <2>2, <2>4, <2>5, <2>6, <2>7, <2>8
<1>4. IsList(next', prev', head, L \ {n})
  BY <1>2, ListShrinks
<1>5. \A m \in Block \ L : next'[m] = next[m] /\ prev'[m] = prev[m]
  <2>1. \A m \in Block \ L : m # n /\ m # prev[n] /\ m # next[n]
    BY <1>1, <1>3
  <2> QED BY <1>2, <2>1
<1>6. IsList(next', prev', other, O)
  BY <1>5, ListStays
<1>7. Linked' /\ next'[n] = NULL
  BY <1>1 DEF list_del, Linked
<1> QED BY <1>4, <1>5, <1>6, <1>7

\* What rune_alloc returns is not in use.
LEMMA AllocIsFree ==
  ASSUME ThreadAssumption, made \in 0 .. MaxBlock, used \subseteq 1 .. made, NEW n \in Block, Alloc(n)
  PROVE  /\ n \notin used /\ used' = used \cup {n}
         /\ made' \in 0 .. MaxBlock /\ used' \subseteq 1 .. made'
<1>1. made \in Nat /\ MaxBlock \in Nat /\ n \in 1 .. MaxBlock
  BY DEF Block, ThreadAssumption
<1>2. n \notin used
  <2>1. CASE 1 .. made \ used = {}
    BY <1>1, <2>1 DEF Alloc
  <2>2. CASE 1 .. made \ used # {}
    <3>1. 1 .. made \ used \in SUBSET (0 .. made)
      BY <1>1
    <3>2. Min(1 .. made \ used) \in 1 .. made \ used
      BY <1>1, <2>2, <3>1, MinIsLeast
    <3> QED BY <2>2, <3>2 DEF Alloc
  <2> QED BY <2>1, <2>2
<1>3. used' = used \cup {n} /\ (n > made => made' = n) /\ (~ n > made => made' = made)
  BY DEF Alloc
<1> QED BY <1>1, <1>2, <1>3

-----------------------------------------------------------------------------
(* The steps of the client.                                                  *)

LEMMA InitIInv ==
  ASSUME ThreadAssumption
  PROVE  Init => IInv
<1> SUFFICES ASSUME Init PROVE IInv
  OBVIOUS
<1>1. 0 \in Nat /\ 0 \in ID /\ 1 \in 1 .. MaxID + 1 /\ 0 \in 0 .. MaxMutex /\ 0 \in 0 .. MaxBlock
  BY DEF ThreadAssumption, ID
<1>2. TypeOK
  BY <1>1 DEF Init, TypeOK, NULL
<1>3. \A p \in Pthread : os[p] = "none" /\ tid[p] = 0
  BY DEF Init
<1>4. Present = {} /\ Alive = {} /\ Failed = {}
  BY <1>3 DEF Present, Alive, Failed, Init
<1>5. Shape({}, {})
  BY EmptyList DEF Init, Shape
<1>6. IdsApart({}, {}) /\ Owners({}) /\ TidsApart /\ OneStarts /\ ClientAt({})
  BY <1>3, <1>4 DEF Init, IdsApart, Owners, TidsApart, OneStarts, ClientAt
<1> QED BY <1>2, <1>5, <1>6 DEF Init, IInv, Keeps

LEMMA RegisterKeepsIInv ==
  ASSUME ThreadAssumption, OneStart, TypeOK, fault = "none",
         NEW T \in SUBSET Block, NEW M \in SUBSET Block, Keeps(T, M),
         NEW d \in {0, 1}, Register(d)
  PROVE  IInv'
<1>1. PICK n \in Block, stale \in Pthread \cup {NULL} :
        /\ Alloc(n)
        /\ id' = [id EXCEPT ![n] = next_tid]
        /\ detached' = [detached EXCEPT ![n] = d]
        /\ handle' = [handle EXCEPT ![n] = stale]
        /\ Add(n, threads) /\ threads' = First(n, threads)
        /\ args' = n /\ cur' = n
  BY DEF Register
<1>2. /\ pc = "idle" /\ pc' = "create" /\ next_tid <= MaxID /\ next_tid' = next_tid + 1
      /\ UNCHANGED <<mutexes, next_mid, live, os, loose, doomed, self, tid, told>>
      /\ \A p \in Pthread : os[p] # "created"
  BY DEF Register, Goto, mutex_vars, os_vars
<1>3. n \notin used /\ used' = used \cup {n} /\ made' \in 0 .. MaxBlock /\ used' \subseteq 1 .. made'
  BY <1>1, AllocIsFree DEF TypeOK
<1>4. n \notin T /\ n \notin M /\ next[n] = NULL /\ T \cap M = {}
  BY <1>3 DEF Keeps, Shape
<1>5. /\ IsList(next', prev', threads', T \cup {n})
      /\ IsList(next', prev', mutexes', M)
      /\ fault' = "none" /\ Linked'
      /\ \A m \in Block \ (T \cup {n}) : next'[m] = next[m]
  <2>1. Linked /\ n \in Block \ (T \cup M)
    BY <1>4 DEF TypeOK, Linked
  <2>2. IsList(next, prev, threads, T) /\ IsList(next, prev, mutexes, M)
    BY DEF Keeps, Shape
  <2>3. /\ IsList(next', prev', First(n, threads), T \cup {n})
        /\ IsList(next', prev', mutexes, M)
        /\ UNCHANGED fault /\ Linked'
        /\ \A m \in Block \ (T \cup {n}) : next'[m] = next[m]
    BY <1>1, <1>4, <2>1, <2>2, AddAdds
  <2> QED BY <1>1, <1>2, <2>3
<1>6. next_tid \in Nat \ {0} /\ next_tid \in ID /\ MaxID \in Nat
  BY <1>2 DEF TypeOK, ThreadAssumption, ID
<1>7. id'[n] = next_tid /\ \A m \in Block \ {n} : id'[m] = id[m] /\ handle'[m] = handle[m]
  BY <1>1 DEF TypeOK
<1>8. TypeOK'
  <2>1. id' \in [Block -> Nat] /\ detached' \in [Block -> {0, 1}] /\ handle' \in [Block -> Pthread \cup {NULL}]
    BY <1>1, <1>6 DEF TypeOK
  <2>2. threads' \in Block \cup {NULL} /\ mutexes' \in Block \cup {NULL}
    BY <1>1, <1>2 DEF TypeOK, First
  <2>3. next_tid' \in 1 .. MaxID + 1
    BY <1>2, <1>6
  <2> QED BY <1>1, <1>2, <1>3, <1>5, <2>1, <2>2, <2>3 DEF TypeOK, Linked
<1>9. Shape(T \cup {n}, M)'
  BY <1>3, <1>4, <1>5 DEF Keeps, Shape
<1>10. IdsApart(T \cup {n}, M)'
  <2>1. \A m \in T \cup M : m \in Block \ {n}
    BY <1>4
  <2>2. \A m \in T : id[m] \in 1 .. next_tid - 1
    BY DEF Keeps, IdsApart
  <2> QED BY <1>2, <1>6, <1>7, <2>1, <2>2 DEF Keeps, IdsApart
<1>11. Alive' = Alive /\ Present' = Present /\ Failed' = Failed /\ \A p \in Alive : Mine(p)' = Mine(p)
  BY <1>2 DEF Alive, Present, Failed, Mine
<1>12. Owners(T \cup {n})'
  <2>1. \A p \in Alive : Mine(p) \in T /\ Mine(p) \in Block \ {n}
    BY <1>4 DEF Keeps, Owners
  <2>2. \A m \in T : m \in Block \ {n}
    BY <1>4
  <2> QED BY <1>1, <1>2, <1>7, <1>11, <2>1, <2>2 DEF Keeps, Owners
<1>13. TidsApart' /\ OneStarts'
  BY <1>2, <1>6, <1>11 DEF Keeps, TidsApart, OneStarts
<1>14. ClientAt(T \cup {n})'
  <2>1. \A p \in Present : tid[p] # next_tid
    BY <1>6 DEF Keeps, TidsApart
  <2>2. \A i \in ID : i >= next_tid => told[i] = "nothing"
    BY DEF Keeps, ClientAt
  <2>3. \A i \in ID : i \in Nat
    BY <1>6 DEF ID
  <2> QED BY <1>1, <1>2, <1>6, <1>7, <1>11, <2>1, <2>2, <2>3 DEF ClientAt
<1> QED BY <1>5, <1>8, <1>9, <1>10, <1>12, <1>13, <1>14 DEF IInv, Keeps

\* Nothing the lists are made of changes.
LEMMA ShapeStays ==
  ASSUME NEW T, NEW M, Shape(T, M), UNCHANGED <<threads, mutexes, next, prev, used>>
  PROVE  Shape(T, M)'
BY DEF Shape

LEMMA CreateKeepsIInv ==
  ASSUME ThreadAssumption, TypeOK, fault = "none",
         NEW T \in SUBSET Block, NEW M \in SUBSET Block, Keeps(T, M),
         NEW p \in Pthread, Create(p)
  PROVE  IInv'
<1>1. /\ pc = "create" /\ pc' = "return" /\ os[p] = "none"
      /\ os' = [os EXCEPT ![p] = "created"]
      /\ tid' = [tid EXCEPT ![p] = id[cur]]
      /\ handle' = [handle EXCEPT ![cur] = p]
      /\ UNCHANGED <<threads, mutexes, next_mid, live, next_tid, made, used, id, detached, next, prev,
                     args, loose, doomed, self, told, cur, fault>>
  BY DEF Create, Goto, mutex_vars, pool, list
<1>2. /\ cur \in T /\ args = cur /\ cur \in Block
      /\ id[cur] = next_tid - 1 /\ id[cur] \in 1 .. next_tid - 1 /\ told[id[cur]] = "nothing"
      /\ \A r \in Present : tid[r] # id[cur]
  BY <1>1 DEF Keeps, ClientAt
<1>3. id[cur] \in ID
  <2>1. next_tid \in 1 .. MaxID + 1 /\ MaxID \in Nat
    BY DEF TypeOK, ThreadAssumption
  <2> QED BY <1>2, <2>1 DEF ID
<1>4. TypeOK'
  <2>1. os' \in [Pthread -> {"none", "created", "running", "ended"}] /\ tid' \in [Pthread -> ID]
        /\ handle' \in [Block -> Pthread \cup {NULL}]
    BY <1>1, <1>2, <1>3 DEF TypeOK
  <2> QED BY <1>1, <2>1 DEF TypeOK
<1>5. /\ os'[p] = "created" /\ tid'[p] = id[cur] /\ handle'[cur] = p
      /\ \A r \in Pthread \ {p} : os'[r] = os[r] /\ tid'[r] = tid[r]
      /\ \A n \in Block \ {cur} : handle'[n] = handle[n]
  BY <1>1, <1>2 DEF TypeOK
<1>6. /\ Alive' = Alive \cup {p} /\ Present' = Present \cup {p} /\ p \notin Present
      /\ Failed' = Failed
  BY <1>1, <1>5 DEF Alive, Present, Failed
<1>7. Mine(p)' = cur /\ \A r \in Alive : Mine(r)' = Mine(r) /\ r # p /\ r \in Present
  BY <1>1, <1>2, <1>5 DEF Mine, Alive, Present
<1>8. Shape(T, M)' /\ IdsApart(T, M)'
  BY <1>1, ShapeStays DEF Keeps, IdsApart
<1>9. Owners(T)'
  <2>1. ASSUME NEW r \in Alive
        PROVE  Mine(r)' \in T /\ id'[Mine(r)'] = tid'[r] /\ handle'[Mine(r)'] = r
    <3>1. Mine(r) \in T /\ id[Mine(r)] = tid[r] /\ handle[Mine(r)] = r
      BY DEF Keeps, Owners
    <3>2. Mine(r) # cur /\ r \in Pthread \ {p}
      BY <1>2, <1>7, <3>1 DEF Alive
    <3> QED BY <1>1, <1>5, <1>7, <3>1, <3>2
  <2>2. Mine(p)' \in T /\ id'[Mine(p)'] = tid'[p] /\ handle'[Mine(p)'] = p
    BY <1>1, <1>2, <1>5, <1>7
  <2>3. ASSUME NEW n \in T
        PROVE  (\E r \in Alive' : Mine(r)' = n) \/ told'[id'[n]] = "failed"
    <3>1. (\E r \in Alive : Mine(r) = n) \/ told[id[n]] = "failed" \/ n = cur
      BY DEF Keeps, Owners
    <3> QED BY <1>1, <1>6, <1>7, <3>1
  <2>4. \A i \in Failed' : \E n \in T : id'[n] = i
    BY <1>1, <1>6 DEF Keeps, Owners
  <2> QED BY <1>6, <2>1, <2>2, <2>3, <2>4 DEF Owners
<1>10. TidsApart'
  <2>1. \A r \in Present' : tid'[r] \in 1 .. next_tid' - 1
    BY <1>1, <1>2, <1>5, <1>6 DEF Keeps, TidsApart, Present
  <2>2. \A r \in Pthread \ Present' : tid'[r] = 0
    BY <1>5, <1>6 DEF Keeps, TidsApart
  <2>3. \A r, s \in Present' : tid'[r] = tid'[s] => r = s
    BY <1>2, <1>5, <1>6 DEF Keeps, TidsApart, Present
  <2>4. \A r \in Present' : told'[tid'[r]] # "failed"
    BY <1>1, <1>2, <1>5, <1>6 DEF Keeps, TidsApart, Present
  <2>5. \A r \in Alive' : told'[tid'[r]] # "joined"
    BY <1>1, <1>2, <1>5, <1>6, <1>7 DEF Keeps, TidsApart, Alive
  <2> QED BY <2>1, <2>2, <2>3, <2>4, <2>5 DEF TidsApart
<1>11. OneStarts'
  BY <1>1, <1>5 DEF Keeps, OneStarts
<1>12. ClientAt(T)'
  BY <1>1, <1>2, <1>5 DEF Keeps, ClientAt
<1> QED BY <1>1, <1>4, <1>8, <1>9, <1>10, <1>11, <1>12 DEF IInv, Keeps

LEMMA CreateFailsKeepsIInv ==
  ASSUME ThreadAssumption, TypeOK, fault = "none",
         NEW T \in SUBSET Block, NEW M \in SUBSET Block, Keeps(T, M), CreateFails
  PROVE  IInv'
<1>1. /\ pc = "create" /\ pc' = "idle"
      /\ told' = [told EXCEPT ![id[cur]] = "failed"]
      /\ UNCHANGED <<threads, mutexes, next_mid, live, next_tid, made, used, id, detached, handle,
                     next, prev, args, os, loose, doomed, self, tid, cur, fault>>
  BY DEF CreateFails, Goto, mutex_vars, pool, list, fields, os_vars
<1>2. /\ cur \in T /\ id[cur] = next_tid - 1 /\ id[cur] \in 1 .. next_tid - 1
      /\ \A r \in Present : tid[r] # id[cur]
  BY <1>1 DEF Keeps, ClientAt
<1>3. id[cur] \in ID /\ next_tid \in Nat
  <2>1. next_tid \in 1 .. MaxID + 1 /\ MaxID \in Nat
    BY DEF TypeOK, ThreadAssumption
  <2> QED BY <1>2, <2>1 DEF ID
<1>4. TypeOK'
  BY <1>1, <1>3 DEF TypeOK
<1>5. told'[id[cur]] = "failed" /\ \A i \in ID \ {id[cur]} : told'[i] = told[i]
  BY <1>1, <1>3 DEF TypeOK
<1>6. Alive' = Alive /\ Present' = Present /\ \A r \in Pthread : Mine(r)' = Mine(r)
  BY <1>1 DEF Alive, Present, Mine
<1>7. Shape(T, M)' /\ IdsApart(T, M)'
  BY <1>1, ShapeStays DEF Keeps, IdsApart
<1>8. \A r \in Present : tid[r] \in ID \ {id[cur]}
  BY <1>2 DEF TypeOK, Present
<1>9. Owners(T)'
  <2>1. \A n \in T : n = cur \/ id[n] # id[cur]
    BY <1>2 DEF Keeps, IdsApart
  <2>2. \A n \in T : id[n] \in ID
    <3>1. \A n \in T : id[n] \in 1 .. next_tid - 1
      BY DEF Keeps, IdsApart
    <3>2. next_tid \in 1 .. MaxID + 1 /\ MaxID \in Nat
      BY DEF TypeOK, ThreadAssumption
    <3> QED BY <3>1, <3>2 DEF ID
  <2>3. \A n \in T : \/ \E r \in Alive' : Mine(r)' = n
                     \/ told'[id'[n]] = "failed"
    <3> TAKE n \in T
    <3>1. (\E r \in Alive : Mine(r) = n) \/ told[id[n]] = "failed" \/ n = cur
      BY DEF Keeps, Owners
    <3>2. (\E r \in Alive : Mine(r) = n) => \E r \in Alive' : Mine(r)' = n
      BY <1>6 DEF Alive
    <3>3. n # cur => told'[id[n]] = told[id[n]]
      BY <1>5, <2>1, <2>2
    <3> QED BY <1>1, <1>5, <3>1, <3>2, <3>3
  <2>4. Failed' = Failed \cup {id[cur]}
    BY <1>3, <1>5 DEF Failed
  <2>5. \A r \in Alive' : Mine(r)' \in T /\ id'[Mine(r)'] = tid'[r] /\ handle'[Mine(r)'] = r
    BY <1>1, <1>6 DEF Keeps, Owners, Alive
  <2>6. \A i \in Failed' : \E n \in T : id'[n] = i
    BY <1>1, <1>2, <2>4 DEF Keeps, Owners
  <2> QED BY <2>3, <2>5, <2>6 DEF Owners
<1>10. TidsApart' /\ OneStarts'
  <2>1. \A r \in Present : told'[tid[r]] = told[tid[r]]
    BY <1>5, <1>8
  <2>2. \A r \in Alive : r \in Present
    BY DEF Alive, Present
  <2>3. TidsApart'
    BY <1>1, <1>6, <2>1, <2>2 DEF Keeps, TidsApart
  <2> QED BY <1>1, <2>3 DEF Keeps, OneStarts
<1>11. ClientAt(T)'
  <2>1. \A i \in ID : i >= next_tid => i # id[cur]
    BY <1>2, <1>3 DEF ID, ThreadAssumption
  <2>2. \A i \in ID : i >= next_tid' => told'[i] = "nothing"
    BY <1>1, <1>5, <2>1 DEF Keeps, ClientAt
  <2> QED BY <1>1, <2>2 DEF ClientAt
<1> QED BY <1>1, <1>4, <1>7, <1>9, <1>10, <1>11 DEF IInv, Keeps

\* What is left when a pthread is collected.
LEMMA CollectLeaves ==
  ASSUME ThreadAssumption, TypeOK, NEW p \in Pthread, Collect(p)
  PROVE  /\ os' \in [Pthread -> {"none", "created", "running", "ended"}]
         /\ loose' \subseteq Pthread /\ doomed' \subseteq Pthread \cup {NULL}
         /\ self' \in [Pthread -> Block \cup {NULL}] /\ tid' \in [Pthread -> ID]
         /\ os'[p] = "none" /\ tid'[p] = 0
         /\ \A r \in Pthread \ {p} : os'[r] = os[r] /\ tid'[r] = tid[r] /\ self'[r] = self[r]
<1>1. 0 \in ID
  BY DEF ID, ThreadAssumption
<1> QED BY <1>1 DEF Collect, TypeOK

\* An ended pthread is collected and its ID reported, or nothing is collected.
LEMMA ReportKeepsIInv ==
  ASSUME ThreadAssumption, TypeOK, fault = "none",
         NEW T \in SUBSET Block, NEW M \in SUBSET Block, Keeps(T, M),
         NEW i \in ID, NEW word \in {"running", "refused", "joined"},
         UNCHANGED <<threads, mutexes, next_mid, live, next_tid, made, used, id, detached, handle,
                     next, prev, args, cur, fault>>,
         pc # "create", pc' = "idle", i < next_tid,
         told' = [told EXCEPT ![i] = word], told[i] # "failed",
         word = "joined" => \A r \in Alive : tid[r] # i,
         \/ \E p \in Pthread : os[p] = "ended" /\ Collect(p)
         \/ UNCHANGED <<os, doomed, self, tid>> /\ loose' \subseteq Pthread
  PROVE  IInv'
<1>1. TypeOK'
  <2>1. told' \in [ID -> {"nothing", "running", "failed", "refused", "joined"}]
    BY DEF TypeOK
  <2> QED BY <2>1, CollectLeaves DEF TypeOK
<1>2. told'[i] = word /\ \A j \in ID \ {i} : told'[j] = told[j]
  BY DEF TypeOK
<1> DEFINE Left == /\ Alive' = Alive
                   /\ Present' \in SUBSET Present
                   /\ \A r \in Present' : tid'[r] = tid[r] /\ os'[r] = os[r]
                   /\ \A r \in Pthread \ Present' : tid'[r] = 0
                   /\ \A r \in Alive : Mine(r)' = Mine(r) /\ r \in Present'
                   /\ \A r \in Pthread : os'[r] = os[r] \/ os'[r] = "none"
<1>3. Left
  <2>1. ASSUME NEW p \in Pthread, os[p] = "ended", Collect(p) PROVE Left
    <3>1. os'[p] = "none" /\ tid'[p] = 0
          /\ \A r \in Pthread \ {p} : os'[r] = os[r] /\ tid'[r] = tid[r] /\ self'[r] = self[r]
      BY <2>1, CollectLeaves
    <3>2. Alive' = Alive /\ Present' = Present \ {p}
      BY <2>1, <3>1 DEF Alive, Present
    <3>3. \A r \in Pthread \ Present : tid[r] = 0
      BY DEF Keeps, TidsApart
    <3>4. \A r \in Alive : r # p /\ r \in Present /\ r \in Pthread
      BY <2>1 DEF Alive, Present
    <3>5. \A r \in Alive : Mine(r)' = Mine(r)
      BY <3>1, <3>4 DEF Mine
    <3> QED BY <3>1, <3>2, <3>3, <3>4, <3>5 DEF Present
  <2>2. CASE UNCHANGED <<os, doomed, self, tid>>
    BY <2>2 DEF Alive, Present, Mine, Keeps, TidsApart
  <2> QED BY <2>1, <2>2
<1>4. Failed' = Failed
  BY <1>2 DEF Failed
<1>5. \A j \in ID : told'[j] = "failed" <=> told[j] = "failed"
  BY <1>2
<1>6. \A n \in T : id[n] \in ID
  <2>1. \A n \in T : id[n] \in 1 .. next_tid - 1
    BY DEF Keeps, IdsApart
  <2>2. next_tid \in 1 .. MaxID + 1 /\ MaxID \in Nat
    BY DEF TypeOK, ThreadAssumption
  <2> QED BY <2>1, <2>2 DEF ID
<1>7. Shape(T, M)' /\ IdsApart(T, M)'
  BY ShapeStays DEF Keeps, IdsApart
<1>8. Owners(T)'
  <2>1. \A r \in Alive : Mine(r)' \in T /\ id'[Mine(r)'] = tid'[r] /\ handle'[Mine(r)'] = r
    BY <1>3 DEF Keeps, Owners
  <2>2. \A n \in T : (\E r \in Alive : Mine(r)' = n) \/ told'[id'[n]] = "failed"
    BY <1>3, <1>5, <1>6 DEF Keeps, Owners
  <2>3. \A j \in Failed : \E n \in T : id'[n] = j
    BY DEF Keeps, Owners
  <2> QED BY <1>3, <1>4, <2>1, <2>2, <2>3 DEF Owners
<1>9. TidsApart'
  <2>1. \A r \in Present : tid[r] \in ID /\ r \in Pthread
    BY DEF TypeOK, Present
  <2>2. \A r \in Present' : tid'[r] \in 1 .. next_tid' - 1
    BY <1>3 DEF Keeps, TidsApart
  <2>3. \A r, s \in Present' : tid'[r] = tid'[s] => r = s
    BY <1>3 DEF Keeps, TidsApart
  <2>4. \A r \in Present' : told'[tid'[r]] # "failed"
    BY <1>3, <1>5, <2>1 DEF Keeps, TidsApart
  <2>5. ASSUME NEW r \in Alive PROVE told'[tid'[r]] # "joined"
    <3>1. tid[r] \in ID /\ tid'[r] = tid[r] /\ told[tid[r]] # "joined"
      BY <1>3, <2>1 DEF Keeps, TidsApart
    <3>2. CASE tid[r] = i
      BY <1>2, <3>1, <3>2
    <3>3. CASE tid[r] # i
      BY <1>2, <3>1, <3>3
    <3> QED BY <3>2, <3>3
  <2> QED BY <1>3, <2>2, <2>3, <2>4, <2>5 DEF TidsApart
<1>10. OneStarts'
  BY <1>3 DEF Keeps, OneStarts
<1>11. ClientAt(T)'
  <2>1. \A j \in ID : j >= next_tid => j # i
    <3>1. next_tid \in Nat /\ ID \subseteq Nat
      BY DEF TypeOK, ThreadAssumption, ID
    <3> QED BY <3>1
  <2> QED BY <1>2, <2>1 DEF Keeps, ClientAt
<1> QED BY <1>1, <1>7, <1>8, <1>9, <1>10, <1>11 DEF IInv, Keeps

LEMMA ReturnKeepsIInv ==
  ASSUME ThreadAssumption, TypeOK, fault = "none",
         NEW T \in SUBSET Block, NEW M \in SUBSET Block, Keeps(T, M), Return
  PROVE  IInv'
<1>1. /\ pc = "return" /\ pc' = "idle"
      /\ told' = [told EXCEPT ![id[cur]] = "running"]
      /\ UNCHANGED <<threads, mutexes, next_mid, live, next_tid, made, used, id, detached, handle,
                     next, prev, args, cur, fault>>
  BY DEF Return, Goto, mutex_vars, pool, fields, list
<1>2. /\ handle[cur] \in Pthread /\ id[cur] = next_tid - 1 /\ told[id[cur]] = "nothing"
  BY <1>1 DEF Keeps, ClientAt
<1>3. PICK i, p : i = id[cur] /\ p = handle[cur]
  OBVIOUS
<1>4. i \in ID /\ i < next_tid /\ p \in Pthread
  <2>1. next_tid \in 1 .. MaxID + 1 /\ MaxID \in Nat
    BY DEF TypeOK, ThreadAssumption
  <2> QED BY <1>2, <1>3, <2>1 DEF ID
<1>5. \/ os[p] = "ended" /\ Collect(p)
      \/ UNCHANGED <<os, doomed, self, tid>> /\ loose' \subseteq Pthread
  BY <1>3, <1>4 DEF Return, os_vars, TypeOK
<1> QED BY <1>1, <1>2, <1>3, <1>4, <1>5, ReportKeepsIInv

LEMMA JoinReturnsKeepsIInv ==
  ASSUME ThreadAssumption, TypeOK, fault = "none",
         NEW T \in SUBSET Block, NEW M \in SUBSET Block, Keeps(T, M), JoinReturns
  PROVE  IInv'
<1>1. /\ pc = "join" /\ pc' = "idle"
      /\ os[handle[cur]] = "ended" /\ Collect(handle[cur])
      /\ told' = [told EXCEPT ![id[cur]] = "joined"]
      /\ UNCHANGED <<threads, mutexes, next_mid, live, next_tid, made, used, id, detached, handle,
                     next, prev, args, cur, fault>>
  BY DEF JoinReturns, Goto, mutex_vars, pool, fields, list
<1>2. /\ handle[cur] \in Pthread /\ id[cur] \in 1 .. next_tid - 1 /\ told[id[cur]] = "running"
      /\ handle[cur] \in Present => tid[handle[cur]] = id[cur]
  BY <1>1 DEF Keeps, ClientAt
<1>3. PICK i, p : i = id[cur] /\ p = handle[cur]
  OBVIOUS
<1>4. i \in ID /\ i < next_tid /\ p \in Pthread
  <2>1. next_tid \in 1 .. MaxID + 1 /\ MaxID \in Nat
    BY DEF TypeOK, ThreadAssumption
  <2> QED BY <1>2, <1>3, <2>1 DEF ID
<1>5. \A r \in Alive : tid[r] # i
  <2>1. p \in Present /\ tid[p] = i /\ p \notin Alive
    BY <1>1, <1>2, <1>3 DEF Present, Alive
  <2>2. \A r \in Alive : r \in Present
    BY DEF Alive, Present
  <2> QED BY <2>1, <2>2 DEF Keeps, TidsApart
<1> QED BY <1>1, <1>2, <1>3, <1>4, <1>5, ReportKeepsIInv

\* While nothing is being created, each struct on the list of threads is that of
\* a thread that has not ended, or of one that could not be created.
LEMMA FoundIsOwned ==
  ASSUME NEW T \in SUBSET Block, NEW M \in SUBSET Block, Keeps(T, M), pc = "idle",
         NEW n \in T, told[id[n]] # "failed"
  PROVE  \E p \in Alive : Mine(p) = n /\ handle[n] = p /\ tid[p] = id[n]
BY DEF Keeps, Owners

LEMMA JoinKeepsIInv ==
  ASSUME ThreadAssumption, TypeOK, fault = "none",
         NEW T \in SUBSET Block, NEW M \in SUBSET Block, Keeps(T, M), NEW i \in ID, Join(i)
  PROVE  IInv'
<1>1. /\ pc = "idle" /\ told[i] = "running"
      /\ UNCHANGED <<threads, mutexes, next_mid, live, next_tid, made, used, id, detached, handle,
                     next, prev, args, os, loose, doomed, self, tid>>
  BY DEF Join, mutex_vars, pool, fields, list, os_vars
<1>2. i < next_tid /\ next_tid \in Nat /\ i \in Nat
  <2>1. next_tid \in Nat /\ ID \subseteq Nat
    BY DEF TypeOK, ThreadAssumption, ID
  <2> QED BY <1>1, <2>1 DEF Keeps, ClientAt
<1>3. PICK n : n = _find_thread_by_id(i)
  OBVIOUS
<1>4. IsList(next, prev, threads, T) /\ NULL \notin Block
  BY DEF Keeps, Shape, NULL, Block
<1>5. \/ n \in T /\ id[n] = i
      \/ n = NULL /\ \A m \in T : id[m] # i
  <2>1. {m \in Block : id[m] = i} \in SUBSET Block
    OBVIOUS
  <2>2. \/ n \in T \cap {m \in Block : id[m] = i}
        \/ n = NULL /\ T \cap {m \in Block : id[m] = i} = {}
    BY <1>3, <1>4, <2>1, FindFinds DEF _find_thread_by_id
  <2> QED BY <2>2
<1>6. ASSUME NEW word \in {"refused", "joined"}, told' = [told EXCEPT ![i] = word],
             word = "joined" => \A r \in Alive : tid[r] # i, UNCHANGED <<pc, cur, fault>>
      PROVE  IInv'
  <2>1. loose' \subseteq Pthread
    BY <1>1 DEF TypeOK
  <2> QED BY <1>1, <1>2, <1>6, <2>1, ReportKeepsIInv
<1>7. CASE n = NULL
  <2>1. told' = [told EXCEPT ![i] = "joined"] /\ UNCHANGED <<pc, cur, fault>>
    <3>1. Ends(threads)
      BY <1>4, ListIsWalked
    <3> QED BY <1>3, <1>7, <3>1 DEF Join
  <2>2. \A r \in Alive : tid[r] # i
    <3>1. n \notin T
      BY <1>4, <1>7
    <3> QED BY <1>5, <3>1 DEF Keeps, Owners
  <2> QED BY <1>6, <2>1, <2>2
<1>8. CASE n # NULL /\ detached[n] = 1
  <2>1. told' = [told EXCEPT ![i] = "refused"] /\ UNCHANGED <<pc, cur, fault>>
    BY <1>3, <1>8 DEF Join
  <2> QED BY <1>6, <2>1
<1>9. CASE n # NULL /\ detached[n] # 1
  <2>1. cur' = n /\ pc' = "join" /\ UNCHANGED <<told, fault>>
    BY <1>3, <1>9 DEF Join, Goto
  <2>2. n \in T /\ id[n] = i /\ n \in Block
    BY <1>5, <1>9
  <2>3. PICK p \in Alive : Mine(p) = n /\ handle[n] = p /\ tid[p] = i
    BY <1>1, <2>2, FoundIsOwned
  <2>4. TypeOK'
    BY <1>1, <2>1, <2>2 DEF TypeOK
  <2>5. Shape(T, M)' /\ IdsApart(T, M)'
    BY <1>1, ShapeStays DEF Keeps, IdsApart
  <2>6. Alive' = Alive /\ Present' = Present /\ Failed' = Failed /\ \A r \in Pthread : Mine(r)' = Mine(r)
    BY <1>1, <2>1 DEF Alive, Present, Failed, Mine
  <2>7. Owners(T)' /\ TidsApart' /\ OneStarts'
    BY <1>1, <2>1, <2>6 DEF Keeps, Owners, TidsApart, OneStarts, Alive
  <2>8. ClientAt(T)'
    <3>1. p \in Pthread /\ i \in 1 .. next_tid - 1
      BY <2>2 DEF Alive, Keeps, IdsApart
    <3> QED BY <1>1, <2>1, <2>2, <2>3, <2>6, <3>1 DEF Keeps, ClientAt
  <2> QED BY <2>1, <2>4, <2>5, <2>7, <2>8 DEF IInv, Keeps
<1> QED BY <1>7, <1>8, <1>9

LEMMA CancelKeepsIInv ==
  ASSUME ThreadAssumption, TypeOK, fault = "none",
         NEW T \in SUBSET Block, NEW M \in SUBSET Block, Keeps(T, M), NEW i \in ID, Cancel(i)
  PROVE  IInv'
<1>1. UNCHANGED <<threads, mutexes, next_mid, live, next_tid, made, used, id, detached, handle,
                  next, prev, args, os, loose, self, tid, told, pc, cur, fault>>
  BY DEF Cancel, mutex_vars, pool, fields, list
<1>2. doomed' \subseteq Pthread \cup {NULL}
  <2>1. PICK n : n = _find_thread_by_id(i) /\ n # NULL /\ doomed' = doomed \cup {handle[n]}
    BY DEF Cancel
  <2>2. IsList(next, prev, threads, T) /\ {m \in Block : id[m] = i} \in SUBSET Block
    BY DEF Keeps, Shape
  <2>3. n \in Block
    BY <2>1, <2>2, FindFinds DEF _find_thread_by_id
  <2> QED BY <2>1, <2>3 DEF TypeOK
<1>3. TypeOK'
  BY <1>1, <1>2 DEF TypeOK
<1>4. Shape(T, M)' /\ IdsApart(T, M)'
  BY <1>1, ShapeStays DEF Keeps, IdsApart
<1>5. Alive' = Alive /\ Present' = Present /\ Failed' = Failed /\ \A r \in Pthread : Mine(r)' = Mine(r)
  BY <1>1 DEF Alive, Present, Failed, Mine
<1>6. Owners(T)' /\ TidsApart' /\ OneStarts' /\ ClientAt(T)'
  BY <1>1, <1>5 DEF Keeps, Owners, TidsApart, OneStarts, ClientAt, Alive
<1> QED BY <1>1, <1>3, <1>4, <1>6 DEF IInv, Keeps

LEMMA MutexInitKeepsIInv ==
  ASSUME ThreadAssumption, TypeOK, fault = "none",
         NEW T \in SUBSET Block, NEW M \in SUBSET Block, Keeps(T, M), MutexInit
  PROVE  IInv'
<1>1. PICK n \in Block :
        /\ Alloc(n)
        /\ id' = [id EXCEPT ![n] = next_mid]
        /\ handle' = [handle EXCEPT ![n] = NULL]
        /\ Add(n, mutexes) /\ mutexes' = First(n, mutexes)
  BY DEF MutexInit
<1>2. /\ pc = "idle" /\ next_mid < MaxMutex /\ next_mid' = next_mid + 1
      /\ live' = live \cup {next_mid}
      /\ UNCHANGED <<threads, next_tid, detached, args, os, loose, doomed, self, tid, told, pc, cur>>
  BY DEF MutexInit, os_vars
<1>3. n \notin used /\ used' = used \cup {n} /\ made' \in 0 .. MaxBlock /\ used' \subseteq 1 .. made'
  BY <1>1, AllocIsFree DEF TypeOK
<1>4. n \notin T /\ n \notin M /\ next[n] = NULL /\ M \cap T = {}
  BY <1>3 DEF Keeps, Shape
<1>5. /\ IsList(next', prev', First(n, mutexes), M \cup {n})
      /\ IsList(next', prev', threads, T)
      /\ UNCHANGED fault /\ Linked'
      /\ \A m \in Block \ (M \cup {n}) : next'[m] = next[m]
  <2>1. Linked /\ n \in Block \ (M \cup T)
    BY <1>4 DEF TypeOK, Linked
  <2>2. IsList(next, prev, threads, T) /\ IsList(next, prev, mutexes, M)
    BY DEF Keeps, Shape
  <2> QED BY <1>1, <1>4, <2>1, <2>2, AddAdds
<1>6. next_mid \in Nat /\ MaxMutex \in Nat
  BY DEF TypeOK, ThreadAssumption
<1>7. id'[n] = next_mid /\ \A m \in Block \ {n} : id'[m] = id[m] /\ handle'[m] = handle[m]
  BY <1>1 DEF TypeOK
<1>8. TypeOK'
  <2>1. id' \in [Block -> Nat] /\ handle' \in [Block -> Pthread \cup {NULL}]
    BY <1>1, <1>6 DEF TypeOK
  <2>2. mutexes' \in Block \cup {NULL}
    BY <1>1 DEF TypeOK, First
  <2>3. next_mid' \in 0 .. MaxMutex /\ next_mid \in 0 .. MaxMutex
    BY <1>2, <1>6
  <2>4. next' \in [Block -> Block \cup {NULL}] /\ prev' \in [Block -> Block \cup {NULL}]
    BY <1>5 DEF Linked
  <2> QED BY <1>2, <1>3, <1>5, <2>1, <2>2, <2>3, <2>4 DEF TypeOK
<1>9. Shape(T, M \cup {n})'
  BY <1>1, <1>2, <1>3, <1>4, <1>5 DEF Keeps, Shape
<1>10. IdsApart(T, M \cup {n})'
  <2>1. \A m \in T \cup M : id'[m] = id[m] /\ m # n
    BY <1>4, <1>7
  <2>2. \A i \in live : i < next_mid /\ i \in Nat
    BY DEF Keeps, IdsApart, TypeOK
  <2>3. \A m \in M : id[m] # next_mid
    BY <1>6, <2>2 DEF Keeps, IdsApart
  <2>4. \A i \in live' : i < next_mid' /\ \E m \in M \cup {n} : id'[m] = i
    <3>1. \A i \in live : i < next_mid + 1
      BY <1>6, <2>2
    <3>2. \A i \in live : \E m \in M : id'[m] = i
      BY <2>1 DEF Keeps, IdsApart
    <3> QED BY <1>2, <1>6, <1>7, <3>1, <3>2
  <2>5. \A m \in M \cup {n} : id'[m] \in live'
    BY <1>2, <1>7, <2>1 DEF Keeps, IdsApart
  <2>6. \A l, m \in M \cup {n} : id'[l] = id'[m] => l = m
    BY <1>7, <2>1, <2>3 DEF Keeps, IdsApart
  <2>7. /\ \A m \in T : id'[m] \in 1 .. next_tid' - 1
        /\ \A l, m \in T : id'[l] = id'[m] => l = m
    BY <1>2, <2>1 DEF Keeps, IdsApart
  <2> QED BY <2>4, <2>5, <2>6, <2>7 DEF IdsApart
<1>11. Alive' = Alive /\ Present' = Present /\ Failed' = Failed /\ \A p \in Alive : Mine(p)' = Mine(p)
  BY <1>2 DEF Alive, Present, Failed, Mine
<1>12. Owners(T)'
  <2>1. \A m \in T : id'[m] = id[m] /\ handle'[m] = handle[m]
    BY <1>4, <1>7
  <2> QED BY <1>2, <1>11, <2>1 DEF Keeps, Owners
<1>13. TidsApart' /\ OneStarts' /\ ClientAt(T)'
  BY <1>2, <1>11 DEF Keeps, TidsApart, OneStarts, ClientAt
<1> QED BY <1>5, <1>8, <1>9, <1>10, <1>12, <1>13 DEF IInv, Keeps

LEMMA MutexDestroyKeepsIInv ==
  ASSUME ThreadAssumption, FirstStays, TypeOK, fault = "none",
         NEW T \in SUBSET Block, NEW M \in SUBSET Block, Keeps(T, M),
         NEW i \in 0 .. MaxMutex, MutexDestroy(i)
  PROVE  IInv'
<1>1. /\ pc = "idle" /\ i \in live /\ id[mutexes] # i
      /\ live' = live \ {i}
      /\ UNCHANGED <<threads, mutexes, next_tid, next_mid, id, detached, handle, args,
                     os, loose, doomed, self, tid, told, pc, cur>>
  BY DEF MutexDestroy, fields, os_vars
<1>2. PICK n : n = _find_mutex_by_id(i)
  OBVIOUS
<1>3. n \in M /\ id[n] = i /\ n # NULL
  <2>1. {m \in Block : id[m] = i} \in SUBSET Block /\ NULL \notin Block
    BY DEF NULL, Block
  <2>2. IsList(next, prev, mutexes, M)
    BY DEF Keeps, Shape
  <2>3. \/ n \in M \cap {m \in Block : id[m] = i}
        \/ n = NULL /\ M \cap {m \in Block : id[m] = i} = {}
    BY <1>2, <2>1, <2>2, FindFinds DEF _find_mutex_by_id
  <2>4. \E m \in M : id[m] = i
    BY <1>1 DEF Keeps, IdsApart
  <2> QED BY <2>1, <2>3, <2>4
<1>4. Remove(n, mutexes) /\ UNCHANGED fault /\ n # mutexes
  BY <1>1, <1>2, <1>3 DEF MutexDestroy
<1>5. /\ IsList(next', prev', mutexes, M \ {n})
      /\ IsList(next', prev', threads, T)
      /\ Linked' /\ next'[n] = NULL
      /\ \A m \in Block \ M : next'[m] = next[m]
  <2>1. Linked /\ M \cap T = {}
    BY DEF TypeOK, Linked, Keeps, Shape
  <2>2. IsList(next, prev, threads, T) /\ IsList(next, prev, mutexes, M)
    BY DEF Keeps, Shape
  <2> QED BY <1>3, <1>4, <2>1, <2>2, RemoveRemoves
<1>6. used' = used \ {n} /\ UNCHANGED made
  BY <1>4 DEF Remove
<1>7. TypeOK'
  <2>1. next' \in [Block -> Block \cup {NULL}] /\ prev' \in [Block -> Block \cup {NULL}]
    BY <1>5 DEF Linked
  <2> QED BY <1>1, <1>4, <1>6, <2>1 DEF TypeOK
<1>8. Shape(T, M \ {n})'
  <2>1. T \cap M = {} /\ T \cup M = used
    BY DEF Keeps, Shape
  <2>2. \A m \in Block \ used' : next'[m] = NULL
    <3>1. \A m \in Block \ used : next'[m] = NULL
      BY <1>5, <2>1 DEF Keeps, Shape
    <3> QED BY <1>5, <1>6, <3>1
  <2> QED BY <1>1, <1>3, <1>5, <1>6, <2>1, <2>2 DEF Shape
<1>9. IdsApart(T, M \ {n})'
  <2>1. \A m \in M \ {n} : id[m] \in live \ {i}
    BY <1>3 DEF Keeps, IdsApart
  <2> QED BY <1>1, <1>3, <2>1 DEF Keeps, IdsApart
<1>10. Alive' = Alive /\ Present' = Present /\ Failed' = Failed /\ \A r \in Pthread : Mine(r)' = Mine(r)
  BY <1>1 DEF Alive, Present, Failed, Mine
<1>11. Owners(T)' /\ TidsApart' /\ OneStarts' /\ ClientAt(T)'
  BY <1>1, <1>10 DEF Keeps, Owners, TidsApart, OneStarts, ClientAt, Alive
<1> QED BY <1>4, <1>7, <1>8, <1>9, <1>11 DEF IInv, Keeps

-----------------------------------------------------------------------------
(* The steps of the threads.                                                 *)

LEMMA StartKeepsIInv ==
  ASSUME ThreadAssumption, TypeOK, fault = "none",
         NEW T \in SUBSET Block, NEW M \in SUBSET Block, Keeps(T, M),
         NEW p \in Pthread, Start(p)
  PROVE  IInv'
<1>1. /\ os[p] = "created"
      /\ self' = [self EXCEPT ![p] = args]
      /\ os' = [os EXCEPT ![p] = "running"]
      /\ UNCHANGED <<threads, mutexes, next_mid, live, next_tid, made, used, id, detached, handle,
                     next, prev, args, loose, doomed, tid, told, pc, cur, fault>>
  BY DEF Start, mutex_vars, pool, fields, list
<1>2. TypeOK'
  BY <1>1 DEF TypeOK
<1>3. /\ os'[p] = "running" /\ self'[p] = args
      /\ \A r \in Pthread \ {p} : os'[r] = os[r] /\ self'[r] = self[r]
  BY <1>1 DEF TypeOK
<1>4. Alive' = Alive /\ Present' = Present /\ Failed' = Failed
  BY <1>1, <1>3 DEF Alive, Present, Failed
<1>5. \A r \in Pthread : Mine(r)' = Mine(r)
  BY <1>1, <1>3 DEF Mine
<1>6. Shape(T, M)' /\ IdsApart(T, M)'
  BY <1>1, ShapeStays DEF Keeps, IdsApart
<1>7. Owners(T)' /\ TidsApart' /\ ClientAt(T)'
  BY <1>1, <1>4, <1>5 DEF Keeps, Owners, TidsApart, ClientAt, Alive
<1>8. OneStarts'
  BY <1>1, <1>3 DEF Keeps, OneStarts
<1> QED BY <1>1, <1>2, <1>6, <1>7, <1>8 DEF IInv, Keeps

LEMMA EndKeepsIInv ==
  ASSUME ThreadAssumption, FirstStays, TypeOK, fault = "none",
         NEW T \in SUBSET Block, NEW M \in SUBSET Block, Keeps(T, M),
         NEW p \in Pthread, End(p)
  PROVE  IInv'
<1>1. /\ os[p] = "running" /\ self[p] # threads /\ Remove(self[p], threads)
      /\ UNCHANGED <<threads, mutexes, next_mid, live, next_tid, id, detached, handle,
                     args, told, pc, cur, fault>>
  BY DEF End, mutex_vars, fields
<1>2. PICK n : n = self[p]
  OBVIOUS
<1>3. p \in Alive /\ p \in Present /\ Mine(p) = n /\ n \in T /\ id[n] = tid[p] /\ handle[n] = p
  BY <1>1, <1>2 DEF Alive, Present, Mine, Keeps, Owners
<1>4. /\ IsList(next', prev', threads, T \ {n})
      /\ IsList(next', prev', mutexes, M)
      /\ Linked' /\ next'[n] = NULL
      /\ \A m \in Block \ T : next'[m] = next[m]
  <2>1. Linked /\ T \cap M = {}
    BY DEF TypeOK, Linked, Keeps, Shape
  <2>2. IsList(next, prev, threads, T) /\ IsList(next, prev, mutexes, M)
    BY DEF Keeps, Shape
  <2>3. Remove(n, threads) /\ n # threads
    BY <1>1, <1>2
  <2> QED BY <1>3, <2>1, <2>2, <2>3, RemoveRemoves
<1>5. used' = used \ {n} /\ UNCHANGED made
  BY <1>1, <1>2 DEF Remove
<1>6. /\ os' \in [Pthread -> {"none", "created", "running", "ended"}]
      /\ loose' \subseteq Pthread /\ doomed' \subseteq Pthread \cup {NULL}
      /\ self' \in [Pthread -> Block \cup {NULL}] /\ tid' \in [Pthread -> ID]
      /\ \/ os'[p] = "none" /\ tid'[p] = 0
         \/ os'[p] = "ended" /\ tid'[p] = tid[p]
      /\ \A r \in Pthread \ {p} : os'[r] = os[r] /\ tid'[r] = tid[r] /\ self'[r] = self[r]
  <2>1. CASE p \in loose
    <3>1. Collect(p)
      BY <2>1 DEF End
    <3> QED BY <3>1, CollectLeaves
  <2>2. CASE p \notin loose
    <3>1. os' = [os EXCEPT ![p] = "ended"] /\ UNCHANGED <<loose, doomed, self, tid>>
      BY <2>2 DEF End
    <3> QED BY <3>1 DEF TypeOK
  <2> QED BY <2>1, <2>2
<1>7. TypeOK'
  <2>1. next' \in [Block -> Block \cup {NULL}] /\ prev' \in [Block -> Block \cup {NULL}]
    BY <1>4 DEF Linked
  <2> QED BY <1>1, <1>5, <1>6, <2>1 DEF TypeOK
<1>8. Shape(T \ {n}, M)'
  <2>1. T \cap M = {} /\ T \cup M = used
    BY DEF Keeps, Shape
  <2>2. \A m \in Block \ used' : next'[m] = NULL
    <3>1. \A m \in Block \ used : next'[m] = NULL
      BY <1>4, <2>1 DEF Keeps, Shape
    <3> QED BY <1>4, <1>5, <3>1
  <2> QED BY <1>1, <1>3, <1>4, <1>5, <2>1, <2>2 DEF Shape
<1>9. IdsApart(T \ {n}, M)'
  BY <1>1 DEF Keeps, IdsApart
<1>10. /\ Alive' = Alive \ {p} /\ Present' \in SUBSET Present /\ Present \ {p} \subseteq Present'
       /\ Failed' = Failed
  BY <1>1, <1>6 DEF Alive, Present, Failed
<1>11. \A r \in Alive \ {p} : Mine(r)' = Mine(r) /\ tid'[r] = tid[r]
  BY <1>1, <1>6 DEF Alive, Mine
<1>12. \A r \in Present' : tid'[r] = tid[r] /\ r \in Pthread
  BY <1>6 DEF Present
<1>13. \A r \in Alive : r \in Present
  BY DEF Alive, Present
<1>14. Owners(T \ {n})'
  <2>1. ASSUME NEW r \in Alive \ {p}
        PROVE  Mine(r)' \in T \ {n} /\ id'[Mine(r)'] = tid'[r] /\ handle'[Mine(r)'] = r
    <3>1. Mine(r) \in T /\ id[Mine(r)] = tid[r] /\ handle[Mine(r)] = r
      BY DEF Keeps, Owners
    <3> QED BY <1>1, <1>3, <1>11, <3>1
  <2>2. ASSUME NEW m \in T \ {n}
        PROVE  \/ \E r \in Alive' : Mine(r)' = m
               \/ told'[id'[m]] = "failed"
               \/ pc' = "create" /\ cur' = m
    <3>1. \/ \E r \in Alive \ {p} : Mine(r) = m
          \/ told[id[m]] = "failed"
          \/ pc = "create" /\ cur = m
      BY <1>3 DEF Keeps, Owners
    <3> QED BY <1>1, <1>10, <1>11, <3>1
  <2>3. ASSUME NEW i \in Failed PROVE \E m \in T \ {n} : id'[m] = i
    <3>1. told[id[n]] # "failed" /\ told[i] = "failed"
      BY <1>3 DEF Keeps, TidsApart, Failed
    <3>2. PICK m \in T : id[m] = i
      BY DEF Keeps, Owners
    <3> QED BY <1>1, <3>1, <3>2
  <2> QED BY <1>10, <2>1, <2>2, <2>3 DEF Owners
<1>15. TidsApart'
  <2>1. \A r \in Pthread \ Present' : tid'[r] = 0
    BY <1>6, <1>10 DEF Keeps, TidsApart, Present
  <2> QED BY <1>1, <1>10, <1>11, <1>12, <2>1 DEF Keeps, TidsApart
<1>16. OneStarts'
  BY <1>1, <1>6 DEF Keeps, OneStarts
<1>17. ClientAt(T \ {n})'
  <2>1. pc = "create" => cur \in T \ {n} /\ \A r \in Present' : tid'[r] # id[cur]
    BY <1>3, <1>10, <1>12 DEF Keeps, ClientAt
  <2>2. pc = "join" => (handle[cur] \in Present' => tid'[handle[cur]] = id[cur])
    BY <1>10, <1>12 DEF Keeps, ClientAt
  <2> QED BY <1>1, <2>1, <2>2 DEF Keeps, ClientAt
<1> QED BY <1>1, <1>7, <1>8, <1>9, <1>14, <1>15, <1>16, <1>17 DEF IInv, Keeps

LEMMA StutterKeepsIInv == IInv /\ UNCHANGED vars => IInv'
<1> SUFFICES ASSUME IInv, UNCHANGED vars PROVE IInv'
  OBVIOUS
<1>1. UNCHANGED <<threads, mutexes, next_mid, live, next_tid, made, used, id, detached, handle,
                  next, prev, args, os, loose, doomed, self, tid, told, pc, cur, fault>>
  BY DEF vars, mutex_vars, pool, fields, list, os_vars
<1>2. PICK T \in SUBSET Block, M \in SUBSET Block : Keeps(T, M)
  BY DEF IInv
<1>3. TypeOK' /\ fault' = "none"
  BY <1>1 DEF IInv, TypeOK
<1>4. Shape(T, M)' /\ IdsApart(T, M)'
  BY <1>1, <1>2, ShapeStays DEF Keeps, IdsApart
<1>5. Alive' = Alive /\ Present' = Present /\ Failed' = Failed /\ \A r \in Pthread : Mine(r)' = Mine(r)
  BY <1>1 DEF Alive, Present, Failed, Mine
<1>6. Owners(T)' /\ TidsApart' /\ OneStarts' /\ ClientAt(T)'
  BY <1>1, <1>2, <1>5 DEF Keeps, Owners, TidsApart, OneStarts, ClientAt, Alive
<1> QED BY <1>3, <1>4, <1>6 DEF IInv, Keeps

LEMMA NextIInv ==
  ASSUME FirstStays, OneStart
  PROVE  IInv /\ [Next]_vars => IInv'
<1> SUFFICES ASSUME IInv, [Next]_vars PROVE IInv'
  OBVIOUS
<1>1. PICK T \in SUBSET Block, M \in SUBSET Block : Keeps(T, M)
  BY DEF IInv
<1>2. TypeOK /\ fault = "none" /\ ThreadAssumption
  BY ThreadAssumption DEF IInv
<1>3. CASE UNCHANGED vars
  BY <1>3, StutterKeepsIInv
<1>4. CASE Client
  <2>1. ASSUME NEW d \in {0, 1}, Register(d) PROVE IInv'
    BY <1>1, <1>2, <2>1, RegisterKeepsIInv
  <2>2. ASSUME NEW p \in Pthread, Create(p) PROVE IInv'
    BY <1>1, <1>2, <2>2, CreateKeepsIInv
  <2>3. CASE CreateFails
    BY <1>1, <1>2, <2>3, CreateFailsKeepsIInv
  <2>4. CASE Return
    BY <1>1, <1>2, <2>4, ReturnKeepsIInv
  <2>5. ASSUME NEW i \in ID, Join(i) PROVE IInv'
    BY <1>1, <1>2, <2>5, JoinKeepsIInv
  <2>6. ASSUME NEW i \in ID, Cancel(i) PROVE IInv'
    BY <1>1, <1>2, <2>6, CancelKeepsIInv
  <2>7. CASE JoinReturns
    BY <1>1, <1>2, <2>7, JoinReturnsKeepsIInv
  <2>8. CASE MutexInit
    BY <1>1, <1>2, <2>8, MutexInitKeepsIInv
  <2>9. ASSUME NEW i \in 0 .. MaxMutex, MutexDestroy(i) PROVE IInv'
    BY <1>1, <1>2, <2>9, MutexDestroyKeepsIInv
  <2> QED BY <1>4, <2>1, <2>2, <2>3, <2>4, <2>5, <2>6, <2>7, <2>8, <2>9 DEF Client
<1>5. CASE \E p \in Pthread : Start(p) \/ End(p)
  BY <1>1, <1>2, <1>5, StartKeepsIInv, EndKeepsIInv
<1> QED BY <1>3, <1>4, <1>5 DEF Next

LEMMA AlwaysIInv ==
  ASSUME FirstStays, OneStart
  PROVE  Spec => []IInv
<1>1. Init => IInv
  BY InitIInv, ThreadAssumption
<1>2. IInv /\ [Next]_vars => IInv'
  BY NextIInv
<1> QED BY <1>1, <1>2, PTL DEF Spec

-----------------------------------------------------------------------------
(* What follows.                                                             *)

\* Structs with different IDs are as many as the IDs.
LEMMA NamesAreMany ==
  ASSUME ThreadAssumption, NEW S \in SUBSET Block, \A n, m \in S : id[n] = id[m] => n = m
  PROVE  \A IDs : {id[n] : n \in S} = IDs => Names(S, IDs)
<1> SUFFICES ASSUME NEW IDs, {id[n] : n \in S} = IDs PROVE Names(S, IDs)
  OBVIOUS
<1>1. IsFiniteSet(Block)
  BY FS_Interval DEF ThreadAssumption, Block
<1>2. IsFiniteSet(S)
  BY <1>1, FS_Subset
<1>3. [n \in S |-> id[n]] \in Bijection(S, IDs)
  BY DEF Bijection, Injection, Surjection, IsInjective
<1>4. ExistsBijection(S, IDs)
  BY <1>3 DEF ExistsBijection
<1>5. Cardinality(S) = Cardinality(IDs)
  BY <1>2, <1>4, FS_Bijection
<1> QED BY <1>5 DEF Names

\* Under the three rules, whatever threads start and end between the client's
\* calls and between the two halves of rune_thread_init, the lists are of the
\* threads that have not ended (and those that could not be created) and of the
\* client's mutexes, one struct for each, no struct is on both, and no block is
\* in use but theirs (thread.c:116-135, 86-93, 182-201).
THEOREM ListsAreExact ==
  ASSUME FirstStays, OneStart
  PROVE  Spec => []RegistryExact
<1>1. IInv => RegistryExact
  <2> SUFFICES ASSUME IInv PROVE RegistryExact
    OBVIOUS
  <2>1. PICK T \in SUBSET Block, M \in SUBSET Block : Keeps(T, M)
    BY DEF IInv
  <2>2. /\ OnList(threads) = T /\ Ends(threads)
        /\ OnList(mutexes) = M /\ Ends(mutexes)
        /\ T \cap M = {} /\ T \cup M = used
    BY <2>1, ListIsWalked, ThreadAssumption DEF Keeps, Shape
  <2>3. \A n \in T : id[n] \in ID
    <3>1. \A n \in T : id[n] \in 1 .. next_tid - 1
      BY <2>1 DEF Keeps, IdsApart
    <3>2. next_tid \in 1 .. MaxID + 1 /\ MaxID \in Nat
      BY ThreadAssumption DEF IInv, TypeOK, ThreadAssumption
    <3> QED BY <3>1, <3>2 DEF ID
  <2>4. ASSUME NEW n \in T PROVE id[n] \in {tid[p] : p \in Alive} \cup Failed \cup BeingMade
    <3>1. CASE \E p \in Alive : Mine(p) = n
      BY <2>1, <3>1 DEF Keeps, Owners
    <3>2. CASE told[id[n]] = "failed"
      BY <2>3, <3>2 DEF Failed
    <3>3. CASE pc = "create" /\ cur = n
      BY <3>3 DEF BeingMade
    <3> QED BY <2>1, <3>1, <3>2, <3>3 DEF Keeps, Owners
  <2>5. ASSUME NEW i \in {tid[p] : p \in Alive} \cup Failed \cup BeingMade
        PROVE  \E n \in T : id[n] = i
    <3>1. CASE i \in {tid[p] : p \in Alive}
      BY <2>1, <3>1 DEF Keeps, Owners
    <3>2. CASE i \in Failed
      BY <2>1, <3>2 DEF Keeps, Owners
    <3>3. CASE i \in BeingMade
      BY <2>1, <3>3 DEF Keeps, ClientAt, BeingMade
    <3> QED BY <3>1, <3>2, <3>3
  <2>6. {id[n] : n \in T} = {tid[p] : p \in Alive} \cup Failed \cup BeingMade
    BY <2>4, <2>5
  <2>7. {id[n] : n \in M} = live
    BY <2>1 DEF Keeps, IdsApart
  <2>8. Names(T, {tid[p] : p \in Alive} \cup Failed \cup BeingMade) /\ Names(M, live)
    BY <2>1, <2>6, <2>7, NamesAreMany, ThreadAssumption DEF Keeps, IdsApart
  <2> QED BY <2>2, <2>8 DEF RegistryExact
<1> QED BY <1>1, AlwaysIInv, PTL

\* A thread runs with, and cleans up, the struct it was created for, though its
\* start_args are freed while it may not have read them: under the three rules
\* nobody takes that block in time (thread.c:94-103, 130).
THEOREM ArgsAreOwn ==
  ASSUME FirstStays, OneStart
  PROVE  Spec => []OwnArgs
<1>1. IInv => OwnArgs
  <2> SUFFICES ASSUME IInv, NEW p \in Pthread, os[p] = "running"
               PROVE  self[p] \in used /\ id[self[p]] = tid[p]
    BY DEF OwnArgs
  <2>1. PICK T \in SUBSET Block, M \in SUBSET Block : Keeps(T, M)
    BY DEF IInv
  <2>2. p \in Alive /\ Mine(p) = self[p]
    BY DEF Alive, Mine
  <2> QED BY <2>1, <2>2 DEF Keeps, Owners, Shape
<1> QED BY <1>1, AlwaysIInv, PTL

\* Under the three rules a thread that asks is told its own ID, unless a thread
\* that could not be created left a stale handle on the list (thread.c:167-173).
\* It need not be when another thread unlinks the struct its walk stands on.
THEOREM AskersFindThemselves ==
  ASSUME FirstStays, OneStart
  PROVE  Spec => []SelfIsMine
<1>1. IInv => SelfIsMine
  <2> SUFFICES ASSUME IInv, NEW p \in Pthread, os[p] = "running",
                      NEW n, n = _find_thread_by_handle(p)
               PROVE  n # NULL /\ (id[n] = tid[p] \/ id[n] \in Failed \cup BeingMade)
    BY DEF SelfIsMine
  <2>1. PICK T \in SUBSET Block, M \in SUBSET Block : Keeps(T, M)
    BY DEF IInv
  <2>2. p \in Alive /\ Mine(p) \in T /\ handle[Mine(p)] = p
    BY <2>1 DEF Alive, Keeps, Owners
  <2>3. n \in T /\ handle[n] = p
    <3>1. {m \in Block : handle[m] = p} \in SUBSET Block
      OBVIOUS
    <3>2. \/ n \in T \cap {m \in Block : handle[m] = p}
          \/ T \cap {m \in Block : handle[m] = p} = {}
      BY <2>1, <3>1, FindFinds, ThreadAssumption DEF Keeps, Shape, _find_thread_by_handle
    <3> QED BY <2>2, <3>2
  <2>4. n # NULL
    BY <2>3 DEF NULL, Block
  <2>5. id[n] \in ID
    <3>1. id[n] \in 1 .. next_tid - 1
      BY <2>1, <2>3 DEF Keeps, IdsApart
    <3>2. next_tid \in 1 .. MaxID + 1 /\ MaxID \in Nat
      BY ThreadAssumption DEF IInv, TypeOK, ThreadAssumption
    <3> QED BY <3>1, <3>2 DEF ID
  <2>6. CASE \E r \in Alive : Mine(r) = n
    BY <2>1, <2>3, <2>4, <2>6 DEF Keeps, Owners
  <2>7. CASE told[id[n]] = "failed"
    BY <2>4, <2>5, <2>7 DEF Failed
  <2>8. CASE pc = "create" /\ cur = n
    BY <2>4, <2>8 DEF BeingMade
  <2> QED BY <2>1, <2>3, <2>4, <2>6, <2>7, <2>8 DEF Keeps, Owners
<1>2. Spec => []IInv
  BY AlwaysIInv
<1> QED BY <1>1, <1>2, PTL

\* Under the three rules a thread that rune_thread_join has reported joined runs
\* no more, also when it was not found on the list (thread.c:154-165).  It may
\* run on when an end overlaps the walk of the join (JoinedHasEnded).
THEOREM JoinsWait ==
  ASSUME FirstStays, OneStart
  PROVE  Spec => []JoinWaits
<1>1. IInv => JoinWaits
  BY DEF IInv, Keeps, TidsApart, JoinWaits
<1> QED BY <1>1, AlwaysIInv, PTL

\* Under the three rules the state is of the declared types, no walk of a list
\* runs in a ring, and no null mutex is destroyed (thread.c:195-201,
\* list.h:40-48).
THEOREM ThreadTypes ==
  ASSUME FirstStays, OneStart
  PROVE  Spec => [](TypeOK /\ fault = "none")
<1>1. IInv => TypeOK /\ fault = "none"
  BY DEF IInv
<1> QED BY <1>1, AlwaysIInv, PTL

=============================================================================
