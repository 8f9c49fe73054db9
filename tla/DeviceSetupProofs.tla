-------------------------- MODULE DeviceSetupProofs --------------------------
(***************************************************************************)
(* What holds of DeviceSetup for every machine, however many devices,      *)
(* queue families and images it has.                                       *)
(*                                                                         *)
(* The family numbers of device.c are kept from one device to the next, so *)
(* whose family a number is needs more than what the last check found: of  *)
(* all discrete GPUs checked so far, it is the last one's that could do    *)
(* what the number is for (Left).                                          *)
(***************************************************************************)
EXTENDS DeviceSetup, NumberFacts

Fams(i) == pdevs[i].fams

\* Device i has no family with some capability.
Lacks(i) == \E c \in Cap : Able(i, c) = {}

\* The number for c is that of a family of device i, and no device after it up
\* to n has one.
LeftBy(i, n, c) ==
  /\ i <= n /\ qfam[c] + 1 \in Able(i, c)
  /\ \A j \in Discrete : i < j /\ j <= n => Able(j, c) = {}

\* What the checks of the devices up to n have left.
Left(n, c) ==
  \/ qfam[c] = -1 /\ \A j \in Discrete : j <= n => Able(j, c) = {}
  \/ \E i \in Discrete : LeftBy(i, n, c)

Chosen == pc \in {"create", "swapchain", "done"}

Types ==
  /\ pdevs \in SeqOf(Device, MaxDevices)
  /\ qfam \in [Cap -> -1 .. MaxFamilies - 1]
  /\ at \in 1 .. MaxDevices + 1
  /\ pdev \in 0 .. MaxDevices
  /\ pc \in {"select", "create", "swapchain", "done", "aborted"}

\* No device that was passed over has everything.
PassedOver ==
  /\ ~ Chosen => pdev = 0 /\ \A i \in Discrete : i < at => Lacks(i)
  /\ pc = "aborted" => at > Len(pdevs)

\* The numbers are left by the devices checked, and the one chosen leaves none
\* out.
Stale ==
  /\ pc = "select" => \A c \in Cap : Left(at - 1, c)
  /\ pc = "create" => \A c \in Cap : Left(pdev, c) /\ qfam[c] # -1

\* What create_vkdev asked for and fetched.
Created ==
  IF pc \in {"swapchain", "done"}
  THEN /\ asked = [k \in Kind |-> Asked(k)]
       /\ queues = [k \in Kind |-> <<qfam[k], 0>>]
       /\ pres_queue = PresQueue
  ELSE asked = [k \in Kind |-> 0] /\ pres_queue = NONE

Fitted ==
  IF pc = "done"
  THEN /\ surface \in Surface
       /\ img_count = ImageCount(surface)
       /\ mem_type = get_memory_index(surface, DEVICE_LOCAL)
  ELSE img_count = 0 /\ mem_type = -1

IInv == Types /\ PassedOver /\ Stale /\ Created /\ Fitted

-----------------------------------------------------------------------------
(* What a check finds.                                                       *)

\* The families of device i are numbered from one in the model.
LEMMA FamsAre ==
  ASSUME SetupAssumption, Types, NEW i \in DOMAIN pdevs
  PROVE  \E n \in 0 .. MaxFamilies : DOMAIN Fams(i) = 1 .. n
<1>1. PICK m \in 0 .. MaxDevices : pdevs \in [1 .. m -> Device]
  BY DEF Types, SeqOf
<1>2. pdevs[i] \in Device
  BY <1>1
<1>3. Fams(i) \in SeqOf(SUBSET Cap, MaxFamilies) \/ Fams(i) = <<>>
  BY <1>2 DEF Device, Fams
<1>4. CASE Fams(i) = <<>>
  BY <1>4 DEF SetupAssumption
<1> QED BY <1>3, <1>4 DEF SeqOf

LEMMA PdevsAre ==
  ASSUME SetupAssumption, Types
  PROVE  Len(pdevs) \in 0 .. MaxDevices /\ DOMAIN pdevs = 1 .. Len(pdevs)
<1>1. PICK m \in 0 .. MaxDevices : pdevs \in [1 .. m -> Device]
  BY DEF Types, SeqOf
<1>2. pdevs \in Seq(Device)
  BY <1>1 DEF SetupAssumption
<1> QED BY <1>1, <1>2 DEF SetupAssumption

\* What a check finds is the number of a family with the capability, or what was
\* there before.
LEMMA QueryFinds ==
  ASSUME SetupAssumption, Types, NEW i \in DOMAIN pdevs, NEW c \in Cap
  PROVE  \/ /\ Query(Fams(i), c) \in 0 .. MaxFamilies - 1
            /\ Query(Fams(i), c) + 1 \in Able(i, c)
         \/ /\ Query(Fams(i), c) = qfam[c]
            /\ Able(i, c) = {}
<1> DEFINE with == {f \in DOMAIN Fams(i) : c \in Fams(i)[f]}
<1>1. PICK n \in 0 .. MaxFamilies : DOMAIN Fams(i) = 1 .. n
  BY FamsAre
<1>0. Able(i, c) = with
  BY DEF Able, Fams
<1>2. CASE with = {}
  BY <1>0, <1>2 DEF Query
<1>3. CASE with # {}
  <2>1. n \in Nat /\ MaxFamilies \in Nat /\ with \in SUBSET (0 .. n)
    BY <1>1 DEF SetupAssumption
  <2>2. Max(with) \in with
    BY <1>3, <2>1, MaxIsLast
  <2>3. Query(Fams(i), c) = Max(with) - 1
    BY <1>3 DEF Query
  <2>4. Query(Fams(i), c) + 1 = Max(with) /\ Max(with) \in 1 .. n
    BY <1>1, <2>1, <2>2, <2>3
  <2> QED BY <1>0, <2>1, <2>2, <2>3, <2>4
<1> QED BY <1>2, <1>3

LEMMA FourCaps == IsFiniteSet(Cap) /\ Cardinality(Cap) = 4
<1>1. IsFiniteSet({"graphics"}) /\ Cardinality({"graphics"}) = 1
  BY FS_Singleton
<1>2. IsFiniteSet({"graphics", "transfer"}) /\ Cardinality({"graphics", "transfer"}) = 2
  <2>1. {"graphics", "transfer"} = {"graphics"} \cup {"transfer"}
    OBVIOUS
  <2> QED BY <1>1, <2>1, FS_AddElement
<1>3. IsFiniteSet(Kind) /\ Cardinality(Kind) = 3
  <2>1. Kind = {"graphics", "transfer"} \cup {"compute"}
    BY DEF Kind
  <2> QED BY <1>2, <2>1, FS_AddElement
<1>4. "present" \notin Kind
  BY DEF Kind
<1> QED BY <1>3, <1>4, FS_AddElement DEF Cap

\* A device scores 80 if and only if it has all four.
LEMMA ScoreNeedsAll ==
  ASSUME NEW found \in [Cap -> Int]
  PROVE  score(found) >= 80 <=> \A c \in Cap : found[c] # -1
<1> DEFINE S == {c \in Cap : found[c] # -1}
<1>1. S \in SUBSET Cap /\ IsFiniteSet(S) /\ Cardinality(S) <= 4 /\ Cardinality(S) \in Nat
  BY FourCaps, FS_Subset, FS_CardinalityType
<1>2. score(found) = 20 * Cardinality(S)
  BY DEF score
<1>3. Cardinality(S) = 4 <=> S = Cap
  BY <1>1, FourCaps, FS_Subset
<1>4. score(found) >= 80 <=> Cardinality(S) = 4
  BY <1>1, <1>2
<1> QED BY <1>3, <1>4

-----------------------------------------------------------------------------
(* The steps.                                                                *)

LEMMA InitIInv ==
  ASSUME SetupAssumption
  PROVE  Init => IInv
<1> SUFFICES ASSUME Init PROVE IInv
  OBVIOUS
<1>1. Types
  <2>1. pdevs \in SeqOf(Device, MaxDevices) /\ at = 1 /\ pdev = 0 /\ pc = "select"
    BY DEF Init
  <2>2. qfam \in [Cap -> -1 .. MaxFamilies - 1]
    BY DEF Init, SetupAssumption
  <2> QED BY <2>1, <2>2 DEF Types, SetupAssumption
<1>2. PassedOver
  BY <1>1, PdevsAre DEF Init, PassedOver, Chosen, Discrete
<1>3. Stale
  <2>1. pc = "select" /\ at = 1 /\ \A c \in Cap : qfam[c] = -1
    BY DEF Init
  <2>2. \A j \in Discrete : ~ (j <= 0)
    BY <1>1, PdevsAre DEF Discrete
  <2> QED BY <2>1, <2>2 DEF Stale, Left
<1>4. Created /\ Fitted
  BY DEF Init, Created, Fitted
<1> QED BY <1>1, <1>2, <1>3, <1>4 DEF IInv

\* The device that is checked next.
LEMMA CheckKeepsIInv ==
  ASSUME SetupAssumption, IInv, CheckPdev
  PROVE  IInv'
<1> DEFINE found == [c \in Cap |-> Query(Fams(at), c)]
           good == pdevs[at].discrete /\ score(found) >= 80
<1>1. /\ Types /\ pc = "select" /\ pdevs' = pdevs /\ at \in DOMAIN pdevs
      /\ UNCHANGED <<asked, queues, pres_queue, surface, img_count, mem_type>>
  BY PdevsAre DEF IInv, Types, CheckPdev, SetupAssumption
<1>2. /\ qfam' = IF pdevs[at].discrete THEN found ELSE qfam
      /\ good => pdev' = at /\ at' = at /\ pc' = "create"
      /\ ~ good => pdev' = 0 /\ at' = at + 1 /\ pc' = "select"
  BY DEF CheckPdev, Fams
<1>3. found \in [Cap -> -1 .. MaxFamilies - 1]
  <2>1. \A c \in Cap : qfam[c] \in -1 .. MaxFamilies - 1
    BY <1>1 DEF Types
  <2>2. \A c \in Cap : Query(Fams(at), c) \in -1 .. MaxFamilies - 1
    BY <1>1, <2>1, QueryFinds DEF SetupAssumption
  <2> QED BY <2>2
<1>4. score(found) >= 80 <=> \A c \in Cap : found[c] # -1
  <2>1. found \in [Cap -> Int]
    BY <1>3 DEF SetupAssumption
  <2> HIDE DEF found
  <2> QED BY <2>1, ScoreNeedsAll
<1>5. Types'
  <2>1. qfam' \in [Cap -> -1 .. MaxFamilies - 1]
    BY <1>1, <1>2, <1>3 DEF Types
  <2>2. at' \in 1 .. MaxDevices + 1 /\ pdev' \in 0 .. MaxDevices /\ pc' \in {"select", "create"}
    <3>1. MaxDevices \in Nat /\ at \in 1 .. MaxDevices
      <4>1. Len(pdevs) \in 0 .. MaxDevices /\ at \in 1 .. Len(pdevs) /\ MaxDevices \in Nat
        BY <1>1, PdevsAre DEF SetupAssumption
      <4> QED BY <4>1
    <3> HIDE DEF good
    <3> QED BY <1>2, <3>1
  <2> QED BY <1>1, <2>1, <2>2 DEF Types
<1>6. \A i, c : Able(i, c)' = Able(i, c)
  BY <1>1 DEF Able
<1>7. Discrete' = Discrete /\ \A i : Lacks(i)' <=> Lacks(i)
  BY <1>1, <1>6 DEF Discrete, Lacks
<1>8. PassedOver'
  <2>1. CASE good
    BY <1>2, <2>1 DEF PassedOver, Chosen
  <2>2. CASE ~ good
    <3>1. at \in Discrete => Lacks(at)
      <4> SUFFICES ASSUME at \in Discrete PROVE Lacks(at)
        OBVIOUS
      <4>1. PICK c \in Cap : found[c] = -1
        BY <1>4, <2>2 DEF Discrete
      <4>2. Query(Fams(at), c) = -1
        BY <4>1
      <4>3. Able(at, c) = {}
        BY <1>1, <4>2, QueryFinds DEF SetupAssumption
      <4> QED BY <4>3 DEF Lacks
    <3>2. \A i \in Discrete : i \in Int /\ (i < at => Lacks(i))
      BY <1>1, PdevsAre DEF IInv, PassedOver, Chosen, Discrete
    <3>3. \A i \in Discrete : i < at + 1 => Lacks(i)
      BY <1>1, <3>1, <3>2 DEF Types
    <3> QED BY <1>2, <1>7, <2>2, <3>3 DEF PassedOver, Chosen
  <2> QED BY <2>1, <2>2
<1>9. Stale'
  <2>0. PICK n \in Int : n = at
    BY <1>1 DEF Types, SetupAssumption
  <2>1. ASSUME NEW c \in Cap
        PROVE  Left(n, c)'
    <3>1. Left(n - 1, c) /\ \A j \in Discrete : j \in Int
      BY <1>1, <2>0, PdevsAre DEF IInv, Stale, Discrete
    <3>2. \A j \in Discrete : j <= n <=> (j <= n - 1 \/ j = n)
      BY <2>0, <3>1
    <3>3. CASE n \in Discrete /\ Able(n, c) # {}
      <4>1. qfam'[c] + 1 \in Able(n, c)
        <5>1. Query(Fams(at), c) + 1 \in Able(at, c) /\ qfam'[c] = Query(Fams(at), c)
          BY <1>1, <1>2, <2>0, <3>3, QueryFinds DEF Discrete
        <5> QED BY <2>0, <5>1
      <4>2. \A j \in Discrete : ~ (n < j /\ j <= n)
        BY <2>0, <3>1
      <4>3. LeftBy(n, n, c)'
        BY <1>6, <1>7, <2>0, <4>1, <4>2 DEF LeftBy
      <4> QED BY <1>7, <3>3, <4>3 DEF Left
    <3>4. CASE ~ (n \in Discrete /\ Able(n, c) # {})
      <4>1. qfam'[c] = qfam[c]
        <5>1. CASE at \notin Discrete
          BY <1>1, <1>2, <5>1 DEF Discrete
        <5>2. CASE at \in Discrete /\ Able(at, c) = {}
          <6>1. Query(Fams(at), c) = qfam[c] /\ qfam'[c] = Query(Fams(at), c)
            BY <1>1, <1>2, <5>2, QueryFinds DEF Discrete
          <6> QED BY <6>1
        <5> QED BY <2>0, <3>4, <5>1, <5>2
      <4>2. CASE qfam[c] = -1 /\ \A j \in Discrete : j <= n - 1 => Able(j, c) = {}
        <5>1. qfam'[c] = -1 /\ \A j \in Discrete : j <= n => Able(j, c) = {}
          BY <3>2, <3>4, <4>1, <4>2
        <5> QED BY <1>6, <1>7, <5>1 DEF Left
      <4>3. ASSUME NEW i \in Discrete, LeftBy(i, n - 1, c)
            PROVE  LeftBy(i, n, c)'
        <5>1. i <= n /\ qfam'[c] + 1 \in Able(i, c)
          BY <3>2, <4>1, <4>3 DEF LeftBy
        <5>2. \A j \in Discrete : i < j /\ j <= n => Able(j, c) = {}
          BY <3>2, <3>4, <4>3 DEF LeftBy
        <5> QED BY <1>6, <1>7, <5>1, <5>2 DEF LeftBy
      <4> QED BY <1>7, <3>1, <4>2, <4>3 DEF Left
    <3> QED BY <3>3, <3>4
  <2>2. CASE good
    <3>1. pc' = "create" /\ pdev' = n
      BY <1>2, <2>0, <2>2
    <3>2. \A c \in Cap : qfam'[c] # -1
      BY <1>2, <1>4, <2>2
    <3>3. \A c \in Cap : Left(pdev, c)'
      BY <2>1, <3>1 DEF Left, LeftBy
    <3> QED BY <3>1, <3>2, <3>3 DEF Stale
  <2>3. CASE ~ good
    <3>1. pc' = "select" /\ at' - 1 = n
      <4> HIDE DEF good
      <4> QED BY <1>2, <2>0, <2>3
    <3>2. \A c \in Cap : Left(at - 1, c)'
      BY <2>1, <3>1 DEF Left, LeftBy
    <3> QED BY <3>1, <3>2 DEF Stale
  <2> QED BY <2>2, <2>3
<1>10. Created' /\ Fitted'
  BY <1>1, <1>2 DEF IInv, Created, Fitted
<1> QED BY <1>5, <1>8, <1>9, <1>10 DEF IInv

LEMMA RestKeepsIInv ==
  ASSUME IInv, NoDevice \/ CreateVkdev \/ CreateSwapchain
  PROVE  IInv'
<1>1. /\ UNCHANGED <<qfam, at, pdev>>
      /\ pdevs' = pdevs \/ (pdevs' = <<>> /\ pc' = "swapchain")
      /\ pc' \in {"aborted", "swapchain", "done"}
      /\ pc' = "aborted" <=> pc = "select"
      /\ pc' = "aborted" => at > Len(pdevs)
      /\ pc \in {"select", "create", "swapchain"}
  BY DEF NoDevice, CreateVkdev, CreateSwapchain
<1>2. Types'
  <2>1. <<>> \in SeqOf(Device, MaxDevices)
    BY SetupAssumption DEF SeqOf, SetupAssumption
  <2> QED BY <1>1, <2>1 DEF IInv, Types
<1>3. pdevs' = pdevs => Discrete' = Discrete /\ \A i : Lacks(i)' <=> Lacks(i)
  BY DEF Discrete, Lacks, Able
<1>4. PassedOver' /\ Stale'
  <2>1. CASE pc' = "aborted"
    BY <1>1, <1>3, <2>1 DEF IInv, PassedOver, Chosen, Stale
  <2>2. CASE pc' # "aborted"
    BY <1>1, <2>2 DEF PassedOver, Chosen, Stale
  <2> QED BY <2>1, <2>2
<1>5. Created'
  <2>1. CASE NoDevice
    BY <2>1 DEF NoDevice, IInv, Created
  <2>2. CASE CreateVkdev
    <3>1. pc' = "swapchain" /\ qfam' = qfam
      BY <2>2 DEF CreateVkdev
    <3>2. Presenting' = Presenting /\ PresQueue' = PresQueue /\ \A k \in Kind : Asked(k)' = Asked(k)
      BY <3>1 DEF Presenting, PresQueue, Asked
    <3> QED BY <2>2, <3>1, <3>2 DEF CreateVkdev, Created
  <2>3. CASE CreateSwapchain
    <3>1. pc = "swapchain" /\ pc' = "done" /\ UNCHANGED <<qfam, asked, queues, pres_queue>>
      BY <2>3 DEF CreateSwapchain
    <3>2. Presenting' = Presenting /\ PresQueue' = PresQueue /\ \A k \in Kind : Asked(k)' = Asked(k)
      BY <3>1 DEF Presenting, PresQueue, Asked
    <3> QED BY <3>1, <3>2 DEF IInv, Created
  <2> QED BY <2>1, <2>2, <2>3
<1>6. Fitted'
  BY DEF IInv, Fitted, NoDevice, CreateVkdev, CreateSwapchain
<1> QED BY <1>2, <1>4, <1>5, <1>6 DEF IInv

LEMMA StutterKeepsIInv == IInv /\ UNCHANGED vars => IInv'
<1> SUFFICES ASSUME IInv, UNCHANGED vars PROVE IInv'
  OBVIOUS
<1>1. UNCHANGED <<pdevs, qfam, at, pdev, asked, queues, pres_queue, surface, img_count, mem_type, pc>>
  BY DEF vars
<1>2. Types' /\ PassedOver' /\ Stale'
  BY <1>1 DEF IInv, Types, PassedOver, Stale, Left, LeftBy, Discrete, Lacks, Able, Chosen
<1>3. Presenting' = Presenting /\ PresQueue' = PresQueue /\ \A k \in Kind : Asked(k)' = Asked(k)
  BY <1>1 DEF Presenting, PresQueue, Asked
<1>4. Created' /\ Fitted'
  BY <1>1, <1>3 DEF IInv, Created, Fitted
<1> QED BY <1>2, <1>4 DEF IInv

LEMMA AlwaysIInv == Spec => []IInv
<1>1. Init => IInv
  BY InitIInv, SetupAssumption
<1>2. IInv /\ [Next]_vars => IInv'
  BY CheckKeepsIInv, RestKeepsIInv, StutterKeepsIInv, SetupAssumption DEF Next
<1> QED BY <1>1, <1>2, PTL DEF Spec

-----------------------------------------------------------------------------
(* What follows.                                                             *)

\* On every machine, what a family of the chosen device can do is done with one
\* of its own that can; the number for what it cannot do is that of the last
\* discrete GPU before it that could, in static variables nothing resets
\* (device.c:27-30, 54-124).
THEOREM FamiliesAreLeft == Spec => []FamiliesOfLastAble
<1>1. IInv => FamiliesOfLastAble
  <2> SUFFICES ASSUME IInv, pc = "create", NEW c \in Cap
               PROVE  \E i \in Discrete : LeftBy(i, pdev, c)
    BY DEF FamiliesOfLastAble, LeftBy
  <2> QED BY DEF IInv, Stale, Left
<1> QED BY <1>1, AlwaysIInv, PTL

\* On every machine, the engine gives up only if no discrete GPU can do
\* everything (device.c:88-125, 169-172).
THEOREM NoDeviceIsMissed == Spec => []NoneMissed
<1>1. IInv => NoneMissed
  <2> SUFFICES ASSUME IInv, pc = "aborted", NEW i \in Discrete PROVE Lacks(i)
    BY DEF NoneMissed, Lacks
  <2>1. i < at
    BY SetupAssumption, PdevsAre DEF IInv, Types, PassedOver, Discrete
  <2> QED BY <2>1 DEF IInv, PassedOver, Chosen
<1> QED BY <1>1, AlwaysIInv, PTL

\* A queue that is fetched was asked for, and presentations go to a queue whose
\* family can present, whatever families the kinds share (device.c:198-248).
THEOREM QueuesAreThere == Spec => []QueuesExist
<1>1. IInv => QueuesExist
  <2> SUFFICES ASSUME IInv, pc \in {"swapchain", "done"} PROVE QueuesExist
    BY DEF QueuesExist
  <2>1. /\ asked = [k \in Kind |-> Asked(k)]
        /\ queues = [k \in Kind |-> <<qfam[k], 0>>]
        /\ pres_queue = PresQueue
    BY DEF IInv, Created
  <2>2. \A k \in Kind : Asked(k) \in {1, 2}
    BY DEF Asked
  <2>3. \A k \in Kind : queues[k][1] = qfam[k] /\ asked[k] > queues[k][2]
    BY <2>1, <2>2
  <2>4. PresQueue # NONE => PresQueue \in Kind /\ qfam[PresQueue] = qfam["present"]
    <3>1. 1 \in Presenting => qfam["graphics"] = qfam["present"]
      BY DEF Presenting, Order
    <3>2. 2 \in Presenting => qfam["transfer"] = qfam["present"]
      BY DEF Presenting, Order
    <3> QED BY <3>1, <3>2 DEF PresQueue, Kind
  <2> QED BY <2>1, <2>3, <2>4 DEF QueuesExist
<1> QED BY <1>1, AlwaysIInv, PTL

\* The swapchain is asked for a number of images the surface allows, and the
\* depth image gets memory of a type it can have, for every surface
\* (swapchain.c:44-46, device.c:307-320, image.c:67-77).
THEOREM SwapchainIsAllowed == Spec => []SwapchainFits
<1>1. IInv => SwapchainFits
  <2> SUFFICES ASSUME IInv, pc = "done" PROVE SwapchainFits
    BY DEF SwapchainFits
  <2>1. surface \in Surface /\ img_count = ImageCount(surface)
        /\ mem_type = get_memory_index(surface, DEVICE_LOCAL)
    BY DEF IInv, Fitted
  <2>2. /\ surface.min \in Nat /\ surface.max \in Nat
        /\ surface.max = 0 \/ surface.max >= surface.min
    BY <2>1, SetupAssumption DEF Surface
  <2>3. img_count >= surface.min /\ (surface.max > 0 => img_count <= surface.max)
    BY <2>1, <2>2 DEF ImageCount
  <2>4. mem_type # -1 => mem_type \in surface.type /\ DEVICE_LOCAL \subseteq surface.props[mem_type]
    <3> DEFINE fit == {i \in MemTypes : i \in surface.type \cap surface.props[i] \cap DEVICE_LOCAL}
    <3> SUFFICES ASSUME fit # {}
                 PROVE  Min(fit) \in surface.type /\ DEVICE_LOCAL \subseteq surface.props[Min(fit)]
      BY <2>1 DEF get_memory_index
    <3>1. fit \in SUBSET (0 .. 1)
      BY DEF MemTypes
    <3>2. Min(fit) \in fit
      <4> HIDE DEF fit
      <4> QED BY <3>1, MinIsLeast
    <3> QED BY <3>2 DEF DEVICE_LOCAL
  <2> QED BY <2>3, <2>4 DEF SwapchainFits
<1> QED BY <1>1, AlwaysIInv, PTL

\* The state is of the declared types: a family number is that of a family in
\* the bounds or -1, on every machine (device.c:27-30, 54-86).
THEOREM SetupTypes == Spec => []TypeOK
<1>1. IInv => TypeOK
  <2> SUFFICES ASSUME IInv PROVE TypeOK
    OBVIOUS
  <2>1. Types
    BY DEF IInv
  <2>2. asked \in [Kind -> 0 .. 2]
    <3>1. \A k \in Kind : Asked(k) \in 0 .. 2
      BY DEF Asked
    <3> QED BY <3>1 DEF IInv, Created
  <2>3. pres_queue \in Kind \cup {NONE}
    BY DEF IInv, Created, PresQueue, Kind
  <2>4. img_count \in 0 .. MaxImages + 1
    <3>1. pc = "done" => /\ surface.min \in 1 .. MaxImages /\ surface.max \in 0 .. MaxImages
                         /\ img_count = ImageCount(surface)
      BY DEF IInv, Fitted, Surface
    <3>2. MaxImages \in Nat
      BY SetupAssumption
    <3> QED BY <3>1, <3>2 DEF IInv, Fitted, ImageCount
  <2>5. mem_type \in MemTypes \cup {-1}
    <3> DEFINE fit == {i \in MemTypes : i \in surface.type \cap surface.props[i] \cap DEVICE_LOCAL}
    <3>1. fit # {} => Min(fit) \in fit
      <4>1. fit \in SUBSET (0 .. 1)
        BY DEF MemTypes
      <4> HIDE DEF fit
      <4> QED BY <4>1, MinIsLeast
    <3>2. get_memory_index(surface, DEVICE_LOCAL) \in MemTypes \cup {-1}
      BY <3>1 DEF get_memory_index
    <3> QED BY <3>2 DEF IInv, Fitted
  <2> QED BY <2>1, <2>2, <2>3, <2>4, <2>5 DEF Types, TypeOK
<1> QED BY <1>1, AlwaysIInv, PTL

=============================================================================
