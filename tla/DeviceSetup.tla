----------------------------- MODULE DeviceSetup -----------------------------
(***************************************************************************)
(* How the Vulkan renderer comes by its device, queues, swapchain images   *)
(* and memory: create_vkdev and get_memory_index of                        *)
(* engine/render/vulkan/device.c and create_swapchain of swapchain.c, with *)
(* the arguments of renderer.c:125-136, for every machine in the bounds.   *)
(*                                                                         *)
(* The queue families found are static variables of device.c: what the     *)
(* check of one device found is still there when the next is checked.      *)
(*                                                                         *)
(* External: what Vulkan reports of the machine.  A Vulkan call that fails *)
(* ends the process (vkassert.h:61-66) and is left out, as are formats.    *)
(***************************************************************************)
EXTENDS Integers, Sequences, SequencesExt, FiniteSetsExt

CONSTANTS
  MaxDevices,    \* bound: the physical devices of the machine
  MaxFamilies,   \* bound: the queue families of a device
  MaxImages      \* bound: the image counts a surface asks for

ASSUME SetupAssumption ==
  MaxDevices \in Nat /\ MaxFamilies \in Nat /\ MaxImages \in Nat \ {0}

VARIABLES
  pdevs,       \* the machine's physical devices, while the choice is made
  qfam,        \* gfx_qfam, tsfr_qfam, comp_qfam and pres_qfam
  at,          \* the device _select_pdev is at
  pdev,        \* the device it chose, 0 for none
  asked,       \* asked[k]: how many queues create_vkdev asks for with qcinfos[k]
  queues,      \* queues[k]: the family and index of the queue fetched for k
  pres_queue,  \* the kind of queue presentations go to, NONE for a null pointer
  surface,     \* what the surface, the depth image and the memory allow
  img_count,   \* the number of swapchain images asked for
  mem_type,    \* the memory type of the depth image
  pc

vars == <<pdevs, qfam, at, pdev, asked, queues, pres_queue, surface, img_count,
          mem_type, pc>>

Kind == {"graphics", "transfer", "compute"}
Cap == Kind \cup {"present"}
NONE == "none"

\* A device that is no discrete GPU is not looked at any further.
Device == [discrete : {TRUE}, fams : SeqOf(SUBSET Cap, MaxFamilies)]
            \cup [discrete : {FALSE}, fams : {<<>>}]

Discrete == {i \in DOMAIN pdevs : pdevs[i].discrete}

\* VK_MEMORY_PROPERTY_DEVICE_LOCAL_BIT is bit 0.
DEVICE_LOCAL == {0}
MemTypes == 0..1
Surface ==
  {s \in [min : 1..MaxImages, max : 0..MaxImages,
          type : SUBSET MemTypes, props : [MemTypes -> SUBSET {0, 1}]] :
     s.max = 0 \/ s.max >= s.min}

Init ==
  /\ pdevs \in SeqOf(Device, MaxDevices)
  /\ qfam = [c \in Cap |-> -1]
  /\ at = 1 /\ pdev = 0
  /\ asked = [k \in Kind |-> 0]
  /\ queues = [k \in Kind |-> <<>>]
  /\ pres_queue = NONE
  /\ surface = <<>> /\ img_count = 0 /\ mem_type = -1
  /\ pc = "select"

-----------------------------------------------------------------------------
(* _select_pdev.                                                             *)

\* Mutant of Query: a family found before is kept.
QueryKeepsFirst(fams, c) ==
  LET with == {i \in DOMAIN fams : c \in fams[i]}
  IN  IF with = {} \/ qfam[c] # -1 THEN qfam[c] ELSE Max(with) - 1

\* Mutant of Query: families are counted from one.
QueryFromOne(fams, c) ==
  LET with == {i \in DOMAIN fams : c \in fams[i]}
  IN  IF with = {} THEN qfam[c] ELSE Max(with)

\* The last family with the capability; when there is none, what is there
\* already.  Families are counted from 0.
Query(fams, c) ==
  LET with == {i \in DOMAIN fams : c \in fams[i]}
  IN  IF with = {} THEN qfam[c] ELSE Max(with) - 1

score(found) == 20 * Cardinality({c \in Cap : found[c] # -1})

\* Mutant of CheckPdev: a device that does not do ends the selection.
CheckPdevOnce ==
  /\ pc = "select" /\ at <= Len(pdevs)
  /\ LET found == [c \in Cap |-> Query(pdevs[at].fams, c)]
         good == pdevs[at].discrete /\ score(found) >= 80
     IN  /\ qfam' = IF pdevs[at].discrete THEN found ELSE qfam
         /\ pdev' = IF good THEN at ELSE 0
         /\ at' = IF good THEN at ELSE Len(pdevs) + 1
         /\ pc' = IF good THEN "create" ELSE "select"
  /\ UNCHANGED <<pdevs, asked, queues, pres_queue, surface, img_count, mem_type>>

\* _check_pdev of the next device.
CheckPdev ==
  /\ pc = "select" /\ at <= Len(pdevs)
  /\ LET found == [c \in Cap |-> Query(pdevs[at].fams, c)]
         good == pdevs[at].discrete /\ score(found) >= 80
     IN  /\ qfam' = IF pdevs[at].discrete THEN found ELSE qfam
         /\ pdev' = IF good THEN at ELSE 0
         /\ at' = IF good THEN at ELSE at + 1
         /\ pc' = IF good THEN "create" ELSE "select"
  /\ UNCHANGED <<pdevs, asked, queues, pres_queue, surface, img_count, mem_type>>

NoDevice ==
  /\ pc = "select" /\ at > Len(pdevs)
  /\ pc' = "aborted"
  /\ UNCHANGED <<pdevs, qfam, at, pdev, asked, queues, pres_queue, surface, img_count, mem_type>>

-----------------------------------------------------------------------------
(* The rest of create_vkdev: one queue of each kind, and one to present.     *)

Order == <<"graphics", "transfer", "compute">>

\* The kinds whose family is the one that can present.
Presenting == {j \in DOMAIN Order : qfam[Order[j]] = qfam["present"]}

\* One more queue for the first kind with the presenting family.
Asked(k) == IF Presenting # {} /\ Order[Min(Presenting)] = k THEN 2 ELSE 1

\* Mutant of PresQueue: presentations go where transfers go.
PresQueueTransfers == IF 1 \in Presenting \/ 2 \in Presenting THEN "transfer" ELSE NONE

\* Presentations go to the graphics or the transfer queue.
PresQueue == IF 1 \in Presenting THEN "graphics"
             ELSE IF 2 \in Presenting THEN "transfer" ELSE NONE

\* The array of devices was a local one of _select_pdev.
CreateVkdev ==
  /\ pc = "create"
  /\ pdevs' = <<>>
  /\ asked' = [k \in Kind |-> Asked(k)]
  /\ queues' = [k \in Kind |-> <<qfam[k], 0>>]
  /\ pres_queue' = PresQueue
  /\ pc' = "swapchain"
  /\ UNCHANGED <<qfam, at, pdev, surface, img_count, mem_type>>

-----------------------------------------------------------------------------
(* create_swapchain.                                                         *)

ImageCount(s) == IF s.max > 0 /\ s.min + 1 > s.max THEN s.max ELSE s.min + 1

\* Mutant of get_memory_index: the types that the image allows are not masked.
get_memory_indexAny(s, flags) ==
  LET fit == {i \in MemTypes : i \in s.props[i] \cap flags}
  IN  IF fit = {} THEN -1 ELSE Min(fit)

\* type & (1 << i) & propertyFlags & flags: one bit number for all three.
get_memory_index(s, flags) ==
  LET fit == {i \in MemTypes : i \in s.type \cap s.props[i] \cap flags}
  IN  IF fit = {} THEN -1 ELSE Min(fit)

CreateSwapchain ==
  /\ pc = "swapchain"
  /\ \E s \in Surface :
       /\ surface' = s
       /\ img_count' = ImageCount(s)
       /\ mem_type' = get_memory_index(s, DEVICE_LOCAL)
  /\ pc' = "done"
  /\ UNCHANGED <<pdevs, qfam, at, pdev, asked, queues, pres_queue>>

Next == CheckPdev \/ NoDevice \/ CreateVkdev \/ CreateSwapchain

Spec == Init /\ [][Next]_vars

-----------------------------------------------------------------------------
TypeOK ==
  /\ qfam \in [Cap -> -1..MaxFamilies - 1]
  /\ at \in 1..MaxDevices + 1 /\ pdev \in 0..MaxDevices
  /\ asked \in [Kind -> 0..2]
  /\ pres_queue \in Kind \cup {NONE}
  /\ img_count \in 0..MaxImages + 1 /\ mem_type \in MemTypes \cup {-1}
  /\ pc \in {"select", "create", "swapchain", "done", "aborted"}

Able(i, c) == {f \in DOMAIN pdevs[i].fams : c \in pdevs[i].fams[f]}

\* What a family of the chosen device can do, is done with a family of its own
\* that can.  For what it cannot do at all, the number is that of the last
\* discrete GPU before it that could: nothing resets the static variables
\* (device.c:27-30, 54-124).
FamiliesOfLastAble ==
  pc = "create" =>
    \A c \in Cap : \E i \in Discrete :
      /\ i <= pdev /\ qfam[c] + 1 \in Able(i, c)
      /\ \A j \in Discrete : i < j /\ j <= pdev => Able(j, c) = {}

\* The engine gives up only on a machine without a discrete GPU that can do
\* everything (device.c:88-125, 169-172).
NoneMissed ==
  pc = "aborted" =>
    \A i \in Discrete : \E c \in Cap : Able(i, c) = {}

\* A queue that is fetched was asked for when the device was created, and
\* presentations go to a queue whose family can present (device.c:198-248).
QueuesExist ==
  pc \in {"swapchain", "done"} =>
    /\ \A k \in Kind : \E l \in Kind : qfam[l] = queues[k][1] /\ asked[l] > queues[k][2]
    /\ pres_queue # NONE => queues[pres_queue][1] = qfam["present"]

\* The swapchain is asked for a number of images the surface allows, and the
\* depth image's memory, if there is a type for it, is of a type the image can
\* have and on the device (swapchain.c:44-46, device.c:307-320, image.c:67-77).
SwapchainFits ==
  pc = "done" =>
    /\ img_count >= surface.min /\ (surface.max > 0 => img_count <= surface.max)
    /\ mem_type # -1 => mem_type \in surface.type /\ DEVICE_LOCAL \subseteq surface.props[mem_type]
=============================================================================
