---------------------------- MODULE RenderObjects ----------------------------
(***************************************************************************)
(* The life of the Vulkan objects: the order in which _init_vulkan makes   *)
(* them, in which _close_vulkan destroys them, and what becomes of it when *)
(* a creation fails (renderer.c, context.c, device.c, swapchain.c,         *)
(* image.c, framebuffer.c, renderpass.c, fence.c).                         *)
(*                                                                         *)
(* An object is <<what it is, its index>>.  What each function makes is a  *)
(* sequence of objects, in the order of its calls.                         *)
(*                                                                         *)
(* Allocations before create_swapchain, of the queue arrays and of structs *)
(* of the same size, take freed blocks too: MaxSpare counts what they have *)
(* left.  Nobody else frees such blocks while the renderer is set up.      *)
(***************************************************************************)
EXTENDS Naturals, Sequences, SequencesExt

CONSTANTS
  MaxImages,    \* bound: the images of a swapchain
  MaxSpare,     \* the freed blocks of the size of an array of img_count pointers
                \* that are left when create_swapchain comes to allocate its own
  DebugChanges  \* may the application change the vk_debug setting?

ASSUME RenderAssumption ==
  /\ MaxImages \in Nat \ {0} /\ MaxSpare \in Nat
  /\ DebugChanges \in BOOLEAN

VARIABLES
  phase,      \* "none", "init", "ready", "closing", "closed", "failed"
  todo,       \* the objects still to make, or to destroy
  live,       \* the objects that are
  unmade,     \* those whose creation failed and was passed over
  wrong,      \* those destroyed that were never made, or no longer there
  debug,      \* the setting rune_get_vk_debug reads
  img_count,
  spare,      \* how many of those blocks are left
  stale       \* the arrays that were asked for zeroed and are not

rvars == <<phase, todo, live, unmade, wrong, debug, img_count, spare, stale>>

\* swapchain->max_frames.
MaxFrames == 2

One(what) == << <<what, 0>> >>

\* Mutant of ForEach: the loop counts from 1.
ForEachFromOne(n, kinds) ==
  FlattenSeq([i \in 1 .. n |-> [k \in 1 .. Len(kinds) |-> <<kinds[k], i>>]])

\* For each index below n, one of each kind in kinds.
ForEach(n, kinds) ==
  FlattenSeq([i \in 1 .. n |-> [k \in 1 .. Len(kinds) |-> <<kinds[k], i - 1>>]])

Kinds == {"instance", "messenger", "surface", "device", "gfx_pool", "tsfr_pool",
          "comp_pool", "swapchain", "view", "image", "memory", "depth_view",
          "renderpass", "framebuffer", "cmdbuf", "image_sem", "queue_sem", "fence"}

Objects == Kinds \X (0 .. MaxImages - 1 \cup 0 .. MaxFrames - 1)

\* Arrays of img_count pointers that the engine allocates between the objects.
Arrays == {"images", "views", "framebuffers", "cmdbuffers", "images_in_flight"}

\* Those it has from rune_calloc, and counts on to be zeroed.
Zeroed == {"framebuffers", "cmdbuffers", "images_in_flight"}

\* What Vulkan wants to outlive an object of each kind.
Parents ==
  [instance |-> {}, messenger |-> {"instance"}, surface |-> {"instance"},
   device |-> {"instance"}, gfx_pool |-> {"device"}, tsfr_pool |-> {"device"},
   comp_pool |-> {"device"}, swapchain |-> {"device", "surface"},
   view |-> {"swapchain"}, image |-> {"device"}, memory |-> {"device"},
   depth_view |-> {"image"}, renderpass |-> {"device"}, framebuffer |-> {"device"},
   cmdbuf |-> {"gfx_pool"}, image_sem |-> {"device"}, queue_sem |-> {"device"},
   fence |-> {"device"}]

-----------------------------------------------------------------------------
(* What the functions make, in order.                                        *)

\* Are the validation layers there?  Without, the renderer does as if not asked.
init_vklayers == IF debug THEN BOOLEAN ELSE {FALSE}

_init_vkdebugger == One("messenger")

create_vkcontext(layers) ==
  One("instance") \o IF layers THEN _init_vkdebugger ELSE <<>>

create_vkdev == One("device") \o One("gfx_pool") \o One("tsfr_pool") \o One("comp_pool")

_create_image_view == One("depth_view")

create_vkimage == One("image") \o One("memory") \o _create_image_view

\* Mutant of create_swapchain: the array of views is the one of images.
CreateSwapchainOneArray(n) ==
  One("swapchain") \o One("images") \o ForEach(n, <<"view">>) \o create_vkimage

create_swapchain(n) ==
  One("swapchain") \o One("images") \o One("views") \o ForEach(n, <<"view">>) \o create_vkimage

create_vkrendpass == One("renderpass")

create_vkframebuffer == <<"framebuffer">>

_init_framebuffers(n) == One("framebuffers") \o ForEach(n, create_vkframebuffer)

create_vkcmdbuffer == <<"cmdbuf">>

_init_cmdbuffers(n) == One("cmdbuffers") \o ForEach(n, create_vkcmdbuffer)

create_vkfence == <<"fence">>

_init_vulkan(layers, n) ==
  create_vkcontext(layers) \o One("surface") \o create_vkdev
    \o create_swapchain(n) \o create_vkrendpass
    \o _init_framebuffers(n) \o _init_cmdbuffers(n)
    \o ForEach(MaxFrames, <<"image_sem", "queue_sem">> \o create_vkfence)
    \o One("images_in_flight")

-----------------------------------------------------------------------------
(* What the functions destroy, in order.                                     *)

\* Mutant of destroy_swapchain: the image of the depth attachment stays.
DestroySwapchainOnly(n) == ForEach(n, <<"view">>) \o One("swapchain")

destroy_vkimage == One("depth_view") \o One("memory") \o One("image")

destroy_swapchain(n) == ForEach(n, <<"view">>) \o destroy_vkimage \o One("swapchain")

destroy_vkdev == One("gfx_pool") \o One("tsfr_pool") \o One("comp_pool") \o One("device")

\* The messenger goes when the setting says, now, that there is one.
destroy_vkcontext(dbg) ==
  (IF dbg THEN One("messenger") ELSE <<>>) \o One("surface") \o One("instance")

destroy_vkcmdbuffer == <<"cmdbuf">>

\* Mutant of _destroy_cmdbuffers: one too many.
DestroyCmdbuffersPast(n) == ForEach(n + 1, destroy_vkcmdbuffer)

_destroy_cmdbuffers(n) == ForEach(n, destroy_vkcmdbuffer)

destroy_vkframebuffer == <<"framebuffer">>

_destroy_framebuffers(n) == ForEach(n, destroy_vkframebuffer)

destroy_vkrendpass == One("renderpass")

destroy_vkfence == <<"fence">>

\* Mutant of _close_vulkan: the command pools go, with the device, too early.
CloseVulkanDeviceFirst(dbg, n) ==
  ForEach(MaxFrames, <<"image_sem", "queue_sem">> \o destroy_vkfence)
    \o destroy_vkdev \o _destroy_cmdbuffers(n) \o _destroy_framebuffers(n)
    \o destroy_vkrendpass \o destroy_swapchain(n) \o destroy_vkcontext(dbg)

_close_vulkan(dbg, n) ==
  ForEach(MaxFrames, <<"image_sem", "queue_sem">> \o destroy_vkfence)
    \o _destroy_cmdbuffers(n) \o _destroy_framebuffers(n)
    \o destroy_vkrendpass \o destroy_swapchain(n) \o destroy_vkdev
    \o destroy_vkcontext(dbg)

-----------------------------------------------------------------------------
RInit ==
  /\ phase = "none" /\ todo = <<>>
  /\ live = {} /\ unmade = {} /\ wrong = {} /\ stale = {}
  /\ debug \in BOOLEAN
  /\ img_count = 0
  /\ spare = MaxSpare

\* Without the layers the messenger's field stays NULL.
select_render_vulkan ==
  /\ phase = "none"
  /\ \E n \in 1 .. MaxImages, layers \in init_vklayers :
       /\ img_count' = n
       /\ todo' = _init_vulkan(layers, n)
       /\ unmade' = IF debug /\ ~ layers THEN {<<"messenger", 0>>} ELSE {}
  /\ phase' = "init"
  /\ UNCHANGED <<live, wrong, debug, spare, stale>>

\* The next of todo is done with; the phase ends with the last.
Done(ends) ==
  /\ todo' = Tail(todo)
  /\ phase' = IF Tail(todo) = <<>> THEN ends ELSE phase

\* The arrays are what the pool gives, as it gives it: a freed block first, of
\* those that other things of that size have left.
AllocArray ==
  /\ phase = "init"
  /\ Head(todo)[1] \in Arrays
  /\ \E left \in 0 .. spare :
       /\ stale' = IF left > 0 /\ Head(todo)[1] \in Zeroed
                   THEN stale \cup {Head(todo)[1]} ELSE stale
       /\ spare' = IF left > 0 THEN left - 1 ELSE 0
  /\ Done("ready")
  /\ UNCHANGED <<live, unmade, wrong, debug, img_count>>

\* What the element of an array holds is destroyed before the new one is made:
\* in a stale array there is something.
Replaced(o) ==
  IF \/ o[1] = "framebuffer" /\ "framebuffers" \in stale
     \/ o[1] = "cmdbuf" /\ "cmdbuffers" \in stale
  THEN {o} ELSE {}

Create ==
  /\ phase = "init"
  /\ Head(todo)[1] \in Kinds
  /\ wrong' = wrong \cup Replaced(Head(todo))
  /\ live' = live \cup {Head(todo)}
  /\ Done("ready")
  /\ UNCHANGED <<unmade, debug, img_count, spare, stale>>

\* The results nobody looks at.
Unchecked == {"messenger", "image_sem", "queue_sem"}

\* Any other failure is a return of -1 or a vkassert: rune_abort.
CreateFails ==
  /\ phase = "init"
  /\ Head(todo)[1] \in Kinds
  /\ IF Head(todo)[1] \in Unchecked
     THEN unmade' = unmade \cup {Head(todo)} /\ Done("ready")
     ELSE phase' = "failed" /\ UNCHANGED <<todo, unmade>>
  /\ UNCHANGED <<live, wrong, debug, img_count, spare, stale>>

\* The application may have set vk_debug since.
CloseRenderer ==
  /\ phase = "ready"
  /\ phase' = "closing"
  /\ debug' \in IF DebugChanges THEN BOOLEAN ELSE {debug}
  /\ todo' = _close_vulkan(debug', img_count)
  /\ UNCHANGED <<live, unmade, wrong, img_count, spare, stale>>

Semaphores == {"image_sem", "queue_sem"}

\* What goes wrong when o is to be destroyed: nothing if it is there, or is a
\* messenger that could not be made, whose field is NULL.  For a semaphore that
\* could not be made its array holds what the pool gave: it counts as wrong.
Wrong(o) ==
  IF o \in live \/ (o \in unmade /\ o[1] \notin Semaphores) THEN {} ELSE {o}

Destroy ==
  /\ phase = "closing"
  /\ live' = live \ {Head(todo)}
  /\ wrong' = wrong \cup Wrong(Head(todo))
  /\ Done("closed")
  /\ UNCHANGED <<unmade, debug, img_count, spare, stale>>

\* One round of the work of select_render_vulkan or of _close_vulkan.
RWork == AllocArray \/ Create \/ CreateFails \/ Destroy

RNext == select_render_vulkan \/ RWork \/ CloseRenderer

RSpec == RInit /\ [][RNext]_rvars

-----------------------------------------------------------------------------
RTypeOK ==
  /\ phase \in {"none", "init", "ready", "closing", "closed", "failed"}
  /\ todo \in Seq(Objects \cup (Arrays \X {0}))
  /\ live \subseteq Objects /\ unmade \subseteq Objects /\ wrong \subseteq Objects
  /\ debug \in BOOLEAN
  /\ img_count \in 0 .. MaxImages
  /\ spare \in 0 .. MaxSpare /\ stale \subseteq Zeroed

\* Whatever is there has what Vulkan wants it not to outlive: nothing is made
\* before, or destroyed after, what it was made from, at any point of setting up
\* or closing, whatever failed on the way (renderer.c:97-185, context.c:160-173,
\* device.c:265-271, swapchain.c:114-121, image.c:91-99).
ParentsOutlive == \A o \in live : \A p \in Parents[o[1]] : <<p, 0>> \in live

\* What is destroyed was made, and is destroyed once, except a semaphore whose
\* creation failed: nobody looked (renderer.c:158-159), so that whatever was in
\* its array, which nobody initialised, is destroyed for it (renderer.c:149-150,
\* 172-175).  Nothing else goes wrong, whatever failed on the way: no array asked
\* for zeroed holds what would be destroyed first (renderer.c:43, 46, 67, 75), a
\* messenger that was not made is left alone, and the closing goes through what
\* the set-up has made (renderer.c:169-185).
OnlySemaphoresGoWrong == wrong \subseteq {o \in unmade : o[1] \in Semaphores}

\* With two recycled blocks at most, drawing starts from what FrameLoop starts
\* from: no image is thought to be in flight, no array that is read before it is
\* written holds what an earlier owner left (renderer.c:43, 67, 162,
\* alloc.c:122-126).
StartsEmpty == phase = "ready" => stale = {}

\* A renderer that was closed leaves no Vulkan object behind; what it leaves of
\* arrays and structs in the pool, rune_free_all gives back (renderer.c:169-185).
NothingLeft == phase = "closed" => live = {}
=============================================================================
