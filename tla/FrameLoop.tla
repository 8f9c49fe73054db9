------------------------------ MODULE FrameLoop ------------------------------
(***************************************************************************)
(* Drawing frames with several of them in flight: _draw_vulkan of          *)
(* engine/render/vulkan/renderer.c with the fences (fence.c), command      *)
(* buffers (renderpass.c) and swapchain (swapchain.c) it drives, against a *)
(* GPU and a presentation engine that work through a queue on their own.   *)
(*                                                                         *)
(* A fence has two states: the device's, and the signal field in which     *)
(* fence.c caches it.  A command buffer's state field is the engine's own  *)
(* too: cmdbuf_reset writes it whatever the device is doing.               *)
(*                                                                         *)
(* External: the device executes its queue in order (pres_queue is the     *)
(* graphics queue, device.c:245), the presentation engine gives images.    *)
(* A failing call under vkassert ends the process and is left out.         *)
(***************************************************************************)
EXTENDS Naturals, Sequences, FiniteSets

CONSTANTS
  MaxFrames,      \* frames in flight, swapchain->max_frames
  Images,         \* the swapchain's images, and their command buffers
  NULL,           \* no fence, or no semaphore
  EarlyAcquire    \* may an image be handed out while its last use is pending?

ASSUME FrameAssumption ==
  /\ MaxFrames \in Nat \ {0}
  /\ NULL \notin Nat
  /\ EarlyAcquire \in BOOLEAN

VARIABLES
  pc,                \* where the drawing thread is
  frame,             \* swapchain->frame
  img_index,         \* context->img_index
  state,             \* state[i]: the state field of command buffer i
  signal,            \* signal[f]: the signal field of the fence of frame f
  fence,             \* fence[f]: is that fence signalled on the device?
  images_in_flight,  \* images_in_flight[i]: the frame that last drew image i
  image_sem,         \* image_sem[f]: is image_semaphores[f] signalled?
  queue_sem,         \* queue_sem[f]: is queue_semaphores[f] signalled?
  queue,             \* what the device has still to execute, in order
  failed,            \* history: has a wait or an acquisition failed?
  refused,           \* history: frames that had a presentation refused
  kept               \* images of refused presentations: never given back

vars == <<pc, frame, img_index, state, signal, fence, images_in_flight,
          image_sem, queue_sem, queue, failed, refused, kept>>

Frames == 0..(MaxFrames - 1)

\* The states a command buffer is in between two steps: it is never left
\* recording outside a render pass.
CmdState == {"INITIAL", "IN_RENDERPASS", "READY", "SUBMITTED"}

\* A batch of the queue.  sem of a presentation is the frame whose image
\* semaphore the presentation engine signals when it is done with the image.
Batch == [op : {"render", "present"}, img : Images, frame : Frames,
          sem : Frames \cup {NULL}]

Pos == 1..Len(queue)
Renders == {k \in Pos : queue[k].op = "render"}
Presents == {k \in Pos : queue[k].op = "present"}

\* Mutant of Init: the fences are created without VK_FENCE_CREATE_SIGNALED_BIT.
InitUnsignalled ==
  /\ pc = "begin"
  /\ frame = 0
  /\ img_index \in Images
  /\ state = [i \in Images |-> "INITIAL"]
  /\ signal = [f \in Frames |-> 0]
  /\ fence = [f \in Frames |-> FALSE]
  /\ images_in_flight = [i \in Images |-> NULL]
  /\ image_sem = [f \in Frames |-> FALSE]
  /\ queue_sem = [f \in Frames |-> FALSE]
  /\ queue = <<>>
  /\ failed = FALSE
  /\ refused = {}
  /\ kept = {}

\* create_vkfence leaves the signal field as the allocator gave it: 2 stands
\* for what is neither 0 nor 1.
Init ==
  /\ pc = "begin"
  /\ frame = 0
  /\ img_index \in Images
  /\ state = [i \in Images |-> "INITIAL"]
  /\ signal \in [Frames -> {0, 1, 2}]
  /\ fence = [f \in Frames |-> TRUE]
  /\ images_in_flight = [i \in Images |-> NULL]
  /\ image_sem = [f \in Frames |-> FALSE]
  /\ queue_sem = [f \in Frames |-> FALSE]
  /\ queue = <<>>
  /\ failed = FALSE
  /\ refused = {}
  /\ kept = {}

\* Mutant of fence_lock: the caller goes on without waiting for the device.
FenceLockNoWait(f) == signal' = [signal EXCEPT ![f] = 1]

\* Waits for the device unless the field says the wait is over.
fence_lock(f) ==
  /\ signal[f] = 1 \/ fence[f]
  /\ signal' = [signal EXCEPT ![f] = 1]

fence_lock_fails(f) == signal[f] # 1

\* Mutant of fence_unlock: the field is not cleared with the fence.
FenceUnlockKeepsField(f) ==
  IF signal[f] = 0 THEN UNCHANGED <<signal, fence>>
  ELSE fence' = [fence EXCEPT ![f] = FALSE] /\ UNCHANGED signal

fence_unlock(f) ==
  IF signal[f] = 0 THEN UNCHANGED <<signal, fence>>
  ELSE /\ fence' = [fence EXCEPT ![f] = FALSE]
       /\ signal' = [signal EXCEPT ![f] = 0]

\* Mutant of renderpass_end: the buffer's state is not checked.
RenderpassEndUnchecked(s) == "RECORDING"

\* The state these calls leave a command buffer in; each ends the process when
\* the buffer is not in the state it expects.
cmdbuf_begin(s) == IF s = "INITIAL" THEN "RECORDING" ELSE "fatal"
renderpass_begin(s) == IF s = "RECORDING" THEN "IN_RENDERPASS" ELSE "fatal"
renderpass_end(s) == IF s = "IN_RENDERPASS" THEN "RECORDING" ELSE "fatal"
cmdbuf_end(s) == IF s = "RECORDING" THEN "READY" ELSE "fatal"

\* The frame goes on to place with the buffer of image i in state s.
Recorded(i, s, place) ==
  IF s = "fatal" THEN pc' = "aborted" /\ UNCHANGED state
  ELSE pc' = place /\ state' = [state EXCEPT ![i] = s]

\* A buffer that is not ready is not submitted, and the frame goes on.
cmdbuf_submit(i, f) ==
  IF state[i] = "READY"
  THEN /\ queue' = Append(queue, [op |-> "render", img |-> i, frame |-> f, sem |-> NULL])
       /\ state' = [state EXCEPT ![i] = "SUBMITTED"]
  ELSE UNCHANGED <<queue, state>>

\* Mutant of cmdbuf_reset: the buffer is left as the submission left it.
CmdbufResetNot(i) == UNCHANGED state

cmdbuf_reset(i) == state' = [state EXCEPT ![i] = "INITIAL"]

-----------------------------------------------------------------------------
(* _begin_frame.  Its result is ignored: a frame that could not begin is     *)
(* ended all the same.                                                       *)

LockFrame ==
  /\ pc = "begin"
  /\ fence_lock(frame)
  /\ pc' = "acquire"
  /\ UNCHANGED <<frame, img_index, state, fence, images_in_flight, image_sem, queue_sem, queue, failed, refused, kept>>

LockFrameFails ==
  /\ pc = "begin"
  /\ fence_lock_fails(frame)
  /\ pc' = "end"
  /\ failed' = TRUE
  /\ UNCHANGED <<frame, img_index, state, signal, fence, images_in_flight, image_sem, queue_sem, queue, refused, kept>>

\* The presentation engine signals the frame's image semaphore at once when
\* nothing uses image i, else when the last presentation of i is done.
ImageAcquired(i) ==
  \/ /\ \A k \in Pos : queue[k].img # i
     /\ image_sem' = [image_sem EXCEPT ![frame] = TRUE]
     /\ UNCHANGED queue
  \/ /\ EarlyAcquire
     /\ \E k \in Presents :
          /\ queue[k].img = i /\ queue[k].sem = NULL
          /\ queue' = [queue EXCEPT ![k].sem = frame]
     /\ UNCHANGED image_sem

Acquire ==
  /\ pc = "acquire"
  /\ \E i \in Images \ kept :
       /\ ImageAcquired(i)
       /\ img_index' = i
       /\ Recorded(i, renderpass_begin(cmdbuf_begin(state[i])), "end")
  /\ UNCHANGED <<frame, signal, fence, images_in_flight, queue_sem, failed, refused, kept>>

AcquireFails ==
  /\ pc = "acquire"
  /\ pc' = "end"
  /\ failed' = TRUE
  /\ UNCHANGED <<frame, img_index, state, signal, fence, images_in_flight, image_sem, queue_sem, queue, refused, kept>>

-----------------------------------------------------------------------------
(* _end_frame.                                                               *)

EndRecording ==
  /\ pc = "end"
  /\ Recorded(img_index, cmdbuf_end(renderpass_end(state[img_index])), "wait")
  /\ UNCHANGED <<frame, img_index, signal, fence, images_in_flight, image_sem, queue_sem, queue, failed, refused, kept>>

\* Mutant of WaitImage: the image's last frame is not waited for.
WaitImageNot ==
  /\ pc = "wait"
  /\ pc' = "submit"
  /\ UNCHANGED <<frame, img_index, state, signal, fence, images_in_flight, image_sem, queue_sem, queue, failed, refused, kept>>

WaitImage ==
  /\ pc = "wait"
  /\ IF images_in_flight[img_index] = NULL
     THEN UNCHANGED signal
     ELSE fence_lock(images_in_flight[img_index])
  /\ pc' = "submit"
  /\ UNCHANGED <<frame, img_index, state, fence, images_in_flight, image_sem, queue_sem, queue, failed, refused, kept>>

\* The result of this fence_lock is ignored too.
WaitImageFails ==
  /\ pc = "wait"
  /\ images_in_flight[img_index] # NULL
  /\ fence_lock_fails(images_in_flight[img_index])
  /\ pc' = "submit"
  /\ failed' = TRUE
  /\ UNCHANGED <<frame, img_index, state, signal, fence, images_in_flight, image_sem, queue_sem, queue, refused, kept>>

\* The fence is taken for the image and reset, the buffer submitted with it;
\* on a second graphics queue it would no longer be ready.
Submit ==
  /\ pc = "submit"
  /\ images_in_flight' = [images_in_flight EXCEPT ![img_index] = frame]
  /\ fence_unlock(frame)
  /\ cmdbuf_submit(img_index, frame)
  /\ pc' = "present"
  /\ UNCHANGED <<frame, img_index, image_sem, queue_sem, failed, refused, kept>>

\* Mutant of NextFrame: the frame counter does not wrap.
NextFrameUnbounded == frame + 1

NextFrame == (frame + 1) % MaxFrames

\* A surface that is out of date or suboptimal is reported and passed over:
\* the presentation is queued all the same.
vkswapchain_present ==
  /\ queue' = Append(queue, [op |-> "present", img |-> img_index,
                             frame |-> frame, sem |-> NULL])
  /\ frame' = NextFrame
  /\ UNCHANGED <<refused, kept>>

\* So is every other error, after which nothing may be queued: the image is
\* not given back, and nothing waits for the frame's queue semaphore.
vkswapchain_present_fails ==
  /\ refused' = refused \cup {frame}
  /\ kept' = kept \cup {img_index}
  /\ frame' = NextFrame
  /\ UNCHANGED queue

Present ==
  /\ pc = "present"
  /\ vkswapchain_present
  /\ cmdbuf_reset(img_index)
  /\ pc' = "begin"
  /\ UNCHANGED <<img_index, signal, fence, images_in_flight, image_sem, queue_sem, failed>>

PresentFails ==
  /\ pc = "present"
  /\ vkswapchain_present_fails
  /\ cmdbuf_reset(img_index)
  /\ pc' = "begin"
  /\ UNCHANGED <<img_index, signal, fence, images_in_flight, image_sem, queue_sem, failed>>

Draw == LockFrame \/ Acquire \/ EndRecording \/ WaitImage \/ Submit \/ Present

DrawFails == LockFrameFails \/ AcquireFails \/ WaitImageFails \/ PresentFails

\* _close_vulkan, when the application asks for it between two frames:
\* vkDeviceWaitIdle, then the objects go.
StartClose ==
  /\ pc = "begin"
  /\ pc' = "closing"
  /\ UNCHANGED <<frame, img_index, state, signal, fence, images_in_flight, image_sem, queue_sem, queue, failed, refused, kept>>

Close ==
  /\ pc = "closing"
  /\ Renders = {}
  /\ pc' = "closed"
  /\ UNCHANGED <<frame, img_index, state, signal, fence, images_in_flight, image_sem, queue_sem, queue, failed, refused, kept>>

-----------------------------------------------------------------------------
(* The device and the presentation engine.                                   *)

\* A batch starts when its image is there, and signals the frame's fence.
GpuRender ==
  /\ queue # <<>> /\ Head(queue).op = "render"
  /\ LET f == Head(queue).frame IN
       /\ image_sem[f]
       /\ image_sem' = [image_sem EXCEPT ![f] = FALSE]
       /\ queue_sem' = [queue_sem EXCEPT ![f] = TRUE]
       /\ fence' = [fence EXCEPT ![f] = TRUE]
  /\ queue' = Tail(queue)
  /\ UNCHANGED <<pc, frame, img_index, state, signal, images_in_flight, failed, refused, kept>>

GpuPresent ==
  /\ queue # <<>> /\ Head(queue).op = "present"
  /\ LET b == Head(queue) IN
       /\ queue_sem[b.frame]
       /\ queue_sem' = [queue_sem EXCEPT ![b.frame] = FALSE]
       /\ image_sem' = IF b.sem = NULL THEN image_sem
                       ELSE [image_sem EXCEPT ![b.sem] = TRUE]
  /\ queue' = Tail(queue)
  /\ UNCHANGED <<pc, frame, img_index, state, signal, fence, images_in_flight, failed, refused, kept>>

Gpu == GpuRender \/ GpuPresent

Next == Draw \/ DrawFails \/ StartClose \/ Close \/ Gpu

Spec == Init /\ [][Next]_vars

\* The main loop keeps drawing, a close goes on, and the device and the
\* presentation engine keep executing what they can.  Nothing has to fail: a
\* wait that could never end is not helped out by a failure.
FairSpec == Spec /\ WF_vars(Draw \/ Close) /\ WF_vars(Gpu)

-----------------------------------------------------------------------------
TypeOK ==
  /\ pc \in {"begin", "acquire", "end", "wait", "submit", "present", "aborted",
            "closing", "closed"}
  /\ frame \in Frames
  /\ img_index \in Images
  /\ state \in [Images -> CmdState]
  /\ signal \in [Frames -> {0, 1, 2}]
  /\ fence \in [Frames -> BOOLEAN]
  /\ images_in_flight \in [Images -> Frames \cup {NULL}]
  /\ image_sem \in [Frames -> BOOLEAN]
  /\ queue_sem \in [Frames -> BOOLEAN]
  /\ queue \in Seq(Batch)
  /\ failed \in BOOLEAN
  /\ refused \subseteq Frames
  /\ kept \subseteq Images

\* A fence is signalled exactly when no batch will signal it, no two pending
\* batches carry the same fence, and the signal field says 1 only of a fence
\* that is signalled.  So a wait is never skipped while the device still
\* works, never waits for a fence nothing will signal, and no fence is reset
\* or submitted while it is in use (fence.c:49-84, renderer.c:187-251).
FencesExact ==
  /\ \A f \in Frames : fence[f] <=> \A k \in Renders : queue[k].frame # f
  /\ \A j, k \in Renders : queue[j].frame = queue[k].frame => j = k
  /\ \A f \in Frames : signal[f] = 1 => fence[f]

\* No image is drawn by two pending batches, even when the presentation engine
\* hands it out early: _end_frame waits for the frame that drew the image
\* last, unless that wait fails (renderer.c:237-243).
ImageExclusive ==
  failed \/ \A j, k \in Renders : queue[j].img = queue[k].img => j = k

\* A semaphore is signalled only when it is not signalled, and nothing pending
\* will signal it or wait for it: the image semaphore the frame is about to
\* acquire with, whatever has failed, and the queue semaphore of the batch about
\* to run, if no presentation of its frame was ever refused.  After a refusal
\* nothing unsignals the frame's queue semaphore, and the frame's next batch
\* signals it again (swapchain.c:148-149, renderer.c:194-198, 245-256).
SemaphoresFresh ==
  /\ pc = "acquire" =>
       /\ ~ image_sem[frame]
       /\ \A k \in Pos : queue[k].sem # frame
       /\ \A k \in Renders : queue[k].frame # frame
  /\ 1 \in Renders /\ queue[1].frame \notin refused => ~ queue_sem[queue[1].frame]

\* The device never waits for a semaphore nothing will signal: every batch that
\* was submitted belongs to a frame that did acquire its image, even when the
\* frame's beginning failed and its result was ignored (renderer.c:187-266,
\* renderpass.c:241-245, 79-83).
WaitsAreMet ==
  /\ \A k \in Renders :
       \/ image_sem[queue[k].frame]
       \/ \E j \in Presents : j < k /\ queue[j].sem = queue[k].frame
  /\ \A k \in Presents :
       \/ queue_sem[queue[k].frame]
       \/ \E j \in Renders : j < k /\ queue[j].frame = queue[k].frame

\* The engine runs no further ahead of the display than its frames in flight:
\* one presentation for each, and the one the display is waiting to make
\* (swapchain.c:33, renderer.c:188-189).
LeadBounded == Cardinality(Presents) <= MaxFrames + 1

\* Drawing never gets stuck: until the application closes the renderer or the
\* process ends, the next frame gets to be presented, and a close that was asked
\* for ends, as no wait is for something that never comes; unless there is no
\* image left to wait for, each being kept by a presentation that was refused
\* (renderer.c:169-261, swapchain.c:123-152).
NeverStuck == []<>(pc \in {"present", "closed", "aborted"} \/ kept = Images)

\* No command buffer call finds a state it does not expect, and so ends the
\* process, unless a wait or an acquisition has failed: a refused presentation
\* is no such reason, and the command buffer of whatever image comes next is in
\* order (renderpass.c:50, 70, 80, 212, 242, renderer.c:187-266).  A Vulkan call
\* that fails under vkassert ends it too, and is not in the model.
AbortsOnlyOnFailure == pc = "aborted" => failed

-----------------------------------------------------------------------------
\* What a message of the code says, and the code does not do.

\* renderpass.c:51: a buffer not in its initial state is never recorded to.
\* On the device it is in it only once the batch that used it has finished.
RecordsIdleBuffer ==
  \A i \in Images : state[i] = "IN_RENDERPASS" =>
    \A k \in Renders : queue[k].img # i
=============================================================================
