--------------------------- MODULE FrameLoopProofs ---------------------------
(***************************************************************************)
(* What holds of FrameLoop for any number of frames in flight and any set  *)
(* of images: the fences are exact whatever fails, and no image is drawn   *)
(* by two batches at once as long as no wait fails; the semaphores are     *)
(* used one frame at a time, and only a failure ends the process.          *)
(*                                                                         *)
(* FencesExact is not inductive alone: a fence is reset only by a frame    *)
(* that holds it (FrameTaken), and a frame reaches its end only with its   *)
(* command buffer where the frame left it (StatesInStep).  ImageExclusive  *)
(* needs to know which frame to wait for (DrawnBy) and that the wait was   *)
(* made before the submission (IdleAtSubmit).                              *)
(***************************************************************************)
EXTENDS FrameLoop, SequenceTheorems, FiniteSetTheorems, TLAPS

\* Only the command buffer of the current frame is not in its initial state,
\* and it is ready once it has been recorded.
StatesInStep ==
  /\ pc \in {"begin", "acquire", "closing"} => \A i \in Images : state[i] = "INITIAL"
  /\ pc \in {"end", "wait", "submit", "present"} =>
       \A i \in Images \ {img_index} : state[i] = "INITIAL"
  /\ pc \in {"wait", "submit"} => state[img_index] = "READY"

\* From its lock to its submission the frame's fence is known to be signalled.
FrameTaken ==
  \/ pc \in {"acquire", "wait", "submit"}
  \/ pc = "end" /\ state[img_index] = "IN_RENDERPASS"
  => signal[frame] = 1

IInv == TypeOK /\ FencesExact /\ StatesInStep /\ FrameTaken

\* What FencesExact says of a queue q, device fences fe and fields sg.
Fenced(q, fe, sg) ==
  /\ \A f \in Frames : fe[f] <=> \A k \in 1..Len(q) : q[k].op = "render" => q[k].frame # f
  /\ \A j, k \in 1..Len(q) :
       q[j].op = "render" /\ q[k].op = "render" /\ q[j].frame = q[k].frame => j = k
  /\ \A f \in Frames : sg[f] = 1 => fe[f]

LEMMA FencedIsExact == FencesExact <=> Fenced(queue, fence, signal)
BY DEF FencesExact, Fenced, Renders, Pos

LEMMA FencedIsExactNext == FencesExact' <=> Fenced(queue', fence', signal')
BY DEF FencesExact, Fenced, Renders, Pos

\* Up to a shift by s, the queues q and r hold the same submissions.
SameRenders(q, r, s) ==
  /\ \A k \in 1..Len(q) : q[k].op = "render" =>
       /\ k - s \in 1..Len(r) /\ r[k - s].op = "render"
       /\ r[k - s].img = q[k].img /\ r[k - s].frame = q[k].frame
  /\ \A k \in 1..Len(r) : r[k].op = "render" =>
       /\ k + s \in 1..Len(q) /\ q[k + s].op = "render"
       /\ r[k].img = q[k + s].img /\ r[k].frame = q[k + s].frame

-----------------------------------------------------------------------------
\* The device takes the first batch of the queue; the others move up.
LEMMA Popped ==
  ASSUME NEW q \in Seq(Batch), q # <<>>, NEW r, r = Tail(q)
  PROVE  /\ r \in Seq(Batch)
         /\ Len(r) = Len(q) - 1
         /\ 1 \in 1..Len(q) /\ q[1] = Head(q) /\ q[1] \in Batch
         /\ \A k \in 1..Len(r) : k + 1 \in 1..Len(q) /\ r[k] = q[k + 1]
         /\ \A k \in 1..Len(q) : k # 1 => k - 1 \in 1..Len(r) /\ q[k] = r[k - 1]
<1>1. Len(q) \in Nat \ {0}
  BY EmptySeq
<1>2. r \in Seq(Batch) /\ Len(r) = Len(q) - 1 /\ \A k \in 1..Len(r) : r[k] = q[k + 1]
  BY HeadTailProperties
<1>3. q[1] = Head(q) /\ q[1] \in Batch
  BY <1>1, ElementOfSeq DEF Head
<1> QED BY <1>1, <1>2, <1>3

\* A batch goes to the end of the queue.
LEMMA Queued ==
  ASSUME NEW q \in Seq(Batch), NEW b \in Batch, NEW r, r = Append(q, b)
  PROVE  /\ r \in Seq(Batch)
         /\ Len(r) = Len(q) + 1
         /\ \A k \in 1..Len(q) : k \in 1..Len(r) /\ r[k] = q[k]
         /\ Len(r) \in 1..Len(r) /\ r[Len(r)] = b
         /\ \A k \in 1..Len(r) : k # Len(r) => k \in 1..Len(q)
<1>1. Len(q) \in Nat
  BY LenProperties
<1>2. r \in Seq(Batch) /\ Len(r) = Len(q) + 1
      /\ (\A k \in 1..Len(q) : r[k] = q[k]) /\ r[Len(q) + 1] = b
  BY AppendProperties
<1> QED BY <1>1, <1>2

\* The semaphore a presentation signals is all that an early image sets.
LEMMA Marked ==
  ASSUME NEW q \in Seq(Batch), NEW k \in 1..Len(q), NEW f \in Frames,
         NEW r, r = [q EXCEPT ![k].sem = f]
  PROVE  /\ r \in Seq(Batch)
         /\ Len(r) = Len(q)
         /\ \A j \in 1..Len(q) : /\ r[j].op = q[j].op
                                 /\ r[j].img = q[j].img
                                 /\ r[j].frame = q[j].frame
                                 /\ r[j].sem = IF j = k THEN f ELSE q[j].sem
<1>1. q[k] \in Batch
  BY ElementOfSeq
<1>2. [q[k] EXCEPT !.sem = f] \in Batch
  BY <1>1 DEF Batch
<1>3. r = [q EXCEPT ![k] = [q[k] EXCEPT !.sem = f]]
  OBVIOUS
<1>4. \A j \in 1..Len(q) : q[j] \in Batch
  BY ElementOfSeq
<1> QED BY <1>1, <1>2, <1>3, <1>4, ExceptSeq DEF Batch

-----------------------------------------------------------------------------
(* What the fences say is kept by each operation on the queue and on them.   *)

\* A wait that ends leaves its fence known to be signalled.
LEMMA LockKeepsFenced ==
  ASSUME TypeOK, FencesExact, NEW f \in Frames, fence_lock(f), UNCHANGED <<fence, queue>>
  PROVE  signal' \in [Frames -> {0, 1, 2}] /\ FencesExact' /\ signal'[f] = 1
<1>1. signal' = [signal EXCEPT ![f] = 1] /\ signal \in [Frames -> {0, 1, 2}]
  BY DEF fence_lock, TypeOK
<1>2. signal' \in [Frames -> {0, 1, 2}] /\ signal'[f] = 1
      /\ \A g \in Frames \ {f} : signal'[g] = signal[g]
  BY <1>1
<1>3. fence[f]
  BY DEF fence_lock, FencesExact
<1>4. \A g \in Frames : signal'[g] = 1 => fence'[g]
  BY <1>2, <1>3 DEF FencesExact
<1>5. Renders' = Renders
  BY DEF Renders, Pos
<1> QED BY <1>2, <1>4, <1>5 DEF FencesExact

\* The device signals the fence of the batch it ran.
LEMMA RenderKeepsFenced ==
  ASSUME TypeOK, FencesExact, GpuRender
  PROVE  fence' \in [Frames -> BOOLEAN] /\ FencesExact'
<1> DEFINE f == Head(queue).frame
<1>1. queue \in Seq(Batch) /\ queue # <<>> /\ queue' = Tail(queue) /\ Head(queue).op = "render"
      /\ fence' = [fence EXCEPT ![f] = TRUE] /\ signal' = signal
      /\ fence \in [Frames -> BOOLEAN]
  BY DEF GpuRender, TypeOK
<1>2. queue[1] = Head(queue) /\ f \in Frames /\ 1 \in 1..Len(queue)
      /\ Len(queue') = Len(queue) - 1
      /\ (\A k \in 1..Len(queue') : k + 1 \in 1..Len(queue) /\ queue'[k] = queue[k + 1])
      /\ \A k \in 1..Len(queue) : k # 1 => k - 1 \in 1..Len(queue') /\ queue[k] = queue'[k - 1]
  <2>1. queue[1] = Head(queue) /\ queue[1] \in Batch /\ 1 \in 1..Len(queue)
        /\ Len(queue') = Len(queue) - 1
        /\ (\A k \in 1..Len(queue') : k + 1 \in 1..Len(queue) /\ queue'[k] = queue[k + 1])
        /\ \A k \in 1..Len(queue) : k # 1 => k - 1 \in 1..Len(queue') /\ queue[k] = queue'[k - 1]
    BY <1>1, Popped
  <2>2. Head(queue).frame \in Frames
    BY <2>1 DEF Batch
  <2> QED BY <2>1, <2>2
<1>3. fence' \in [Frames -> BOOLEAN] /\ fence'[f]
      /\ \A g \in Frames \ {f} : fence'[g] = fence[g]
  BY <1>1, <1>2
<1>4. Fenced(queue, fence, signal)
  BY FencedIsExact
<1> HIDE DEF f
<1>5. ASSUME NEW g \in Frames
      PROVE  fence'[g] <=> \A k \in 1..Len(queue') : queue'[k].op = "render" => queue'[k].frame # g
  <2>1. CASE g = f
    <3>1. \A k \in 1..Len(queue') : queue'[k].op = "render" => queue'[k].frame # f
      <4> SUFFICES ASSUME NEW k \in 1..Len(queue'), queue'[k].op = "render", queue'[k].frame = f
                   PROVE  FALSE
        OBVIOUS
      <4>1. k + 1 = 1
        BY <1>1, <1>2, <1>4 DEF Fenced, f
      <4> QED BY <4>1
    <3> QED BY <1>3, <2>1, <3>1
  <2>2. CASE g # f
    <3>1. ASSUME \A k \in 1..Len(queue') : queue'[k].op = "render" => queue'[k].frame # g,
                 NEW k \in 1..Len(queue), queue[k].op = "render"
          PROVE  queue[k].frame # g
      <4>1. CASE k = 1
        BY <1>2, <2>2, <4>1 DEF f
      <4>2. CASE k # 1
        BY <1>2, <3>1, <4>2
      <4> QED BY <4>1, <4>2
    <3>2. ASSUME \A k \in 1..Len(queue) : queue[k].op = "render" => queue[k].frame # g,
                 NEW k \in 1..Len(queue'), queue'[k].op = "render"
          PROVE  queue'[k].frame # g
      BY <1>2, <3>2
    <3> QED BY <1>3, <1>4, <2>2, <3>1, <3>2 DEF Fenced
  <2> QED BY <2>1, <2>2
<1>6. ASSUME NEW j \in 1..Len(queue'), NEW k \in 1..Len(queue'),
             queue'[j].op = "render", queue'[k].op = "render", queue'[j].frame = queue'[k].frame
      PROVE  j = k
  <2>1. j + 1 = k + 1
    BY <1>2, <1>4, <1>6 DEF Fenced
  <2> QED BY <2>1
<1>7. \A g \in Frames : signal'[g] = 1 => fence'[g]
  BY <1>1, <1>3, <1>4 DEF Fenced
<1> QED BY <1>3, <1>5, <1>6, <1>7, FencedIsExactNext DEF Fenced

\* A queue with the same submissions has the same fences.
LEMMA SameRendersFenced ==
  ASSUME NEW q, NEW r, NEW s \in {0, 1}, SameRenders(q, r, s), NEW fe, NEW sg, Fenced(q, fe, sg),
         Len(q) \in Nat, Len(r) \in Nat
  PROVE  Fenced(r, fe, sg)
<1>1. ASSUME NEW f \in Frames
      PROVE  fe[f] <=> \A k \in 1..Len(r) : r[k].op = "render" => r[k].frame # f
  <2>1. ASSUME \A k \in 1..Len(r) : r[k].op = "render" => r[k].frame # f,
               NEW k \in 1..Len(q), q[k].op = "render"
        PROVE  q[k].frame # f
    BY <2>1 DEF SameRenders
  <2>2. ASSUME \A k \in 1..Len(q) : q[k].op = "render" => q[k].frame # f,
               NEW k \in 1..Len(r), r[k].op = "render"
        PROVE  r[k].frame # f
    BY <2>2 DEF SameRenders
  <2> QED BY <2>1, <2>2 DEF Fenced
<1>2. ASSUME NEW j \in 1..Len(r), NEW k \in 1..Len(r),
             r[j].op = "render", r[k].op = "render", r[j].frame = r[k].frame
      PROVE  j = k
  <2>1. j + s = k + s
    BY <1>2 DEF SameRenders, Fenced
  <2> QED BY <2>1
<1> QED BY <1>1, <1>2 DEF Fenced

LEMMA GpuPresentMoves ==
  ASSUME TypeOK, GpuPresent
  PROVE  queue' \in Seq(Batch) /\ SameRenders(queue, queue', 1)
<1>1. queue \in Seq(Batch) /\ queue # <<>> /\ queue' = Tail(queue) /\ Head(queue).op = "present"
  BY DEF GpuPresent, TypeOK
<1>2. queue' \in Seq(Batch) /\ queue[1] = Head(queue) /\ Len(queue') = Len(queue) - 1
      /\ (\A k \in 1..Len(queue') : k + 1 \in 1..Len(queue) /\ queue'[k] = queue[k + 1])
      /\ \A k \in 1..Len(queue) : k # 1 => k - 1 \in 1..Len(queue') /\ queue[k] = queue'[k - 1]
  BY <1>1, Popped
<1> QED BY <1>1, <1>2 DEF SameRenders

LEMMA PresentMoves ==
  ASSUME TypeOK, Present
  PROVE  queue' \in Seq(Batch) /\ SameRenders(queue, queue', 0)
<1> DEFINE b == [op |-> "present", img |-> img_index, frame |-> frame, sem |-> NULL]
<1>1. queue \in Seq(Batch) /\ b \in Batch /\ queue' = Append(queue, b) /\ b.op = "present"
  BY DEF Present, vkswapchain_present, TypeOK, Batch
<1> HIDE DEF b
<1>2. queue' \in Seq(Batch)
      /\ (\A k \in 1..Len(queue) : k \in 1..Len(queue') /\ queue'[k] = queue[k])
      /\ queue'[Len(queue')] = b
      /\ \A k \in 1..Len(queue') : k # Len(queue') => k \in 1..Len(queue)
  BY <1>1, Queued
<1>3. Len(queue) \in Nat /\ Len(queue') \in Nat
  BY <1>1, <1>2, LenProperties
<1> QED BY <1>1, <1>2, <1>3 DEF SameRenders

LEMMA AcquiredMoves ==
  ASSUME TypeOK, NEW i \in Images, ImageAcquired(i)
  PROVE  /\ queue' \in Seq(Batch) /\ SameRenders(queue, queue', 0)
         /\ image_sem' \in [Frames -> BOOLEAN]
<1>1. queue \in Seq(Batch) /\ frame \in Frames /\ image_sem \in [Frames -> BOOLEAN]
  BY DEF TypeOK
<1>2. Len(queue) \in Nat
  BY <1>1, LenProperties
<1>3. CASE UNCHANGED queue /\ image_sem' = [image_sem EXCEPT ![frame] = TRUE]
  BY <1>1, <1>2, <1>3 DEF SameRenders
<1>4. CASE \E k \in Presents : queue' = [queue EXCEPT ![k].sem = frame] /\ UNCHANGED image_sem
  <2>1. PICK k \in 1..Len(queue) : queue' = [queue EXCEPT ![k].sem = frame]
    BY <1>4 DEF Presents, Pos
  <2>2. queue' \in Seq(Batch) /\ Len(queue') = Len(queue)
        /\ \A j \in 1..Len(queue) : queue'[j].op = queue[j].op
             /\ queue'[j].img = queue[j].img /\ queue'[j].frame = queue[j].frame
    BY <1>1, <2>1, Marked
  <2> QED BY <1>1, <1>2, <1>4, <2>2 DEF SameRenders
<1> QED BY <1>3, <1>4 DEF ImageAcquired

\* What the fences say stays true when only batches that are no submissions
\* come and go.
LEMMA MovesKeepFenced ==
  ASSUME TypeOK, FencesExact, UNCHANGED <<fence, signal>>, queue' \in Seq(Batch),
         NEW s \in {0, 1}, SameRenders(queue, queue', s)
  PROVE  FencesExact'
<1>1. Len(queue) \in Nat /\ Len(queue') \in Nat
  BY LenProperties DEF TypeOK
<1>2. Fenced(queue, fence', signal')
  BY FencedIsExact
<1> QED BY <1>1, <1>2, SameRendersFenced, FencedIsExactNext

\* A frame that holds its fence resets it and submits a batch with it.
LEMMA SubmitKeepsFenced ==
  ASSUME TypeOK, FencesExact, Submit, signal[frame] = 1, state[img_index] = "READY"
  PROVE  /\ queue' \in Seq(Batch) /\ FencesExact'
         /\ fence' \in [Frames -> BOOLEAN] /\ signal' \in [Frames -> {0, 1, 2}]
<1> DEFINE b == [op |-> "render", img |-> img_index, frame |-> frame, sem |-> NULL]
<1>1. queue \in Seq(Batch) /\ b \in Batch /\ queue' = Append(queue, b)
      /\ b.op = "render" /\ b.frame = frame /\ frame \in Frames
  BY DEF Submit, cmdbuf_submit, TypeOK, Batch
<1>2. fence' = [fence EXCEPT ![frame] = FALSE] /\ signal' = [signal EXCEPT ![frame] = 0]
      /\ fence \in [Frames -> BOOLEAN] /\ signal \in [Frames -> {0, 1, 2}]
  BY DEF Submit, fence_unlock, TypeOK
<1>3. fence' \in [Frames -> BOOLEAN] /\ signal' \in [Frames -> {0, 1, 2}]
      /\ fence'[frame] = FALSE /\ signal'[frame] = 0
      /\ \A g \in Frames \ {frame} : fence'[g] = fence[g] /\ signal'[g] = signal[g]
  BY <1>1, <1>2
<1> HIDE DEF b
<1>4. queue' \in Seq(Batch) /\ Len(queue') = Len(queue) + 1
      /\ (\A k \in 1..Len(queue) : k \in 1..Len(queue') /\ queue'[k] = queue[k])
      /\ Len(queue') \in 1..Len(queue') /\ queue'[Len(queue')] = b
      /\ \A k \in 1..Len(queue') : k # Len(queue') => k \in 1..Len(queue)
  BY <1>1, Queued
<1>5. Fenced(queue, fence, signal)
  BY FencedIsExact
<1>6. \A k \in 1..Len(queue) : queue[k].op = "render" => queue[k].frame # frame
  BY <1>1, <1>5 DEF Fenced
<1>7. ASSUME NEW g \in Frames
      PROVE  fence'[g] <=> \A k \in 1..Len(queue') : queue'[k].op = "render" => queue'[k].frame # g
  <2>1. CASE g = frame
    BY <1>1, <1>3, <1>4, <2>1
  <2>2. CASE g # frame
    <3>1. ASSUME \A k \in 1..Len(queue') : queue'[k].op = "render" => queue'[k].frame # g,
                 NEW k \in 1..Len(queue), queue[k].op = "render"
          PROVE  queue[k].frame # g
      BY <1>4, <3>1
    <3>2. ASSUME \A k \in 1..Len(queue) : queue[k].op = "render" => queue[k].frame # g,
                 NEW k \in 1..Len(queue'), queue'[k].op = "render"
          PROVE  queue'[k].frame # g
      BY <1>1, <1>4, <2>2, <3>2
    <3>3. fence'[g] = fence[g]
      BY <1>3, <2>2
    <3> QED BY <1>5, <3>1, <3>2, <3>3 DEF Fenced
  <2> QED BY <2>1, <2>2
<1>8. ASSUME NEW j \in 1..Len(queue'), NEW k \in 1..Len(queue'),
             queue'[j].op = "render", queue'[k].op = "render", queue'[j].frame = queue'[k].frame
      PROVE  j = k
  BY <1>1, <1>4, <1>5, <1>6, <1>8 DEF Fenced
<1>9. \A g \in Frames : signal'[g] = 1 => fence'[g]
  BY <1>3, <1>5 DEF Fenced
<1> QED BY <1>3, <1>4, <1>7, <1>8, <1>9, FencedIsExactNext DEF Fenced

-----------------------------------------------------------------------------
(* Each action keeps the invariant.                                          *)

LEMMA FrameCounterWraps == frame \in Frames => NextFrame \in Frames
<1> SUFFICES ASSUME frame \in Frames PROVE NextFrame \in Frames
  OBVIOUS
<1>1. MaxFrames \in Nat /\ MaxFrames > 0 /\ frame \in Nat
  BY FrameAssumption DEF Frames
<1>2. (frame + 1) % MaxFrames \in 0..(MaxFrames - 1)
  BY <1>1
<1> QED BY <1>2 DEF NextFrame, Frames

LEMMA ExactUnchanged ==
  ASSUME FencesExact, UNCHANGED <<fence, signal, queue>>
  PROVE  FencesExact'
BY DEF FencesExact, Renders, Pos

LEMMA LockKeepsIInv == IInv /\ LockFrame => IInv'
<1> SUFFICES ASSUME IInv, LockFrame PROVE IInv'
  OBVIOUS
<1>1. TypeOK /\ FencesExact /\ fence_lock(frame) /\ frame \in Frames
      /\ UNCHANGED <<fence, queue, refused, kept>>
  BY DEF IInv, LockFrame, TypeOK
<1>2. signal' \in [Frames -> {0, 1, 2}] /\ FencesExact' /\ signal'[frame] = 1
  BY <1>1, LockKeepsFenced
<1>3. TypeOK'
  BY <1>1, <1>2 DEF LockFrame, TypeOK
<1>4. StatesInStep' /\ FrameTaken'
  BY <1>2 DEF IInv, StatesInStep, FrameTaken, LockFrame
<1> QED BY <1>2, <1>3, <1>4 DEF IInv

LEMMA FailKeepsIInv == IInv /\ (LockFrameFails \/ AcquireFails) => IInv'
<1> SUFFICES ASSUME IInv, LockFrameFails \/ AcquireFails PROVE IInv'
  OBVIOUS
<1>1. /\ pc \in {"begin", "acquire"} /\ pc' = "end"
      /\ UNCHANGED <<frame, img_index, state, signal, fence, images_in_flight,
                     image_sem, queue_sem, queue, refused, kept>>
      /\ failed' = TRUE
  BY DEF LockFrameFails, AcquireFails
<1>2. TypeOK'
  BY <1>1 DEF IInv, TypeOK
<1>3. FencesExact'
  BY <1>1, ExactUnchanged DEF IInv
<1>4. StatesInStep' /\ FrameTaken'
  BY <1>1 DEF IInv, TypeOK, StatesInStep, FrameTaken
<1> QED BY <1>2, <1>3, <1>4 DEF IInv

LEMMA AcquireKeepsIInv == IInv /\ Acquire => IInv'
<1> SUFFICES ASSUME IInv, Acquire PROVE IInv'
  OBVIOUS
<1> USE DEF IInv
<1>1. PICK i \in Images :
        /\ ImageAcquired(i) /\ img_index' = i
        /\ IF state[i] = "INITIAL"
           THEN state' = [state EXCEPT ![i] = "IN_RENDERPASS"] /\ pc' = "end"
           ELSE pc' = "aborted" /\ UNCHANGED state
  BY DEF Acquire, Recorded, cmdbuf_begin, renderpass_begin
<1>2. pc = "acquire" /\ UNCHANGED <<frame, signal, fence, images_in_flight, queue_sem, failed, refused, kept>>
  BY DEF Acquire
<1>3. queue' \in Seq(Batch) /\ SameRenders(queue, queue', 0) /\ image_sem' \in [Frames -> BOOLEAN]
  BY <1>1, AcquiredMoves
<1>4. FencesExact'
  BY <1>2, <1>3, MovesKeepFenced
<1>5. state \in [Images -> CmdState] /\ \A j \in Images : state[j] = "INITIAL"
  BY <1>2 DEF TypeOK, StatesInStep
<1>6. state' \in [Images -> CmdState] /\ pc' = "end" /\ \A j \in Images \ {i} : state'[j] = "INITIAL"
  BY <1>1, <1>5 DEF CmdState
<1>7. TypeOK'
  BY <1>1, <1>2, <1>3, <1>6 DEF TypeOK
<1>8. StatesInStep' /\ FrameTaken'
  BY <1>1, <1>2, <1>6 DEF StatesInStep, FrameTaken
<1> QED BY <1>4, <1>7, <1>8

LEMMA EndKeepsIInv == IInv /\ EndRecording => IInv'
<1> SUFFICES ASSUME IInv, EndRecording PROVE IInv'
  OBVIOUS
<1> USE DEF IInv
<1>1. /\ pc = "end"
      /\ UNCHANGED <<frame, img_index, signal, fence, images_in_flight, image_sem, queue_sem, queue, failed,
                     refused, kept>>
  BY DEF EndRecording
<1>2. FencesExact'
  BY <1>1, ExactUnchanged
<1>3. state \in [Images -> CmdState] /\ img_index \in Images
  BY DEF TypeOK
<1>4. CASE state[img_index] = "IN_RENDERPASS"
  <2>1. state' = [state EXCEPT ![img_index] = "READY"] /\ pc' = "wait"
    BY <1>4 DEF EndRecording, Recorded, renderpass_end, cmdbuf_end
  <2>2. state' \in [Images -> CmdState] /\ state'[img_index] = "READY"
        /\ \A j \in Images \ {img_index} : state'[j] = state[j]
    BY <1>3, <2>1 DEF CmdState
  <2>3. TypeOK'
    BY <1>1, <2>1, <2>2 DEF TypeOK
  <2>4. StatesInStep' /\ FrameTaken'
    BY <1>1, <1>4, <2>1, <2>2 DEF StatesInStep, FrameTaken
  <2> QED BY <1>2, <2>3, <2>4
<1>5. CASE state[img_index] # "IN_RENDERPASS"
  <2>1. pc' = "aborted" /\ UNCHANGED state
    BY <1>5 DEF EndRecording, Recorded, renderpass_end, cmdbuf_end
  <2> QED BY <1>1, <1>2, <2>1 DEF TypeOK, StatesInStep, FrameTaken
<1> QED BY <1>4, <1>5

LEMMA WaitKeepsIInv == IInv /\ (WaitImage \/ WaitImageFails) => IInv'
<1> SUFFICES ASSUME IInv, WaitImage \/ WaitImageFails PROVE IInv'
  OBVIOUS
<1> USE DEF IInv
<1>1. /\ pc = "wait" /\ pc' = "submit"
      /\ UNCHANGED <<frame, img_index, state, fence, images_in_flight, image_sem, queue_sem, queue,
                     refused, kept>>
      /\ failed' = failed \/ failed' = TRUE
  BY DEF WaitImage, WaitImageFails
<1>2. /\ signal' \in [Frames -> {0, 1, 2}] /\ FencesExact'
      /\ signal[frame] = 1 => signal'[frame] = 1
  <2>1. CASE UNCHANGED signal
    BY <1>1, <2>1, ExactUnchanged DEF TypeOK
  <2>2. CASE WaitImage /\ images_in_flight[img_index] # NULL
    <3> DEFINE f == images_in_flight[img_index]
    <3>1. f \in Frames /\ fence_lock(f) /\ frame \in Frames /\ signal \in [Frames -> {0, 1, 2}]
      BY <2>2 DEF WaitImage, TypeOK
    <3>2. signal' = [signal EXCEPT ![f] = 1]
      BY <3>1 DEF fence_lock
    <3> HIDE DEF f
    <3>3. signal' \in [Frames -> {0, 1, 2}] /\ FencesExact'
      BY <1>1, <3>1, LockKeepsFenced
    <3>4. signal[frame] = 1 => signal'[frame] = 1
      BY <3>1, <3>2
    <3> QED BY <3>3, <3>4
  <2> QED BY <2>1, <2>2 DEF WaitImage, WaitImageFails
<1>3. TypeOK'
  BY <1>1, <1>2 DEF TypeOK
<1>4. StatesInStep' /\ FrameTaken'
  BY <1>1, <1>2 DEF StatesInStep, FrameTaken
<1> QED BY <1>2, <1>3, <1>4

LEMMA SubmitKeepsIInv == IInv /\ Submit => IInv'
<1> SUFFICES ASSUME IInv, Submit PROVE IInv'
  OBVIOUS
<1> USE DEF IInv
<1>1. pc = "submit" /\ signal[frame] = 1 /\ state[img_index] = "READY"
  BY DEF Submit, FrameTaken, StatesInStep
<1>2. queue' \in Seq(Batch) /\ FencesExact'
      /\ fence' \in [Frames -> BOOLEAN] /\ signal' \in [Frames -> {0, 1, 2}]
  BY <1>1, SubmitKeepsFenced
<1>3. /\ state' = [state EXCEPT ![img_index] = "SUBMITTED"]
      /\ images_in_flight' = [images_in_flight EXCEPT ![img_index] = frame]
      /\ pc' = "present" /\ UNCHANGED <<frame, img_index, image_sem, queue_sem, failed, refused, kept>>
  BY <1>1 DEF Submit, cmdbuf_submit
<1>4. state' \in [Images -> CmdState] /\ \A j \in Images \ {img_index} : state'[j] = state[j]
  BY <1>3 DEF TypeOK, CmdState
<1>5. images_in_flight' \in [Images -> Frames \cup {NULL}]
  BY <1>3 DEF TypeOK
<1>6. TypeOK'
  BY <1>2, <1>3, <1>4, <1>5 DEF TypeOK
<1>7. StatesInStep' /\ FrameTaken'
  BY <1>1, <1>3, <1>4 DEF StatesInStep, FrameTaken
<1> QED BY <1>2, <1>6, <1>7

LEMMA PresentKeepsIInv == IInv /\ (Present \/ PresentFails) => IInv'
<1> SUFFICES ASSUME IInv, Present \/ PresentFails PROVE IInv'
  OBVIOUS
<1> USE DEF IInv
<1>1. /\ pc = "present" /\ pc' = "begin" /\ frame' = NextFrame
      /\ state' = [state EXCEPT ![img_index] = "INITIAL"]
      /\ UNCHANGED <<img_index, signal, fence, images_in_flight, image_sem, queue_sem, failed>>
  BY DEF Present, vkswapchain_present, PresentFails, vkswapchain_present_fails, cmdbuf_reset
<1>2. queue' \in Seq(Batch) /\ FencesExact'
  <2>1. CASE Present
    BY <1>1, <2>1, PresentMoves, MovesKeepFenced
  <2>2. CASE PresentFails
    <3>1. UNCHANGED queue
      BY <2>2 DEF PresentFails, vkswapchain_present_fails
    <3> QED BY <1>1, <3>1, ExactUnchanged DEF TypeOK
  <2> QED BY <2>1, <2>2
<1>3. refused' \subseteq Frames /\ kept' \subseteq Images
  BY DEF Present, vkswapchain_present, PresentFails, vkswapchain_present_fails, TypeOK
<1>4. state' \in [Images -> CmdState] /\ \A j \in Images : state'[j] = "INITIAL"
  BY <1>1 DEF TypeOK, CmdState, StatesInStep
<1>5. TypeOK'
  BY <1>1, <1>2, <1>3, <1>4, FrameCounterWraps DEF TypeOK
<1>6. StatesInStep' /\ FrameTaken'
  BY <1>1, <1>4 DEF StatesInStep, FrameTaken
<1> QED BY <1>2, <1>5, <1>6

LEMMA CloseKeepsIInv == IInv /\ (StartClose \/ Close) => IInv'
<1> SUFFICES ASSUME IInv, StartClose \/ Close PROVE IInv'
  OBVIOUS
<1>1. /\ \/ pc = "begin" /\ pc' = "closing"
         \/ pc = "closing" /\ pc' = "closed"
      /\ UNCHANGED <<frame, img_index, state, signal, fence, images_in_flight,
                     image_sem, queue_sem, queue, failed, refused, kept>>
  BY DEF StartClose, Close
<1>2. FencesExact'
  BY <1>1, ExactUnchanged DEF IInv
<1> QED BY <1>1, <1>2 DEF IInv, TypeOK, StatesInStep, FrameTaken

LEMMA GpuKeepsIInv == IInv /\ Gpu => IInv'
<1> SUFFICES ASSUME IInv, Gpu PROVE IInv'
  OBVIOUS
<1> USE DEF IInv
<1>1. UNCHANGED <<pc, frame, img_index, state, signal, images_in_flight, failed, refused, kept>>
  BY DEF Gpu, GpuRender, GpuPresent
<1>2. queue \in Seq(Batch) /\ queue # <<>> /\ queue' = Tail(queue)
  BY DEF Gpu, GpuRender, GpuPresent, TypeOK
<1>3. queue' \in Seq(Batch) /\ Head(queue) \in Batch
  BY <1>2, Popped
<1>4. Head(queue).frame \in Frames /\ Head(queue).sem \in Frames \cup {NULL}
  BY <1>3 DEF Batch
<1>5. image_sem' \in [Frames -> BOOLEAN] /\ queue_sem' \in [Frames -> BOOLEAN]
  BY <1>4 DEF Gpu, GpuRender, GpuPresent, TypeOK
<1>6. fence' \in [Frames -> BOOLEAN] /\ FencesExact'
  <2>1. CASE GpuRender
    BY <2>1, RenderKeepsFenced
  <2>2. CASE GpuPresent
    BY <2>2, GpuPresentMoves, MovesKeepFenced DEF GpuPresent, TypeOK
  <2> QED BY <2>1, <2>2 DEF Gpu
<1>7. TypeOK'
  BY <1>1, <1>3, <1>5, <1>6 DEF TypeOK
<1>8. StatesInStep' /\ FrameTaken'
  BY <1>1 DEF StatesInStep, FrameTaken
<1> QED BY <1>6, <1>7, <1>8

LEMMA InitIInv == Init => IInv
<1> SUFFICES ASSUME Init PROVE IInv
  OBVIOUS
<1>1. queue = <<>> /\ Len(queue) = 0 /\ queue \in Seq(Batch)
  BY EmptySeq DEF Init
<1>2. frame \in Frames
  BY FrameAssumption DEF Init, Frames
<1>3. TypeOK
  BY <1>1, <1>2 DEF Init, TypeOK, CmdState
<1>4. Fenced(queue, fence, signal)
  BY <1>1 DEF Init, Fenced
<1> QED BY <1>3, <1>4, FencedIsExact DEF IInv, Init, StatesInStep, FrameTaken

LEMMA NextIInv == IInv /\ [Next]_vars => IInv'
<1> SUFFICES ASSUME IInv, [Next]_vars PROVE IInv'
  OBVIOUS
<1>1. CASE UNCHANGED vars
  BY <1>1, ExactUnchanged DEF vars, IInv, TypeOK, StatesInStep, FrameTaken
<1>2. CASE Draw \/ DrawFails
  BY <1>2, LockKeepsIInv, FailKeepsIInv, AcquireKeepsIInv, EndKeepsIInv, WaitKeepsIInv,
     SubmitKeepsIInv, PresentKeepsIInv DEF Draw, DrawFails
<1> QED BY <1>1, <1>2, CloseKeepsIInv, GpuKeepsIInv DEF Next

\* For any number of frames in flight and of images, and whatever fails: a
\* fence is signalled exactly when no pending submission will signal it, no
\* two of them share a fence, and fence.c's cached signal never claims more
\* than the device does (fence.c:49-84, renderer.c:187-261).
THEOREM FencesAreExact == Spec => [](TypeOK /\ FencesExact)
<1>1. Spec => []IInv
  BY InitIInv, NextIInv, PTL DEF Spec
<1>2. IInv => TypeOK /\ FencesExact
  BY DEF IInv
<1> QED BY <1>1, <1>2, PTL

\* The frame loop stays within its types: whatever fails, the current frame and
\* image, the queue and the caches hold what they are meant to hold.
THEOREM FrameTypes == Spec => []TypeOK
BY FencesAreExact, PTL

-----------------------------------------------------------------------------
(***************************************************************************)
(* No image is drawn by two batches, as long as no wait fails.             *)
(***************************************************************************)

\* A pending submission is the last use of its image.
DrawnBy == \A k \in Renders : images_in_flight[queue[k].img] = queue[k].frame

\* What _end_frame is about to submit is not pending.
IdleAtSubmit == pc = "submit" => \A k \in Renders : queue[k].img # img_index

DInv == DrawnBy /\ IdleAtSubmit

LEMMA DrawnIsExclusive == FencesExact /\ DrawnBy => ImageExclusive
BY DEF FencesExact, DrawnBy, ImageExclusive

\* Steps that queue no submission keep DInv, unless they go to the submission.
LEMMA MovesKeepDInv ==
  ASSUME DInv, UNCHANGED images_in_flight, NEW s \in {0, 1},
         \A k \in Renders' : /\ k + s \in Renders
                             /\ queue'[k].img = queue[k + s].img
                             /\ queue'[k].frame = queue[k + s].frame,
         pc' # "submit" \/ UNCHANGED <<pc, img_index>>
  PROVE  DInv'
<1>1. DrawnBy'
  BY DEF DInv, DrawnBy
<1>2. IdleAtSubmit'
  BY DEF DInv, IdleAtSubmit
<1> QED BY <1>1, <1>2 DEF DInv

LEMMA SameRendersMove ==
  ASSUME NEW s \in {0, 1}, SameRenders(queue, queue', s)
  PROVE  \A k \in Renders' : /\ k + s \in Renders
                             /\ queue'[k].img = queue[k + s].img
                             /\ queue'[k].frame = queue[k + s].frame
BY DEF SameRenders, Renders, Pos

\* Waiting for the frame that drew the image last, or finding that there is
\* none, shows that the image is drawn by no pending submission.
LEMMA WaitKeepsDInv ==
  ASSUME IInv, DInv, WaitImage
  PROVE  DInv'
<1>1. DrawnBy'
  BY DEF DInv, DrawnBy, WaitImage, Renders, Pos
<1>2. \A k \in Renders : queue[k].img # img_index
  <2> SUFFICES ASSUME NEW k \in Renders, queue[k].img = img_index
               PROVE  FALSE
    OBVIOUS
  <2>1. queue[k] \in Batch
    BY ElementOfSeq DEF IInv, TypeOK, Renders, Pos
  <2>2. queue[k].frame \in Frames /\ images_in_flight[img_index] = queue[k].frame
    BY <2>1 DEF Batch, DInv, DrawnBy
  <2>3. images_in_flight[img_index] # NULL
    BY <2>2, FrameAssumption DEF Frames
  <2>4. fence_lock(queue[k].frame)
    BY <2>2, <2>3 DEF WaitImage
  <2>5. fence[queue[k].frame]
    BY <2>2, <2>4 DEF fence_lock, IInv, FencesExact
  <2> QED BY <2>2, <2>5 DEF IInv, FencesExact
<1>3. IdleAtSubmit'
  BY <1>2 DEF WaitImage, IdleAtSubmit, Renders, Pos
<1> QED BY <1>1, <1>3 DEF DInv

LEMMA SubmitKeepsDInv ==
  ASSUME IInv, DInv, Submit
  PROVE  DInv'
<1> DEFINE b == [op |-> "render", img |-> img_index, frame |-> frame, sem |-> NULL]
<1>1. queue \in Seq(Batch) /\ b \in Batch /\ queue' = Append(queue, b)
      /\ b.op = "render" /\ b.img = img_index /\ b.frame = frame
  BY DEF IInv, Submit, cmdbuf_submit, TypeOK, Batch, StatesInStep
<1> HIDE DEF b
<1>2. (\A k \in 1..Len(queue) : k \in 1..Len(queue') /\ queue'[k] = queue[k])
      /\ queue'[Len(queue')] = b
      /\ \A k \in 1..Len(queue') : k # Len(queue') => k \in 1..Len(queue)
  BY <1>1, Queued
<1>3. /\ images_in_flight' = [images_in_flight EXCEPT ![img_index] = frame]
      /\ images_in_flight \in [Images -> Frames \cup {NULL}] /\ img_index \in Images
      /\ pc = "submit" /\ pc' = "present"
  BY DEF Submit, IInv, TypeOK
<1>4. \A k \in Renders : queue[k].img # img_index /\ queue[k].img \in Images
  <2> SUFFICES ASSUME NEW k \in Renders
               PROVE  queue[k].img # img_index /\ queue[k].img \in Images
    OBVIOUS
  <2>1. queue[k] \in Batch
    BY <1>1, ElementOfSeq DEF Renders, Pos
  <2> QED BY <1>3, <2>1 DEF DInv, IdleAtSubmit, Batch
<1>5. ASSUME NEW k \in Renders'
      PROVE  images_in_flight'[queue'[k].img] = queue'[k].frame
  <2>1. CASE k = Len(queue')
    BY <1>1, <1>2, <1>3, <2>1
  <2>2. CASE k # Len(queue')
    <3>1. k \in Renders /\ queue'[k] = queue[k]
      BY <1>2, <1>5, <2>2 DEF Renders, Pos
    <3> QED BY <1>3, <1>4, <3>1 DEF DInv, DrawnBy
  <2> QED BY <2>1, <2>2
<1> QED BY <1>3, <1>5 DEF DInv, DrawnBy, IdleAtSubmit

\* A failure is not forgotten.
LEMMA FailedStays == [Next]_vars /\ failed => failed'
BY DEF Next, Draw, DrawFails, Gpu, vars, LockFrame, LockFrameFails, Acquire, AcquireFails,
       EndRecording, WaitImage, WaitImageFails, Submit, Present, StartClose, Close,
       GpuRender, GpuPresent, PresentFails

LEMMA NextDInv == IInv /\ (failed \/ DInv) /\ [Next]_vars => failed' \/ DInv'
<1> SUFFICES ASSUME IInv, DInv, [Next]_vars, ~ failed' PROVE DInv'
  BY FailedStays
<1>0. Len(queue) \in Nat
  BY LenProperties DEF IInv, TypeOK
<1>1. ASSUME UNCHANGED queue
      PROVE  \A k \in Renders' : /\ k + 0 \in Renders
                                 /\ queue'[k].img = queue[k + 0].img
                                 /\ queue'[k].frame = queue[k + 0].frame
  BY <1>0, <1>1 DEF Renders, Pos
<1>2. CASE LockFrame \/ EndRecording \/ PresentFails \/ StartClose \/ Close
  BY <1>1, <1>2, MovesKeepDInv DEF LockFrame, EndRecording, Recorded, PresentFails,
     vkswapchain_present_fails, StartClose, Close
<1>3. CASE Acquire
  <2>1. SameRenders(queue, queue', 0)
    BY <1>3, AcquiredMoves DEF Acquire, IInv
  <2>2. pc' # "submit" /\ UNCHANGED images_in_flight
    BY <1>3 DEF Acquire, Recorded
  <2> QED BY <2>1, <2>2, SameRendersMove, MovesKeepDInv
<1>4. CASE Present
  <2>1. SameRenders(queue, queue', 0)
    BY <1>4, PresentMoves DEF IInv
  <2> QED BY <1>4, <2>1, SameRendersMove, MovesKeepDInv DEF Present
<1>5. CASE Gpu
  <2>1. queue \in Seq(Batch) /\ queue # <<>> /\ queue' = Tail(queue)
    BY <1>5 DEF Gpu, GpuRender, GpuPresent, IInv, TypeOK
  <2>2. \A k \in 1..Len(queue') : k + 1 \in 1..Len(queue) /\ queue'[k] = queue[k + 1]
    BY <2>1, Popped
  <2>3. \A k \in Renders' : /\ k + 1 \in Renders
                            /\ queue'[k].img = queue[k + 1].img
                            /\ queue'[k].frame = queue[k + 1].frame
    BY <2>2 DEF Renders, Pos
  <2> QED BY <1>5, <2>3, MovesKeepDInv DEF Gpu, GpuRender, GpuPresent
<1>6. CASE UNCHANGED vars
  BY <1>1, <1>6, MovesKeepDInv DEF vars
<1>7. ~ (LockFrameFails \/ AcquireFails \/ WaitImageFails)
  BY DEF LockFrameFails, AcquireFails, WaitImageFails
<1> QED BY <1>2, <1>3, <1>4, <1>5, <1>6, <1>7, WaitKeepsDInv, SubmitKeepsDInv
        DEF Next, Draw, DrawFails

\* While waits and acquisitions do not fail, no image is drawn by two pending
\* submissions, however early the presentation engine hands it out again and
\* however many frames are in flight (renderer.c:237-251).
THEOREM ImagesAreExclusive == Spec => []ImageExclusive
<1>1. Init => DInv
  <2> SUFFICES ASSUME Init PROVE DInv
    OBVIOUS
  <2>1. Len(queue) = 0
    BY EmptySeq DEF Init
  <2> QED BY <2>1 DEF Init, DInv, DrawnBy, IdleAtSubmit, Renders, Pos
<1>2. Spec => [](IInv /\ (failed \/ DInv))
  BY <1>1, InitIInv, NextIInv, NextDInv, PTL DEF Spec
<1>3. IInv /\ (failed \/ DInv) => ImageExclusive
  BY DrawnIsExclusive DEF IInv, DInv, ImageExclusive
<1> QED BY <1>2, <1>3, PTL

-----------------------------------------------------------------------------
(***************************************************************************)
(* The semaphores: each is signalled only when it is free, no batch waits  *)
(* for one that nothing will signal, and the engine runs ahead of the      *)
(* display by its frames in flight at most.                                *)
(*                                                                         *)
(* None of this is inductive alone.  It rests on the order of the queue:   *)
(* each presentation is right behind the submission of its frame, and so   *)
(* is each submission right in front of one unless its frame was refused   *)
(* (InPairs), so a queue semaphore is signalled for the presentation the   *)
(* display has come to, and for no other but a refused frame's (Shown);    *)
(* and on who is to use an image semaphore, the frame between its          *)
(* acquisition and the execution of its batch (Bound, Promises).           *)
(***************************************************************************)

\* The frame has its image, and has not submitted its batch.
Held == \/ pc \in {"wait", "submit"}
        \/ (pc = "end" /\ state[img_index] = "IN_RENDERPASS")

\* Frame f has acquired its image, and its batch has not run.
Bound(f) == \/ \E k \in Renders : queue[k].frame = f
            \/ (Held /\ f = frame)

\* A presentation will signal the image semaphore of frame f.
Promised(f) == \E k \in Pos : queue[k].sem = f

\* Each presentation follows the submission of its frame.  Each submission is
\* followed by a presentation, unless its frame had one refused; that of the last
\* one may be still to come.
InPairs ==
  /\ \A k \in Pos : k - 1 \in Pos /\ queue[k].op = "present" =>
       queue[k - 1].op = "render" /\ queue[k].frame = queue[k - 1].frame
  /\ \A k \in Pos : queue[k].op = "render" /\ queue[k].frame \notin refused =>
       \/ k + 1 \in Pos /\ queue[k + 1].op = "present"
       \/ k = Len(queue) /\ pc = "present" /\ queue[k].frame = frame
  /\ queue # <<>> /\ pc = "present" =>
       queue[Len(queue)].op = "render" /\ queue[Len(queue)].frame = frame

\* Frame f has been rendered and is what the display shows next.
NextToShow(f) ==
  IF queue = <<>> THEN pc = "present" /\ f = frame
  ELSE queue[1].op = "present" /\ queue[1].frame = f

Shown ==
  /\ \A f \in Frames : NextToShow(f) => queue_sem[f]
  /\ \A f \in Frames \ refused : queue_sem[f] => NextToShow(f)

\* The image semaphore of a frame that needs one is signalled or promised, never
\* both, and only once.
Promises ==
  /\ \A k \in Renders : queue[k].sem = NULL
  /\ \A f \in Frames : Promised(f) => ~ image_sem[f]
  /\ \A f \in Frames : image_sem[f] \/ Promised(f) => Bound(f)
  /\ \A j, k \in Pos : queue[j].sem = queue[k].sem /\ queue[j].sem # NULL => j = k
  /\ \A k \in Renders :
       \/ image_sem[queue[k].frame]
       \/ \E j \in Presents : j < k /\ queue[j].sem = queue[k].frame
  /\ Held => image_sem[frame] \/ Promised(frame)

OInv == InPairs /\ Shown /\ Promises

-----------------------------------------------------------------------------
LEMMA BatchesAreTyped ==
  ASSUME IInv, NEW k \in Pos
  PROVE  queue[k] \in Batch /\ queue[k].frame \in Frames /\ queue[k].frame # NULL
<1>1. queue[k] \in Batch
  BY ElementOfSeq DEF IInv, TypeOK, Pos
<1> QED BY <1>1, FrameAssumption DEF Batch, Frames

\* A frame that has just locked its fence has no batch pending.
LEMMA TakenIsNotPending ==
  ASSUME IInv, Held \/ pc = "acquire"
  PROVE  \A k \in Renders : queue[k].frame # frame
<1>1. signal[frame] = 1 /\ frame \in Frames
  BY DEF IInv, FrameTaken, Held, TypeOK
<1> QED BY <1>1 DEF IInv, FencesExact

\* The properties follow.
LEMMA OrderIsFresh == IInv /\ OInv => SemaphoresFresh
<1> SUFFICES ASSUME IInv, OInv PROVE SemaphoresFresh
  OBVIOUS
<1>1. ASSUME pc = "acquire"
      PROVE  ~ image_sem[frame] /\ ~ Promised(frame) /\ \A k \in Renders : queue[k].frame # frame
  <2>1. \A k \in Renders : queue[k].frame # frame
    BY <1>1, TakenIsNotPending
  <2>2. ~ Bound(frame) /\ frame \in Frames
    BY <1>1, <2>1 DEF Bound, Held, IInv, TypeOK
  <2> QED BY <2>1, <2>2 DEF OInv, Promises
<1>2. ASSUME 1 \in Renders, queue[1].frame \notin refused
      PROVE  ~ queue_sem[queue[1].frame]
  <2>1. queue[1] \in Batch /\ queue[1].op = "render" /\ queue # <<>>
    BY <1>2, ElementOfSeq, EmptySeq DEF IInv, TypeOK, Renders, Pos
  <2>2. queue[1].frame \in Frames /\ ~ NextToShow(queue[1].frame)
    BY <2>1 DEF Batch, NextToShow
  <2> QED BY <1>2, <2>2 DEF OInv, Shown
<1> QED BY <1>1, <1>2 DEF SemaphoresFresh, Promised

LEMMA OrderMeetsWaits == IInv /\ OInv => WaitsAreMet
<1> SUFFICES ASSUME IInv, OInv, NEW k \in Presents
             PROVE  \/ queue_sem[queue[k].frame]
                    \/ \E j \in Renders : j < k /\ queue[j].frame = queue[k].frame
  BY DEF OInv, Promises, WaitsAreMet
<1>1. queue \in Seq(Batch) /\ k \in 1..Len(queue) /\ queue[k].op = "present" /\ Len(queue) \in Nat
  BY LenProperties DEF Presents, Pos, IInv, TypeOK
<1>2. queue[k].frame \in Frames /\ queue # <<>>
  BY <1>1, BatchesAreTyped, EmptySeq DEF Pos
<1>3. CASE k = 1
  BY <1>1, <1>2, <1>3 DEF OInv, Shown, NextToShow
<1>4. CASE k # 1
  <2>1. k - 1 \in Pos /\ k - 1 < k
    BY <1>1, <1>4 DEF Pos
  <2>2. queue[k - 1].op = "render" /\ queue[k].frame = queue[k - 1].frame
    BY <1>1, <2>1 DEF OInv, InPairs, Pos
  <2> QED BY <2>1, <2>2 DEF Renders
<1> QED BY <1>3, <1>4

-----------------------------------------------------------------------------
(* Each step keeps the order.                                                *)

\* What becomes of OInv when neither the queue nor a semaphore changes.
LEMMA QuietKeepsOInv ==
  ASSUME OInv, UNCHANGED <<frame, queue, image_sem, queue_sem, refused>>,
         pc = "present" <=> pc' = "present", Held <=> Held'
  PROVE  OInv'
<1>1. InPairs'
  BY DEF OInv, InPairs, Pos
<1>2. Shown'
  BY DEF OInv, Shown, NextToShow
<1>3. Renders' = Renders /\ Presents' = Presents /\ Pos' = Pos
  BY DEF Renders, Presents, Pos
<1>4. \A f \in Frames : (Bound(f)' <=> Bound(f)) /\ (Promised(f)' <=> Promised(f))
  BY <1>3 DEF Bound, Promised
<1>5. (Held' => image_sem'[frame'] \/ Promised(frame)')
  BY <1>3 DEF OInv, Promises, Promised
<1>6. Promises'
  BY <1>3, <1>4, <1>5 DEF OInv, Promises
<1> QED BY <1>1, <1>2, <1>6 DEF OInv

LEMMA DrawsQuietly ==
  ASSUME IInv, OInv,
         \/ LockFrame \/ LockFrameFails \/ AcquireFails \/ EndRecording
         \/ WaitImage \/ WaitImageFails \/ StartClose \/ Close
  PROVE  OInv'
<1>1. UNCHANGED <<frame, queue, image_sem, queue_sem, refused>> /\ pc # "present" /\ pc' # "present"
  BY DEF LockFrame, LockFrameFails, AcquireFails, EndRecording, Recorded, WaitImage,
         WaitImageFails, StartClose, Close
<1>2. CASE LockFrame \/ StartClose \/ Close
  BY <1>1, <1>2, QuietKeepsOInv DEF LockFrame, StartClose, Close, Held
<1>3. CASE LockFrameFails \/ AcquireFails
  <2>1. pc \in {"begin", "acquire"} /\ pc' = "end" /\ UNCHANGED <<state, img_index>>
    BY <1>3 DEF LockFrameFails, AcquireFails
  <2>2. state[img_index] = "INITIAL"
    BY <2>1 DEF IInv, TypeOK, StatesInStep
  <2> QED BY <1>1, <2>1, <2>2, QuietKeepsOInv DEF Held
<1>4. CASE EndRecording
  <2>1. pc = "end" /\ UNCHANGED img_index
        /\ IF state[img_index] = "IN_RENDERPASS" THEN pc' = "wait"
           ELSE pc' = "aborted" /\ UNCHANGED state
    BY <1>4 DEF EndRecording, Recorded, renderpass_end, cmdbuf_end
  <2> QED BY <1>1, <2>1, QuietKeepsOInv DEF Held
<1>5. CASE WaitImage \/ WaitImageFails
  BY <1>1, <1>5, QuietKeepsOInv DEF WaitImage, WaitImageFails, Held
<1> QED BY <1>2, <1>3, <1>4, <1>5

\* The frame is bound to its image semaphore as it acquires.
LEMMA AcquireKeepsOInv ==
  ASSUME IInv, OInv, Acquire
  PROVE  OInv'
<1>1. PICK i \in Images :
        ImageAcquired(i) /\ img_index' = i
        /\ Recorded(i, renderpass_begin(cmdbuf_begin(state[i])), "end")
  BY DEF Acquire
<1>2. pc = "acquire" /\ UNCHANGED <<frame, queue_sem, refused>> /\ queue \in Seq(Batch) /\ Len(queue) \in Nat
      /\ frame \in Frames /\ image_sem \in [Frames -> BOOLEAN]
  BY LenProperties DEF Acquire, IInv, TypeOK
<1>3. pc' = "end" /\ Held'
  <2>1. state[i] = "INITIAL" /\ state \in [Images -> CmdState]
    BY <1>2 DEF IInv, StatesInStep, TypeOK
  <2>2. pc' = "end" /\ state' = [state EXCEPT ![i] = "IN_RENDERPASS"]
    BY <1>1, <2>1 DEF Recorded, renderpass_begin, cmdbuf_begin
  <2> QED BY <1>1, <2>1, <2>2 DEF Held
<1>4. ~ Bound(frame) /\ ~ Held
  BY <1>2, TakenIsNotPending DEF Bound, Held
<1>5. ~ image_sem[frame] /\ ~ Promised(frame)
  BY <1>2, <1>4 DEF OInv, Promises
<1>6. CASE UNCHANGED queue /\ image_sem' = [image_sem EXCEPT ![frame] = TRUE]
  <2>1. Renders' = Renders /\ Presents' = Presents /\ Pos' = Pos
    BY <1>6 DEF Renders, Presents, Pos
  <2>2. InPairs' /\ Shown'
    BY <1>2, <1>3, <1>6, <2>1 DEF OInv, InPairs, Shown, NextToShow
  <2>3. \A f \in Frames : /\ Promised(f)' <=> Promised(f)
                          /\ Bound(f)' <=> Bound(f) \/ f = frame
    BY <1>2, <1>3, <1>4, <1>6, <2>1 DEF Promised, Bound
  <2>4. image_sem'[frame] /\ \A f \in Frames \ {frame} : image_sem'[f] = image_sem[f]
    BY <1>2, <1>6
  <2>5. \A k \in Renders : queue[k].frame \in Frames
    BY BatchesAreTyped DEF Renders
  <2>6. \A k \in Renders' :
          \/ image_sem'[queue'[k].frame]
          \/ \E j \in Presents' : j < k /\ queue'[j].sem = queue'[k].frame
    BY <1>6, <2>1, <2>4, <2>5 DEF OInv, Promises
  <2>7. Promises'
    BY <1>2, <1>5, <1>6, <2>1, <2>3, <2>4, <2>6 DEF OInv, Promises
  <2> QED BY <2>2, <2>7 DEF OInv
<1>7. CASE UNCHANGED image_sem /\ \E k \in Presents :
             queue[k].img = i /\ queue[k].sem = NULL /\ queue' = [queue EXCEPT ![k].sem = frame]
  <2>1. PICK k \in Presents : queue[k].sem = NULL /\ queue' = [queue EXCEPT ![k].sem = frame]
    BY <1>7
  <2>2. k \in 1..Len(queue)
    BY DEF Presents, Pos
  <2>3. queue' \in Seq(Batch) /\ Len(queue') = Len(queue)
        /\ \A j \in 1..Len(queue) : /\ queue'[j].op = queue[j].op
                                    /\ queue'[j].img = queue[j].img
                                    /\ queue'[j].frame = queue[j].frame
                                    /\ queue'[j].sem = IF j = k THEN frame ELSE queue[j].sem
    <3>1. queue \in Seq(Batch) /\ frame \in Frames /\ queue' = [queue EXCEPT ![k].sem = frame]
      BY <1>2, <2>1
    <3> QED BY <2>2, <3>1, Marked
  <2>4. Renders' = Renders /\ Presents' = Presents /\ Pos' = Pos
    BY <2>3 DEF Renders, Presents, Pos
  <2>5. queue # <<>> /\ queue' # <<>> /\ 1 \in 1..Len(queue) /\ Len(queue) \in 1..Len(queue)
    BY <1>2, <2>2, <2>3, EmptySeq
  <2>6. InPairs'
    BY <1>2, <1>3, <2>3, <2>4, <2>5 DEF OInv, InPairs, Pos
  <2>7. Shown'
    BY <1>2, <2>3, <2>5 DEF OInv, Shown, NextToShow
  <2>8. \A f \in Frames : /\ Promised(f)' <=> Promised(f) \/ f = frame
                          /\ Bound(f)' <=> Bound(f) \/ f = frame
    <3> SUFFICES ASSUME NEW f \in Frames
                 PROVE  /\ Promised(f)' <=> Promised(f) \/ f = frame
                        /\ Bound(f)' <=> Bound(f) \/ f = frame
      OBVIOUS
    <3>1. Bound(f)' <=> Bound(f) \/ f = frame
      BY <1>2, <1>3, <1>4, <2>3, <2>4 DEF Bound, Renders, Pos
    <3>2. f # NULL
      BY FrameAssumption DEF Frames
    <3>3. Promised(f)' <=> Promised(f) \/ f = frame
      BY <2>1, <2>2, <2>3, <2>4, <3>2 DEF Promised, Pos
    <3> QED BY <3>1, <3>3
  <2>9. \A j \in Renders' : queue'[j].sem = NULL
    BY <2>2, <2>3, <2>4 DEF OInv, Promises, Renders, Presents, Pos
  <2>10. \A j, l \in Pos' : queue'[j].sem = queue'[l].sem /\ queue'[j].sem # NULL => j = l
    BY <1>5, <2>3, <2>4 DEF OInv, Promises, Promised, Pos
  <2>11. ASSUME NEW l \in Renders'
         PROVE  \/ image_sem'[queue'[l].frame]
                \/ \E j \in Presents' : j < l /\ queue'[j].sem = queue'[l].frame
    <3>1. l \in Renders /\ l \in 1..Len(queue) /\ queue'[l].frame = queue[l].frame
      BY <2>3, <2>4 DEF Renders, Pos
    <3>3. queue[l].frame # NULL
      BY <3>1, BatchesAreTyped DEF Pos
    <3>4. CASE image_sem[queue[l].frame]
      BY <1>7, <3>1, <3>4
    <3>5. CASE \E j \in Presents : j < l /\ queue[j].sem = queue[l].frame
      <4>1. PICK j \in Presents : j < l /\ queue[j].sem = queue[l].frame
        BY <3>5
      <4>2. j # k /\ j \in 1..Len(queue)
        BY <2>1, <3>3, <4>1 DEF Presents, Pos
      <4>3. queue'[j].sem = queue'[l].frame
        BY <2>3, <3>1, <4>1, <4>2
      <4> QED BY <2>4, <4>1, <4>3
    <3> QED BY <3>1, <3>4, <3>5 DEF OInv, Promises
  <2>12. Promises'
    BY <1>2, <1>5, <1>7, <2>8, <2>9, <2>10, <2>11 DEF OInv, Promises
  <2> QED BY <2>6, <2>7, <2>12 DEF OInv
<1> QED BY <1>1, <1>6, <1>7 DEF ImageAcquired

\* The frame hands its image over to the batch it submits.
LEMMA SubmitKeepsOInv ==
  ASSUME IInv, OInv, Submit
  PROVE  OInv'
<1> DEFINE b == [op |-> "render", img |-> img_index, frame |-> frame, sem |-> NULL]
<1>1. queue \in Seq(Batch) /\ b \in Batch /\ queue' = Append(queue, b)
      /\ b.op = "render" /\ b.sem = NULL /\ b.frame = frame
  BY DEF IInv, Submit, cmdbuf_submit, TypeOK, Batch, StatesInStep
<1> HIDE DEF b
<1>2. queue' \in Seq(Batch) /\ Len(queue') = Len(queue) + 1
      /\ (\A k \in 1..Len(queue) : k \in 1..Len(queue') /\ queue'[k] = queue[k])
      /\ Len(queue') \in 1..Len(queue') /\ queue'[Len(queue')] = b
      /\ \A k \in 1..Len(queue') : k # Len(queue') => k \in 1..Len(queue)
  BY <1>1, Queued
<1>3. Len(queue) \in Nat /\ (queue = <<>> <=> Len(queue) = 0) /\ queue' # <<>>
  BY <1>1, <1>2, LenProperties, EmptySeq
<1>4. pc = "submit" /\ pc' = "present" /\ UNCHANGED <<frame, image_sem, queue_sem, refused>>
      /\ frame \in Frames /\ Held /\ ~ Held'
  BY DEF Submit, Held, IInv, TypeOK
<1>5. ~ \E k \in Renders : queue[k].frame = frame
  BY <1>4, TakenIsNotPending
<1>6. InPairs'
  <2>1. ASSUME NEW k \in Pos', k - 1 \in Pos', queue'[k].op = "present"
        PROVE  queue'[k - 1].op = "render" /\ queue'[k].frame = queue'[k - 1].frame
    <3>1. k # Len(queue')
      BY <1>1, <1>2, <2>1
    <3>2. k \in Pos /\ k - 1 \in Pos
      BY <1>2, <1>3, <2>1, <3>1 DEF Pos
    <3> QED BY <1>2, <2>1, <3>2 DEF OInv, InPairs, Pos
  <2>2. ASSUME NEW k \in Pos', queue'[k].op = "render", queue'[k].frame \notin refused'
        PROVE  \/ k + 1 \in Pos' /\ queue'[k + 1].op = "present"
               \/ k = Len(queue') /\ pc' = "present" /\ queue'[k].frame = frame'
    <3>1. CASE k = Len(queue')
      BY <1>1, <1>2, <1>4, <3>1
    <3>2. CASE k # Len(queue')
      <4>1. k \in Pos /\ queue'[k] = queue[k]
        BY <1>2, <2>2, <3>2 DEF Pos
      <4>2. k + 1 \in Pos /\ queue[k + 1].op = "present"
        BY <1>4, <2>2, <4>1 DEF OInv, InPairs
      <4> QED BY <1>2, <4>2 DEF Pos
    <3> QED BY <3>1, <3>2
  <2> QED BY <1>1, <1>2, <1>4, <2>1, <2>2 DEF InPairs
<1>7. Shown'
  <2>1. \A f \in Frames : NextToShow(f)' <=> NextToShow(f)
    BY <1>1, <1>2, <1>3, <1>4 DEF NextToShow
  <2> QED BY <1>4, <2>1 DEF OInv, Shown
<1>8. \A f \in Frames : /\ Promised(f)' <=> Promised(f)
                        /\ Bound(f)' <=> Bound(f)
  <2> SUFFICES ASSUME NEW f \in Frames
               PROVE  (Promised(f)' <=> Promised(f)) /\ (Bound(f)' <=> Bound(f))
    OBVIOUS
  <2>1. Promised(f)' <=> Promised(f)
    BY <1>1, <1>2, FrameAssumption DEF Promised, Pos, Frames
  <2>2. (\E k \in Renders' : queue'[k].frame = f) <=> (\E k \in Renders : queue[k].frame = f) \/ f = frame
    BY <1>1, <1>2 DEF Renders, Pos
  <2> QED BY <1>4, <2>1, <2>2 DEF Bound
<1>9. \A k \in Renders' : queue'[k].sem = NULL
  BY <1>1, <1>2 DEF OInv, Promises, Renders, Pos
<1>10. \A j, k \in Pos' : queue'[j].sem = queue'[k].sem /\ queue'[j].sem # NULL => j = k
  BY <1>1, <1>2 DEF OInv, Promises, Pos
<1>11. ASSUME NEW k \in Renders'
       PROVE  \/ image_sem'[queue'[k].frame]
              \/ \E j \in Presents' : j < k /\ queue'[j].sem = queue'[k].frame
  <2>1. \A j \in Presents : j \in Presents' /\ j \in 1..Len(queue) /\ queue'[j] = queue[j]
    BY <1>2 DEF Presents, Pos
  <2>2. CASE k = Len(queue')
    <3>1. queue'[k].frame = frame
      BY <1>1, <1>2, <2>2
    <3>2. CASE image_sem[frame]
      BY <1>4, <3>1, <3>2
    <3>3. CASE Promised(frame)
      <4>1. PICK j \in Pos : queue[j].sem = frame
        BY <3>3 DEF Promised
      <4>2. frame # NULL /\ queue[j].op \in {"render", "present"}
        BY <1>4, BatchesAreTyped, FrameAssumption DEF Frames, Batch
      <4>3. j \in Presents
        BY <4>1, <4>2 DEF OInv, Promises, Renders, Presents
      <4>4. j < k
        BY <1>2, <1>3, <2>2, <4>1 DEF Pos
      <4> QED BY <2>1, <3>1, <4>1, <4>3, <4>4
    <3> QED BY <1>4, <3>2, <3>3 DEF OInv, Promises
  <2>3. CASE k # Len(queue')
    <3>1. k \in Renders /\ queue'[k] = queue[k]
      BY <1>2, <1>11, <2>3 DEF Renders, Pos
    <3> QED BY <1>4, <2>1, <3>1 DEF OInv, Promises
  <2> QED BY <2>2, <2>3
<1>12. Promises'
  BY <1>4, <1>8, <1>9, <1>10, <1>11 DEF OInv, Promises
<1> QED BY <1>6, <1>7, <1>12 DEF OInv

\* The presentation of a frame goes right behind its submission.
LEMMA PresentKeepsOInv ==
  ASSUME IInv, OInv, Present
  PROVE  OInv'
<1> DEFINE b == [op |-> "present", img |-> img_index, frame |-> frame, sem |-> NULL]
<1>1. queue \in Seq(Batch) /\ b \in Batch /\ queue' = Append(queue, b)
      /\ b.op = "present" /\ b.sem = NULL /\ b.frame = frame
  BY DEF IInv, Present, vkswapchain_present, TypeOK, Batch
<1> HIDE DEF b
<1>2. queue' \in Seq(Batch) /\ Len(queue') = Len(queue) + 1
      /\ (\A k \in 1..Len(queue) : k \in 1..Len(queue') /\ queue'[k] = queue[k])
      /\ Len(queue') \in 1..Len(queue') /\ queue'[Len(queue')] = b
      /\ \A k \in 1..Len(queue') : k # Len(queue') => k \in 1..Len(queue)
  BY <1>1, Queued
<1>3. Len(queue) \in Nat /\ (queue = <<>> <=> Len(queue) = 0) /\ queue' # <<>>
  BY <1>1, <1>2, LenProperties, EmptySeq
<1>4. pc = "present" /\ pc' = "begin" /\ UNCHANGED <<image_sem, queue_sem, refused>>
      /\ frame \in Frames /\ ~ Held /\ ~ Held'
  BY DEF Present, vkswapchain_present, Held, IInv, TypeOK
<1>5. InPairs'
  <2>1. ASSUME NEW k \in Pos', k - 1 \in Pos', queue'[k].op = "present"
        PROVE  queue'[k - 1].op = "render" /\ queue'[k].frame = queue'[k - 1].frame
    <3>1. CASE k = Len(queue')
      <4>1. k - 1 = Len(queue) /\ queue # <<>> /\ queue'[k - 1] = queue[Len(queue)]
        BY <1>2, <1>3, <2>1, <3>1 DEF Pos
      <4>2. queue[Len(queue)].op = "render" /\ queue[Len(queue)].frame = frame
        BY <1>4, <4>1 DEF OInv, InPairs
      <4> QED BY <1>1, <1>2, <3>1, <4>1, <4>2
    <3>2. CASE k # Len(queue')
      <4>1. k \in Pos /\ k - 1 \in Pos
        BY <1>2, <1>3, <2>1, <3>2 DEF Pos
      <4> QED BY <1>2, <2>1, <4>1 DEF OInv, InPairs, Pos
    <3> QED BY <3>1, <3>2
  <2>2. ASSUME NEW k \in Pos', queue'[k].op = "render", queue'[k].frame \notin refused'
        PROVE  k + 1 \in Pos' /\ queue'[k + 1].op = "present"
    <3>1. k # Len(queue')
      BY <1>1, <1>2, <2>2
    <3>2. k \in Pos /\ queue'[k] = queue[k]
      BY <1>2, <2>2, <3>1 DEF Pos
    <3>3. CASE k = Len(queue)
      BY <1>1, <1>2, <1>3, <3>3 DEF Pos
    <3>4. CASE k # Len(queue)
      <4>1. k + 1 \in Pos /\ queue[k + 1].op = "present"
        BY <1>4, <2>2, <3>2, <3>4 DEF OInv, InPairs
      <4> QED BY <1>2, <4>1 DEF Pos
    <3> QED BY <3>3, <3>4
  <2> QED BY <1>4, <2>1, <2>2 DEF InPairs
<1>6. Shown'
  <2>1. \A f \in Frames : NextToShow(f)' <=> NextToShow(f)
    BY <1>1, <1>2, <1>3, <1>4 DEF NextToShow
  <2> QED BY <1>4, <2>1 DEF OInv, Shown
<1>7. \A f \in Frames : /\ Promised(f)' <=> Promised(f)
                        /\ Bound(f)' <=> Bound(f)
  BY <1>1, <1>2, <1>4, FrameAssumption DEF Promised, Bound, Renders, Pos, Frames
<1>8. \A k \in Renders' : k \in Renders /\ queue'[k] = queue[k]
  BY <1>1, <1>2 DEF Renders, Pos
<1>9. \A j \in Presents : j \in Presents' /\ queue'[j] = queue[j]
  BY <1>2 DEF Presents, Pos
<1>10. \A j, k \in Pos' : queue'[j].sem = queue'[k].sem /\ queue'[j].sem # NULL => j = k
  BY <1>1, <1>2 DEF OInv, Promises, Pos
<1>11. \A k \in Renders' :
         \/ image_sem'[queue'[k].frame]
         \/ \E j \in Presents' : j < k /\ queue'[j].sem = queue'[k].frame
  BY <1>4, <1>8, <1>9 DEF OInv, Promises
<1>12. Promises'
  BY <1>4, <1>7, <1>8, <1>10, <1>11 DEF OInv, Promises
<1> QED BY <1>5, <1>6, <1>12 DEF OInv

\* A refused presentation leaves the frame's submission alone in the queue, or
\* its queue semaphore signalled.
LEMMA PresentFailsKeepsOInv ==
  ASSUME IInv, OInv, PresentFails
  PROVE  OInv'
<1>1. pc = "present" /\ pc' = "begin" /\ UNCHANGED <<queue, image_sem, queue_sem>>
      /\ refused' = refused \cup {frame} /\ ~ Held /\ ~ Held'
  BY DEF PresentFails, vkswapchain_present_fails, Held
<1>2. Renders' = Renders /\ Presents' = Presents /\ Pos' = Pos
  BY <1>1 DEF Renders, Presents, Pos
<1>3. InPairs'
  <2>1. ASSUME NEW k \in Pos, queue[k].op = "render", queue[k].frame \notin refused'
        PROVE  k + 1 \in Pos /\ queue[k + 1].op = "present"
    BY <1>1, <2>1 DEF OInv, InPairs
  <2> QED BY <1>1, <1>2, <2>1 DEF OInv, InPairs
<1>4. Shown'
  <2>1. \A f \in Frames : NextToShow(f)' => NextToShow(f)
    BY <1>1 DEF NextToShow
  <2>2. \A f \in Frames \ {frame} : NextToShow(f) => NextToShow(f)'
    BY <1>1 DEF NextToShow
  <2> QED BY <1>1, <2>1, <2>2 DEF OInv, Shown
<1>5. \A f \in Frames : (Bound(f)' <=> Bound(f)) /\ (Promised(f)' <=> Promised(f))
  BY <1>1, <1>2 DEF Bound, Promised
<1>6. Promises'
  BY <1>1, <1>2, <1>5 DEF OInv, Promises
<1> QED BY <1>3, <1>4, <1>6 DEF OInv

\* The first batch leaves a queue of pairs, the rest are pairs still.
LEMMA GpuKeepsPairs ==
  ASSUME IInv, OInv, queue # <<>>, queue' = Tail(queue), UNCHANGED <<pc, frame, refused>>
  PROVE  /\ InPairs'
         /\ queue' = <<>> /\ pc = "present" => queue[1].op = "render" /\ queue[1].frame = frame
         /\ queue' # <<>> /\ queue'[1].op = "present" =>
              queue[1].op = "render" /\ queue'[1].frame = queue[1].frame
         /\ queue[1].op = "render" /\ queue[1].frame \notin refused =>
              IF queue' = <<>> THEN pc = "present" ELSE queue'[1].op = "present"
<1>1. queue \in Seq(Batch)
  BY DEF IInv, TypeOK
<1>2. queue' \in Seq(Batch) /\ Len(queue') = Len(queue) - 1 /\ 1 \in 1..Len(queue)
      /\ (\A k \in 1..Len(queue') : k + 1 \in 1..Len(queue) /\ queue'[k] = queue[k + 1])
  BY <1>1, Popped
<1>3. Len(queue) \in Nat /\ (queue' = <<>> <=> Len(queue') = 0)
  BY <1>1, <1>2, LenProperties, EmptySeq
<1>4. CASE queue' = <<>>
  <2>1. Len(queue) = 1 /\ Len(queue') = 0 /\ 1 \in Pos /\ 1 + 1 \notin Pos
    BY <1>2, <1>3, <1>4 DEF Pos
  <2>2. InPairs'
    <3>1. ~ \E k \in 1..0 : TRUE
      OBVIOUS
    <3>2. ~ \E k \in Pos' : TRUE
      BY <2>1, <3>1 DEF Pos
    <3> QED BY <1>4, <3>2 DEF InPairs
  <2>3. pc = "present" => queue[1].op = "render" /\ queue[1].frame = frame
    BY <2>1 DEF OInv, InPairs
  <2>4. queue[1].op = "render" /\ queue[1].frame \notin refused => pc = "present"
    BY <2>1 DEF OInv, InPairs
  <2> QED BY <1>4, <2>2, <2>3, <2>4
<1>5. CASE queue' # <<>>
  <2>1. Len(queue') \in Nat /\ 1 \in 1..Len(queue') /\ Len(queue') \in 1..Len(queue')
        /\ 2 \in Pos /\ 1 \in Pos /\ queue'[1] = queue[2] /\ queue'[Len(queue')] = queue[Len(queue)]
        /\ 2 - 1 = 1 /\ 1 + 1 = 2 /\ Len(queue) # 1
    BY <1>2, <1>3, <1>5 DEF Pos
  <2>2. ASSUME NEW k \in Pos', k - 1 \in Pos', queue'[k].op = "present"
        PROVE  queue'[k - 1].op = "render" /\ queue'[k].frame = queue'[k - 1].frame
    <3>1. k + 1 \in Pos /\ (k + 1) - 1 \in Pos /\ (k + 1) - 1 = k
          /\ queue'[k] = queue[k + 1] /\ queue'[k - 1] = queue[k]
      BY <1>2, <1>3, <2>2 DEF Pos
    <3> QED BY <2>2, <3>1 DEF OInv, InPairs
  <2>3. ASSUME NEW k \in Pos', queue'[k].op = "render", queue'[k].frame \notin refused
        PROVE  \/ k + 1 \in Pos' /\ queue'[k + 1].op = "present"
               \/ k = Len(queue') /\ pc = "present" /\ queue'[k].frame = frame
    <3>1. k + 1 \in Pos /\ queue'[k] = queue[k + 1]
      BY <1>2, <2>3 DEF Pos
    <3>2. \/ (k + 1) + 1 \in Pos /\ queue[(k + 1) + 1].op = "present"
          \/ k + 1 = Len(queue) /\ pc = "present" /\ queue[k + 1].frame = frame
      BY <2>3, <3>1 DEF OInv, InPairs
    <3>3. CASE (k + 1) + 1 \in Pos /\ queue[(k + 1) + 1].op = "present"
      <4>1. k + 1 \in Pos' /\ queue'[k + 1] = queue[(k + 1) + 1]
        BY <1>2, <1>3, <2>3, <3>3 DEF Pos
      <4> QED BY <3>3, <4>1
    <3>4. CASE k + 1 = Len(queue) /\ pc = "present" /\ queue[k + 1].frame = frame
      <4>1. k = Len(queue')
        <5>1. k \in Nat /\ k + 1 = Len(queue)
          BY <2>1, <2>3, <3>4 DEF Pos
        <5>2. Len(queue') = Len(queue) - 1 /\ Len(queue) \in Nat
          BY <1>2, <1>3
        <5> QED BY ONLY <5>1, <5>2
      <4> QED BY <3>1, <3>4, <4>1
    <3> QED BY <3>2, <3>3, <3>4
  <2>4. InPairs'
    BY <2>1, <2>2, <2>3 DEF OInv, InPairs
  <2>5. queue[2].op = "present" => queue[1].op = "render" /\ queue[2].frame = queue[1].frame
    BY <2>1 DEF OInv, InPairs
  <2>6. queue[1].op = "render" /\ queue[1].frame \notin refused => queue[2].op = "present"
    BY <2>1 DEF OInv, InPairs
  <2> QED BY <1>5, <2>1, <2>4, <2>5, <2>6
<1> QED BY <1>4, <1>5

\* A batch runs: its image semaphore is used up, its queue semaphore announces
\* the presentation behind it.
LEMMA GpuRenderKeepsOInv ==
  ASSUME IInv, OInv, GpuRender
  PROVE  OInv'
<1>1. queue \in Seq(Batch) /\ queue # <<>> /\ queue' = Tail(queue)
      /\ UNCHANGED <<pc, frame, img_index, state, refused>>
  BY DEF GpuRender, IInv, TypeOK
<1>2. queue' \in Seq(Batch) /\ Len(queue') = Len(queue) - 1 /\ 1 \in 1..Len(queue)
      /\ queue[1] = Head(queue)
      /\ (\A k \in 1..Len(queue') : k + 1 \in 1..Len(queue) /\ queue'[k] = queue[k + 1])
      /\ (\A k \in 1..Len(queue) : k # 1 => k - 1 \in 1..Len(queue') /\ queue[k] = queue'[k - 1])
  BY <1>1, Popped
<1>f. PICK f \in Frames : f = queue[1].frame
  BY <1>2, BatchesAreTyped DEF Pos
<1>3. queue[1].op = "render" /\ image_sem[f]
      /\ image_sem' = [image_sem EXCEPT ![f] = FALSE]
      /\ queue_sem' = [queue_sem EXCEPT ![f] = TRUE]
  BY <1>2, <1>f DEF GpuRender
<1>4. f \in Frames /\ image_sem \in [Frames -> BOOLEAN] /\ queue_sem \in [Frames -> BOOLEAN]
      /\ 1 \in Renders /\ 1 \in Pos /\ Len(queue) \in Nat
  BY <1>1, <1>2, <1>3, BatchesAreTyped, LenProperties DEF IInv, TypeOK, Renders, Pos
<1>5. InPairs'
      /\ (queue' = <<>> /\ pc = "present" => f = frame)
      /\ (queue' # <<>> /\ queue'[1].op = "present" => queue'[1].frame = f)
      /\ (f \notin refused => IF queue' = <<>> THEN pc = "present" ELSE queue'[1].op = "present")
  BY <1>1, <1>3, <1>f, GpuKeepsPairs
<1>6. Shown'
  <2>1. \A g \in Frames : ~ NextToShow(g)
    BY <1>1, <1>3 DEF NextToShow
  <2>2. \A g \in Frames : NextToShow(g)' => g = f
    BY <1>1, <1>5 DEF NextToShow
  <2>3. queue_sem'[f] /\ \A g \in Frames \ refused : queue_sem'[g] => g = f
    BY <1>3, <1>4, <2>1 DEF OInv, Shown
  <2>4. f \notin refused => NextToShow(f)'
    BY <1>1, <1>5 DEF NextToShow
  <2>5. ASSUME NEW g \in Frames \ refused, queue_sem'[g]
        PROVE  NextToShow(g)'
    <3>1. g = f
      BY <2>3, <2>5
    <3> QED BY <2>4, <2>5, <3>1 DEF NextToShow
  <2> QED BY <1>1, <2>2, <2>3, <2>5 DEF Shown
<1>7. Held' <=> Held
  BY <1>1 DEF Held
<1>8. Held => f # frame
  BY <1>4, <1>f, TakenIsNotPending
<1>9. \A k \in Renders' : k + 1 \in Renders /\ queue'[k] = queue[k + 1] /\ queue'[k].frame # f
  <2> SUFFICES ASSUME NEW k \in Renders'
               PROVE  k + 1 \in Renders /\ queue'[k] = queue[k + 1] /\ queue'[k].frame # f
    OBVIOUS
  <2>1. k + 1 \in Renders /\ queue'[k] = queue[k + 1] /\ k + 1 # 1
    BY <1>2, <1>4 DEF Renders, Pos
  <2>2. queue[k + 1].frame # f
    BY <1>4, <1>f, <2>1 DEF IInv, FencesExact
  <2> QED BY <2>1, <2>2
<1>10. \A g \in Frames : Promised(g)' <=> Promised(g)
  <2> SUFFICES ASSUME NEW g \in Frames PROVE Promised(g)' <=> Promised(g)
    OBVIOUS
  <2>1. queue[1].sem # g
    BY <1>4, FrameAssumption DEF OInv, Promises, Frames
  <2>2. ASSUME NEW k \in Pos, queue[k].sem = g PROVE Promised(g)'
    BY <1>2, <2>1, <2>2 DEF Promised, Pos
  <2>3. ASSUME NEW k \in Pos', queue'[k].sem = g PROVE Promised(g)
    BY <1>2, <2>3 DEF Promised, Pos
  <2> QED BY <2>2, <2>3 DEF Promised
<1>11. \A g \in Frames \ {f} : (Bound(g)' <=> Bound(g)) /\ image_sem'[g] = image_sem[g]
  <2> SUFFICES ASSUME NEW g \in Frames \ {f}
               PROVE  (Bound(g)' <=> Bound(g)) /\ image_sem'[g] = image_sem[g]
    OBVIOUS
  <2>1. ASSUME NEW k \in Renders, queue[k].frame = g
        PROVE  k - 1 \in Renders' /\ queue'[k - 1].frame = g
    BY <1>2, <1>f, <2>1 DEF Renders, Pos
  <2> QED BY <1>1, <1>3, <1>4, <1>7, <1>9, <2>1 DEF Bound
<1>12. ~ image_sem'[f] /\ ~ Promised(f)'
  <2>1. ~ Promised(f)
    BY <1>3, <1>4 DEF OInv, Promises
  <2>2. ~ image_sem'[f]
    BY <1>3, <1>4
  <2> QED BY <1>4, <1>10, <2>1, <2>2
<1>13. \A k \in Renders' : queue'[k].sem = NULL
  BY <1>9 DEF OInv, Promises
<1>14. \A j, k \in Pos' : queue'[j].sem = queue'[k].sem /\ queue'[j].sem # NULL => j = k
  <2> SUFFICES ASSUME NEW j \in Pos', NEW k \in Pos', queue'[j].sem = queue'[k].sem,
                      queue'[j].sem # NULL
               PROVE  j = k
    OBVIOUS
  <2>1. j + 1 \in Pos /\ k + 1 \in Pos /\ queue'[j] = queue[j + 1] /\ queue'[k] = queue[k + 1]
    BY <1>2 DEF Pos
  <2>2. j + 1 = k + 1
    BY <2>1 DEF OInv, Promises
  <2> QED BY <2>2 DEF Pos
<1>15. ASSUME NEW k \in Renders'
       PROVE  \/ image_sem'[queue'[k].frame]
              \/ \E j \in Presents' : j < k /\ queue'[j].sem = queue'[k].frame
  <2>1. k + 1 \in Renders /\ queue'[k] = queue[k + 1] /\ queue'[k].frame \in Frames \ {f}
    <3>1. k + 1 \in Renders /\ queue'[k] = queue[k + 1] /\ queue'[k].frame # f
      BY <1>9
    <3> QED BY <3>1, BatchesAreTyped DEF Renders
  <2>2. CASE image_sem[queue[k + 1].frame]
    BY <1>11, <2>1, <2>2
  <2>3. CASE \E j \in Presents : j < k + 1 /\ queue[j].sem = queue[k + 1].frame
    <3>1. PICK j \in Presents : j < k + 1 /\ queue[j].sem = queue[k + 1].frame
      BY <2>3
    <3>2. j # 1 /\ j \in 1..Len(queue) /\ queue[j].op = "present"
      BY <1>3, <3>1 DEF Presents, Pos
    <3>3. j - 1 \in 1..Len(queue') /\ queue'[j - 1] = queue[j]
      BY <1>2, <3>2
    <3>4. j - 1 \in Presents' /\ j - 1 < k
      BY <3>1, <3>2, <3>3 DEF Presents, Pos, Renders
    <3> QED BY <2>1, <3>1, <3>3, <3>4
  <2> QED BY <2>1, <2>2, <2>3 DEF OInv, Promises
<1>16. Held' => image_sem'[frame'] \/ Promised(frame)'
  BY <1>1, <1>7, <1>8, <1>10, <1>11 DEF OInv, Promises, IInv, TypeOK
<1>17. Promises'
  <2>1. \A g \in Frames : (Promised(g)' => ~ image_sem'[g])
                          /\ (image_sem'[g] \/ Promised(g)' => Bound(g)')
    <3> SUFFICES ASSUME NEW g \in Frames
                 PROVE  (Promised(g)' => ~ image_sem'[g])
                        /\ (image_sem'[g] \/ Promised(g)' => Bound(g)')
      OBVIOUS
    <3>1. CASE g = f
      <4>1. Promised(g)' <=> Promised(f)'
        BY <3>1 DEF Promised
      <4> QED BY <1>12, <3>1, <4>1
    <3>2. CASE g # f
      BY <1>10, <1>11, <3>2 DEF OInv, Promises
    <3> QED BY <3>1, <3>2
  <2> QED BY <1>13, <1>14, <1>15, <1>16, <2>1 DEF Promises
<1> QED BY <1>5, <1>6, <1>17 DEF OInv

\* A presentation uses its queue semaphore up, and keeps the promise it made to
\* whoever acquired its image early.
LEMMA GpuPresentKeepsOInv ==
  ASSUME IInv, OInv, GpuPresent
  PROVE  OInv'
<1>1. queue \in Seq(Batch) /\ queue # <<>> /\ queue' = Tail(queue)
      /\ UNCHANGED <<pc, frame, img_index, state, refused>>
  BY DEF GpuPresent, IInv, TypeOK
<1>2. queue' \in Seq(Batch) /\ Len(queue') = Len(queue) - 1 /\ 1 \in 1..Len(queue)
      /\ queue[1] = Head(queue)
      /\ (\A k \in 1..Len(queue') : k + 1 \in 1..Len(queue) /\ queue'[k] = queue[k + 1])
      /\ (\A k \in 1..Len(queue) : k # 1 => k - 1 \in 1..Len(queue') /\ queue[k] = queue'[k - 1])
  BY <1>1, Popped
<1>f. PICK f \in Frames : f = queue[1].frame
  BY <1>2, BatchesAreTyped DEF Pos
<1>s. PICK s \in Frames \cup {NULL} : s = queue[1].sem
  BY <1>2, BatchesAreTyped DEF Pos, Batch
<1>3. queue[1].op = "present"
      /\ (s = NULL => image_sem' = image_sem)
      /\ (s # NULL => image_sem' = [image_sem EXCEPT ![s] = TRUE])
      /\ queue_sem' = [queue_sem EXCEPT ![f] = FALSE]
  <2>1. queue[1] = Head(queue)
    BY <1>2
  <2> QED BY <1>f, <1>s, <2>1 DEF GpuPresent
<1>4. f \in Frames /\ s \in Frames \cup {NULL} /\ image_sem \in [Frames -> BOOLEAN]
      /\ queue_sem \in [Frames -> BOOLEAN] /\ 1 \in Pos /\ Len(queue) \in Nat
  BY <1>1, <1>2, BatchesAreTyped, LenProperties DEF IInv, TypeOK, Pos, Batch
<1>5. InPairs' /\ (queue' = <<>> => pc # "present") /\ (queue' # <<>> => queue'[1].op # "present")
  BY <1>1, <1>3, GpuKeepsPairs
<1>6. Shown'
  <2>1. \A g \in Frames : NextToShow(g) <=> g = f
    BY <1>1, <1>3, <1>f DEF NextToShow
  <2>2. \A g \in Frames : ~ NextToShow(g)'
    BY <1>1, <1>5 DEF NextToShow
  <2>3. \A g \in Frames \ refused : ~ queue_sem'[g]
    BY <1>3, <1>4, <2>1 DEF OInv, Shown
  <2> QED BY <1>1, <2>2, <2>3 DEF Shown
<1>7. Held' <=> Held
  BY <1>1 DEF Held
<1>8. \A k \in Renders' : k + 1 \in Renders /\ queue'[k] = queue[k + 1]
  BY <1>2 DEF Renders, Pos
<1>9. \A g \in Frames : Bound(g)' <=> Bound(g)
  <2> SUFFICES ASSUME NEW g \in Frames PROVE Bound(g)' <=> Bound(g)
    OBVIOUS
  <2>1. ASSUME NEW k \in Renders, queue[k].frame = g
        PROVE  k - 1 \in Renders' /\ queue'[k - 1].frame = g
    BY <1>2, <1>3, <2>1 DEF Renders, Pos
  <2> QED BY <1>1, <1>7, <1>8, <2>1 DEF Bound
<1>10. \A g \in Frames : Promised(g)' <=> Promised(g) /\ g # s
  <2> SUFFICES ASSUME NEW g \in Frames PROVE Promised(g)' <=> Promised(g) /\ g # s
    OBVIOUS
  <2>0. g # NULL
    BY FrameAssumption DEF Frames
  <2>1. ASSUME NEW k \in Pos, queue[k].sem = g, g # s PROVE Promised(g)'
    BY <1>2, <1>s, <2>1 DEF Promised, Pos
  <2>2. ASSUME NEW k \in Pos', queue'[k].sem = g PROVE Promised(g) /\ g # s
    <3>1. k + 1 \in Pos /\ queue[k + 1].sem = g /\ k + 1 # 1
      BY <1>2, <2>2 DEF Pos
    <3> QED BY <1>4, <1>s, <2>0, <3>1 DEF Promised, OInv, Promises
  <2> QED BY <2>1, <2>2 DEF Promised
<1>11. \A g \in Frames : image_sem'[g] <=> image_sem[g] \/ g = s
  <2>1. CASE s = NULL
    BY <1>3, <2>1, FrameAssumption DEF Frames
  <2>2. CASE s # NULL
    BY <1>3, <1>4, <2>2
  <2> QED BY <2>1, <2>2
<1>12. \A g \in Frames : g = s => Promised(g)
  BY <1>4, <1>s DEF Promised
<1>13. \A k \in Renders' : queue'[k].sem = NULL
  BY <1>8 DEF OInv, Promises
<1>14. \A j, k \in Pos' : queue'[j].sem = queue'[k].sem /\ queue'[j].sem # NULL => j = k
  <2> SUFFICES ASSUME NEW j \in Pos', NEW k \in Pos', queue'[j].sem = queue'[k].sem,
                      queue'[j].sem # NULL
               PROVE  j = k
    OBVIOUS
  <2>1. j + 1 \in Pos /\ k + 1 \in Pos /\ queue'[j] = queue[j + 1] /\ queue'[k] = queue[k + 1]
    BY <1>2 DEF Pos
  <2>2. j + 1 = k + 1
    BY <2>1 DEF OInv, Promises
  <2> QED BY <2>2 DEF Pos
<1>15. ASSUME NEW k \in Renders'
       PROVE  \/ image_sem'[queue'[k].frame]
              \/ \E j \in Presents' : j < k /\ queue'[j].sem = queue'[k].frame
  <2>1. k + 1 \in Renders /\ queue'[k] = queue[k + 1] /\ queue'[k].frame \in Frames
    <3>1. k + 1 \in Renders /\ queue'[k] = queue[k + 1]
      BY <1>8
    <3> QED BY <3>1, BatchesAreTyped DEF Renders
  <2>2. CASE image_sem[queue[k + 1].frame]
    BY <1>11, <2>1, <2>2
  <2>3. CASE \E j \in Presents : j < k + 1 /\ queue[j].sem = queue[k + 1].frame
    <3>1. PICK j \in Presents : j < k + 1 /\ queue[j].sem = queue[k + 1].frame
      BY <2>3
    <3>2. CASE j = 1
      BY <1>11, <1>s, <2>1, <3>1, <3>2
    <3>3. CASE j # 1
      <4>1. j - 1 \in 1..Len(queue') /\ queue'[j - 1] = queue[j] /\ queue[j].op = "present"
        BY <1>2, <3>1, <3>3 DEF Presents, Pos
      <4>2. j - 1 \in Presents' /\ j - 1 < k
        BY <3>1, <4>1 DEF Presents, Pos, Renders
      <4> QED BY <2>1, <3>1, <4>1, <4>2
    <3> QED BY <3>2, <3>3
  <2> QED BY <2>1, <2>2, <2>3 DEF OInv, Promises
<1>16. Promises'
  <2>1. \A g \in Frames : (Promised(g)' => ~ image_sem'[g])
                          /\ (image_sem'[g] \/ Promised(g)' => Bound(g)')
    BY <1>9, <1>10, <1>11, <1>12 DEF OInv, Promises
  <2>2. Held' => image_sem'[frame'] \/ Promised(frame)'
    <3>1. Held => image_sem'[frame] \/ \E k \in Pos' : queue'[k].sem = frame
      <4>1. frame \in Frames
        BY DEF IInv, TypeOK
      <4>2. Held => image_sem[frame] \/ Promised(frame)
        BY DEF OInv, Promises
      <4>3. image_sem[frame] => image_sem'[frame]
        BY <1>11, <4>1
      <4>4. Promised(frame) => (\E k \in Pos' : queue'[k].sem = frame) \/ frame = s
        BY <1>10, <4>1 DEF Promised
      <4> QED BY <1>11, <4>1, <4>2, <4>3, <4>4 DEF Promised
    <3> QED BY <1>1, <1>7, <3>1 DEF Promised
  <2> QED BY <1>13, <1>14, <1>15, <2>1, <2>2 DEF Promises
<1> QED BY <1>5, <1>6, <1>16 DEF OInv

LEMMA InitOInv == Init => OInv
<1> SUFFICES ASSUME Init PROVE OInv
  OBVIOUS
<1>1. queue = <<>> /\ Len(queue) = 0 /\ pc = "begin"
  BY EmptySeq DEF Init
<1>2. ~ \E k \in Pos : TRUE
  <2>1. ~ \E k \in 1..0 : TRUE
    OBVIOUS
  <2> QED BY <1>1, <2>1 DEF Pos
<1>3. InPairs
  BY <1>1, <1>2 DEF InPairs
<1>4. Shown
  BY <1>1 DEF Init, Shown, NextToShow
<1>5. Promises
  BY <1>1, <1>2 DEF Init, Promises, Promised, Held, Renders
<1> QED BY <1>3, <1>4, <1>5 DEF OInv

LEMMA NextOInv == IInv /\ OInv /\ [Next]_vars => OInv'
<1> SUFFICES ASSUME IInv, OInv, [Next]_vars PROVE OInv'
  OBVIOUS
<1>1. CASE UNCHANGED vars
  BY <1>1, QuietKeepsOInv DEF vars, Held
<1>2. CASE Draw \/ DrawFails
  BY <1>2, DrawsQuietly, AcquireKeepsOInv, SubmitKeepsOInv, PresentKeepsOInv,
     PresentFailsKeepsOInv DEF Draw, DrawFails
<1> QED BY <1>1, <1>2, DrawsQuietly, GpuRenderKeepsOInv, GpuPresentKeepsOInv DEF Next, Gpu

LEMMA OrderIsKept == Spec => [](IInv /\ OInv)
BY InitIInv, NextIInv, InitOInv, NextOInv, PTL DEF Spec

\* For any number of frames in flight and of images, and whatever waits and
\* acquisitions fail: no semaphore is signalled, or promised to be, while it still
\* is, or while a batch that will use it is pending.  The one exception is the
\* queue semaphore of a frame that had a presentation refused: it stays signalled,
\* and the frame's next batch signals it again (renderer.c:194-198, 245-256,
\* swapchain.c:148-149).
THEOREM SemaphoresAreFresh == Spec => []SemaphoresFresh
BY OrderIsKept, OrderIsFresh, PTL

\* Every batch the device is given finds its semaphore signalled by something
\* in front of it, also after a frame whose beginning failed and went unnoticed
\* (renderer.c:187-266, renderpass.c:241-245, 79-83).
THEOREM EveryWaitIsMet == Spec => []WaitsAreMet
BY OrderIsKept, OrderMeetsWaits, PTL

-----------------------------------------------------------------------------
(* How far the engine runs ahead.                                            *)

\* Each presentation but the first has the submission of its frame in front of
\* it, and no two submissions are of one frame.
LEMMA OnePresentationEach ==
  ASSUME IInv, OInv, NEW j \in Presents \ {1}, NEW k \in Presents \ {1},
         queue[j].frame = queue[k].frame
  PROVE  j = k
<1>1. Len(queue) \in Nat
  BY LenProperties DEF IInv, TypeOK
<1>2. \A i \in Presents \ {1} : i - 1 \in Renders /\ queue[i - 1].frame = queue[i].frame
  <2> SUFFICES ASSUME NEW i \in Presents \ {1}
               PROVE  i - 1 \in Renders /\ queue[i - 1].frame = queue[i].frame
    OBVIOUS
  <2>1. i \in Pos /\ i - 1 \in Pos /\ queue[i].op = "present"
    BY <1>1 DEF Presents, Pos
  <2> QED BY <2>1 DEF OInv, InPairs, Renders
<1>3. j - 1 = k - 1
  BY <1>2 DEF IInv, FencesExact
<1> QED BY <1>1, <1>3 DEF Presents, Pos

LEMMA OrderBoundsLead == IInv /\ OInv => LeadBounded
<1> SUFFICES ASSUME IInv, OInv PROVE Cardinality(Presents) <= MaxFrames + 1
  BY DEF LeadBounded
<1> DEFINE R == Presents \ {1}
           of == [k \in R |-> queue[k].frame]
<1>1. IsFiniteSet(Frames) /\ Cardinality(Frames) = MaxFrames
  <2>1. MaxFrames - 1 \in Int /\ 0 \in Int /\ MaxFrames \in Nat /\ MaxFrames > 0
    BY FrameAssumption
  <2>2. IsFiniteSet(0..(MaxFrames - 1))
        /\ Cardinality(0..(MaxFrames - 1)) = IF 0 > MaxFrames - 1 THEN 0 ELSE (MaxFrames - 1) - 0 + 1
    BY <2>1, FS_Interval
  <2> QED BY <2>1, <2>2 DEF Frames
<1>2. \A k \in R : queue[k].frame \in Frames
  BY BatchesAreTyped DEF Presents
<1>3. of \in Injection(R, Frames)
  <2>1. of \in [R -> Frames]
    BY <1>2
  <2>2. \A j, k \in R : of[j] = of[k] => j = k
    BY OnePresentationEach
  <2> QED BY <2>1, <2>2 DEF Injection, IsInjective
<1> HIDE DEF of, R
<1>4. IsFiniteSet(R) /\ Cardinality(R) <= MaxFrames
  BY <1>1, <1>3, FS_Injection
<1>5. IsFiniteSet(R \cup {1})
      /\ Cardinality(R \cup {1}) = IF 1 \in R THEN Cardinality(R) ELSE Cardinality(R) + 1
  BY <1>4, FS_AddElement
<1>6. Cardinality(Presents) <= Cardinality(R \cup {1})
  <2>1. Presents \in SUBSET (R \cup {1})
    BY DEF R
  <2> QED BY <1>5, <2>1, FS_Subset
<1>7. Cardinality(R) \in Nat /\ Cardinality(R \cup {1}) \in Nat /\ Cardinality(Presents) \in Nat
  <2>1. Presents \in SUBSET (R \cup {1})
    BY DEF R
  <2> QED BY <1>4, <1>5, <2>1, FS_Subset, FS_CardinalityType
<1> QED BY <1>4, <1>5, <1>6, <1>7, FrameAssumption

\* However many images there are, no more presentations are pending than there
\* are frames in flight, and the one the display is about to make
\* (swapchain.c:33, renderer.c:188-189).
THEOREM LeadIsBounded == Spec => []LeadBounded
BY OrderIsKept, OrderBoundsLead, PTL

-----------------------------------------------------------------------------
(* What ends the process.                                                    *)

\* Without a failure, a frame comes to its end with its buffer in a render pass.
Unfailed ==
  /\ pc = "aborted" => failed
  /\ pc = "end" /\ ~ failed => state[img_index] = "IN_RENDERPASS"

LEMMA NextUnfailed == IInv /\ Unfailed /\ [Next]_vars => Unfailed'
<1> SUFFICES ASSUME IInv, Unfailed, [Next]_vars PROVE Unfailed'
  OBVIOUS
<1>1. CASE Acquire
  <2>1. PICK i \in Images :
          img_index' = i /\ Recorded(i, renderpass_begin(cmdbuf_begin(state[i])), "end")
    BY <1>1 DEF Acquire
  <2>2. state[i] = "INITIAL" /\ state \in [Images -> CmdState]
    BY <1>1 DEF Acquire, IInv, StatesInStep, TypeOK
  <2>3. state' = [state EXCEPT ![i] = "IN_RENDERPASS"] /\ pc' = "end"
    BY <2>1, <2>2 DEF Recorded, renderpass_begin, cmdbuf_begin
  <2> QED BY <2>1, <2>2, <2>3 DEF Unfailed
<1>2. CASE EndRecording
  <2>1. pc = "end" /\ failed' = failed /\ failed \in BOOLEAN
        /\ IF state[img_index] = "IN_RENDERPASS" THEN pc' = "wait" ELSE pc' = "aborted"
    BY <1>2 DEF EndRecording, Recorded, renderpass_end, cmdbuf_end, IInv, TypeOK
  <2> QED BY <2>1 DEF Unfailed
<1>3. CASE DrawFails
  BY <1>3 DEF DrawFails, LockFrameFails, AcquireFails, WaitImageFails, PresentFails, Unfailed
<1>4. CASE LockFrame \/ WaitImage \/ Submit \/ Present \/ StartClose \/ Close
  BY <1>4 DEF LockFrame, WaitImage, Submit, Present, StartClose, Close, Unfailed
<1>5. CASE Gpu \/ UNCHANGED vars
  BY <1>5 DEF Gpu, GpuRender, GpuPresent, vars, Unfailed
<1> QED BY <1>1, <1>2, <1>3, <1>4, <1>5 DEF Next, Draw

\* No command buffer call ends the process unless a wait or an acquisition has
\* failed: each finds the state it expects, whatever image comes next, however far
\* the device is and whatever presentations were refused (renderpass.c:50, 70, 80,
\* 212, 242).
THEOREM OnlyFailuresAbort == Spec => []AbortsOnlyOnFailure
<1>1. Init => Unfailed
  BY DEF Init, Unfailed
<1>2. Spec => [](IInv /\ Unfailed)
  BY <1>1, InitIInv, NextIInv, NextUnfailed, PTL DEF Spec
<1>3. Unfailed => AbortsOnlyOnFailure
  BY DEF Unfailed, AbortsOnlyOnFailure
<1> QED BY <1>2, <1>3, PTL
=============================================================================
