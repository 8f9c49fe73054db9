# A formal model of the Rune engine

This directory holds TLA+ modules that model the parts of the engine whose
correctness is a matter of order, sharing and failure, the TLC configurations
that check them on small instances, and TLAPS proofs of their main properties
for every value of the constants.  Paths are relative to the repository.

## The system

| Component | Source | State it keeps | Operations | Used by |
|---|---|---|---|---|
| Pool allocator | `engine/core/alloc.c`, `include/rune/util/list.h` | one global list of block headers, each with a payload, a size and a free flag; no lock | alloc, calloc, realloc, free, free_all | everything, from every thread |
| Thread API | `engine/core/thread.c` | two global lists (threads, mutexes), two ID counters; no lock | init, cancel, join, self, exit, mutex init/destroy/lock/unlock | the application and mods |
| Lifecycle and mods | `engine/core/init.c`, `mod.c`, `abort.c` | the list of registered mods, in structs of the pool | init, exit, abort, load, register, init and close mods | the application; `rune_abort` from every component |
| Frame loop | `engine/render/vulkan/renderer.c`, `fence.c`, `renderpass.c`, `swapchain.c` | current frame, image index, command buffer states, cached fence signals, the fence that last used each image | init, draw (begin_frame, end_frame), close | the application, once per frame |
| Device selection | `engine/render/vulkan/device.c` | queue families found, in statics | choose a device, create queues, find a memory type, a depth format | the renderer's initialisation |
| Context, swapchain, images, framebuffers, render pass | `context.c`, `swapchain.c`, `image.c`, `framebuffer.c`, `renderpass.c` | handles, arrays of them | create, destroy | the renderer's initialisation and closing |
| Input | `ui/input.c` | a table of callbacks by scancode, the keyboard mode | init, register, mode, tick | the application, its mods, GLFW |
| Application window | `ui/app_window.c` | the window | init, destroy | the application |
| Logging, callbacks | `engine/core/logging.c`, `callbacks.c` | log levels switched on, log file | log_output | everything |

The components interact by calls.  Four things make them hard to test:

* the allocator and the thread lists are shared by all threads without a lock,
  and a thread's cleanup handler frees into the same pool in which the creating
  thread allocates;
* the renderer overlaps several frames with a device and a presentation engine
  that progress on their own, and keeps caches (`fence.signal`, the command
  buffer's `state`) of what they are at;
* failures are reported by results their callers ignore (`_begin_frame`,
  `fence_lock`, `_alloc_block`);
* the engine can end from anywhere: a fatal error in a mod's init function, in
  setting up the renderer or in the loop is `rune_abort`, which runs `rune_exit`
  on the spot, with other threads still at work and the mods' structs lying in
  the pool that is being given back.

## Behaviours that are hard, and what makes each part correct

**Pool allocator.**  State: the list of headers (`first_block`), the payloads
malloc gave.  Hard: blocks are recycled by exact size, so the life of a block
goes through several owners; both mallocs of a new block can fail; a resize
searches the pool a second time; and nothing locks the list.  Correct when a
block has one owner at most, none is lost, contents change only when the owner
writes, and the pool grows only when no freed block would do.

**Thread API.**  State: two lists of structs and two counters, structs and
start arguments living in the pool.  Hard: a thread takes its own struct off the
list and frees it at a moment of its choosing, while the creator may be in any
of its calls; the start arguments are freed before the new thread need have read
them; the first struct of a list is freed without being taken off it.  Correct
when the lists are exactly of what runs, an ID names one thread, a thread starts
with its own arguments, a join waits for its thread and comes back.

**Frame loop.**  State: fences with a cached signal field, semaphores, command
buffers with a cached state, the fence that last used each image.  Hard: the
device and the presentation engine run behind the engine and images come back
early; the caches must never claim more than the device did; failures are
ignored.  Correct when fences, semaphores and images are never used while they
are in use, nothing waits for what never comes, and drawing goes on.

**Device, queues and swapchain setup.**  State: the families found, in static
variables that survive from one device to the next.  Hard: combinations of
families that tests on one machine never see, counts at their limits.  Correct
when no able device is passed over, every queue fetched was asked for, and the
swapchain is asked for what its surface allows.  That the families are the chosen
device's own the code does not see to: the property says whose they are.

**Lifecycle and mods.**  State: the list of mods, whose structs are blocks of
the pool.  Hard: mods register others while the list is being walked; the walk
of `rune_close_mods` frees the struct it is in, leaves it linked, and the pool
hands its block to the next thread that asks; `rune_abort` starts that walk from
anywhere; other threads may still run.  Correct when every registered mod is
ended once, none is ended on the regular way that was not started, of a block
that was given back nothing is read but what `rune_free_all` logs, and the process
ends.

**Input.**  State: the callback table, the keyboard mode.  Hard: callbacks are
functions of mods that come and go; `rune_input_init` clears what was registered
before it; scancodes index the table unchecked.  Correct when a key press calls
the function registered for it or nothing, which the code does not see to for
a scancode past the table; what there is to say of the rest is its types.

**Context, render pass, images and framebuffers.**  State: handles and arrays of
them.  Hard: some twenty kinds of objects with lifetimes that Vulkan nests, made
by eight files and destroyed by as many, any creation of which may fail; arrays
that are expected to be zeroed and come out of a pool that does not; a setting
that is read once to make an object and once to destroy it.  Correct when each
object is destroyed once, after what was made from it and before what it was
made from, none is left, and nothing is destroyed that was not made (but the
semaphores whose creation failed, which nobody looks at).

## Modules

| Module | Models | Instances and proofs |
|---|---|---|
| `PoolContract` | what callers can rely on of `include/rune/core/alloc.h`: the abstract specification; where the header promises more (the fill of a recycled block) it says so | |
| `PoolAlloc` | `alloc.c`, one call a step | `MCPoolAlloc` (a history variable), `PoolAllocProofs` |
| `PoolRace` | `rune_alloc` and `rune_free` of several threads, one access to the list a step | `PoolRaceProofs` |
| `ThreadApi` | `thread.c` with one client, its threads starting and ending between the steps of its calls; lists link by link, each call or end of its own a step | `ThreadApiProofs` |
| `ThreadRace` | the list of threads when they do overlap: one iteration of a walk or one access to a link a step | |
| `FrameLoop` | `_draw_vulkan` and `_close_vulkan` with fences, command buffers and swapchain, against a device and a presentation engine | `FrameLoopProofs` |
| `DeviceSetup` | `create_vkdev`, `get_memory_index` and the image count of `create_swapchain`, on every machine in the bounds | `DeviceSetupProofs` |
| `Lifecycle` | `init.c`, `mod.c`, `abort.c`: registration, the two walks, `rune_exit` and `rune_abort` by any thread, workers that allocate and end | |
| `Input` | `input.c`, as operators and actions over its table | |
| `RenderObjects` | the objects `_init_vulkan` makes and `_close_vulkan` destroys, one a step, with failing creations and recycled arrays | `RenderObjectsProofs` |
| `Application` | the composition of the last three: `main`, from `rune_init` to `rune_exit` or an abort from wherever it is | `ApplicationProofs` |
| `NumberFacts` | nothing of the engine: that a bounded set of numbers has a least and a last, and that a set with 0 and all successors up to n has 0 to n | cited by three of the proof modules |

`Application` EXTENDS the three modules it composes and adds the place `main`
has come to: each of its actions is an action of a component under the condition
that `main` is there, and `LNext`, the engine's life, is interleaved with all of
them.  `PoolAlloc` instantiates `PoolContract` with a refinement mapping; that
`Application` implements `Lifecycle` is the theorem `ApplicationLives`.  What
else the parts need of each other is made part of the client: `ThreadApi` and
`Lifecycle` have the pool's blocks of the size they use, because the reuse of a
freed struct is what their properties turn on; `FrameLoop` starts with fences
whose `signal` field holds anything, and `RenderObjects` with arrays that hold
anything, because the allocator hands blocks out as they are.

### How state and actions correspond to the code

*PoolAlloc.*  `blocks` is the list from `first_block`, a record per header;
`husks` counts headers whose payload malloc failed; `heap` and `mem` are malloc's
payloads and their contents; `owned` is the callers' side: what they asked for and
have not given back.  There is one action per function of `alloc.h`, each with
its failing mallocs as disjuncts, and `OwnerWrites` for what happens between
calls.  Where the code goes on into undefined behaviour (a NULL header, a
payload taken for a header, a copy beyond a payload, a header read after it was
freed) the run ends with `fault` naming it; of the last kind it may also go on.
`blank` marks what was asked of `rune_calloc`, so that in the contract such a call
must meet what is said of it.

*PoolRace.*  `next` and `free` are the fields of the headers; `pc`, `temp` and
`mine` are each thread's place and locals.  Each iteration of a walk and each
write to a shared field is a step.  `list_add`'s three parts (walk, link, end)
are `FindTail`, `LinkNew` and `EndList`; a link that was not written yet is
`JUNK`, and to follow it is a fault.  A freed block that appears between the two
searches of `rune_alloc` is taken and its payload read as a header: what is
returned is anything, and the block is `leaked`, as no caller knows it.

*ThreadApi.*  A block number stands for a struct; `id`, `detached`, `handle`,
`next`, `prev` are its fields, kept when the block is freed, as the pool keeps
them.  `rune_thread_init` is cut at the points at which the new thread matters:
`Register`, `Create` (or `CreateFails`), `Return`; `rune_thread_join` into `Join`
and `JoinReturns`.  `Start` and `End` are `_startup_pthread` and
`_cleanup_pthread`; `os`, `loose` and `doomed` are what pthreads knows.

*ThreadRace.*  The same list, with the same two structs' fields, cut finer: `pc[t]`
and `temp[t]` are where each thread's walk, `list_add` or `list_del` is, `nxt` and
`prv` the locals of `list_del`; detached threads, failing calls and mutexes are
left out.

*FrameLoop.*  One step per call of `_begin_frame` and `_end_frame` that waits or
talks to the device; `fence_lock`, `fence_unlock`, `cmdbuf_*`, `renderpass_*` and
`vkswapchain_present` are operators of these names.  `signal` and `state` are
the engine's caches; `fence`, `image_sem`, `queue_sem` and `queue` the device's
truth.  A presentation that is refused is logged and passed over (`PresentFails`):
nothing is queued, the semaphore stays signalled (`refused`) and the image is not
given back (`kept`).  `GpuRender` and `GpuPresent` are external.

*Lifecycle.*  `mods` is the list in the order of registration; `at[t]` and
`mod[t]` are the locals `temp` and `mod` of thread t's walk, as positions in it;
`step[t]` is what it does next.  One round of `rune_close_mods` is three steps,
in the order of `Follow`: `CallExit` (through the struct `temp` is in),
`AdvanceExit` (`temp = temp->next`) and `FreeMod` (`rune_free(mod)`).  `freed` are the
structs given back, `reused` those whose block another allocation took
(`Reuse`); to go on through one of these is the fault "wild mod".
`rune_free_all` follows in two steps: from the first on its walk frees the list's
blocks (`pool` is "going"), and whoever else walks the list then meets a block that is
gone ("torn list") or is not there ("unknown block"); at the second each header was
read for the log after it was freed (`alloc.c:93-94`), which the process survives or
not ("freed header").  Then `EndProcess`; a thread that ends after `rune_free_all`
frees its struct in an empty pool, the fault "unknown block".  `rune_abort` is
`EnterExit` of the thread that calls it.  `rune_clear_objs` and
`rune_init_default_settings`, which `init.c` calls, are not in the repository and
are taken to change nothing here.

*Input.*  `callbacks` are the scancodes with an entry in the table; `calling` is what
main is in, nothing or a callback.  `Codes` are the indices of the table, `Keys` what
GLFW may report: a key beyond the table calls "wild", whatever stands there, and
the run has such a key.

*RenderObjects.*  An object is a kind and an index.  Each `create_*`, `_init_*`,
`destroy_*` and `_close_vulkan` is an operator with the function's name whose value
is the sequence of objects (and arrays) the function makes or destroys, in the
order of its calls; `todo` is what is left of it.  `Create`, `CreateFails`,
`AllocArray` and `Destroy` take its head.  `Parents` is Vulkan's side: what must
outlive what.  `spare` counts the pool's freed blocks of the size of the arrays of
`img_count` pointers; an array that is asked for zeroed and gets one of these is
`stale`.  Structs and queue arrays of that size, allocated in between, may take some
of them (`AllocArray`).  To destroy what is not there is `Wrong`; so it is with a
semaphore that could not be made, whose array nobody initialised.

*Application.*  `place` is how far `main` has come.  `rune_init_window`,
`InitInput`, `SelectRenderer`, `Close`, `rune_destroy_window` and `Exit` are its
calls, in the order the headers ask for (`init.h:28`) and the style guide's
`main` shows (`doc/coding-style.rst:18-30`); `Render` is one object of the
renderer's set-up or closing; `Register`, `rune_input_tick`, `KeyDone` and
`SetMode` are the loop.

*DeviceSetup.*  Initial states enumerate machines; `CheckPdev` is one round of
`_select_pdev`, `CreateVkdev` the rest of `create_vkdev`, `CreateSwapchain` picks
a surface and computes what is asked of it.

### Conventions

* A mutant stands just before the definition it mutates, under a comment that
  starts with "Mutant of": the form a plausible slip in that code would have.
  For each property of a passing run one mutant of a mapped definition
  makes TLC refute it (`mutants` in `PROJECT.json`).
* Definitions keep the source's names where they model a function of the source.
  `map` in `PROJECT.json` gives the lines of each.
* Each action states all the variables it leaves alone.
* Proofs are in `<Module>Proofs.tla`.  `V_<Property>.cfg` checks the one property
  that a comment or message of the code states and the code does not keep.

## Runs

Run one with `tlc -config <cfg> <module>.tla`.

| Run | cfg | Instance | Distinct states | What it shows |
|---|---|---|---|---|
| `pool` | `MCPoolAlloc.cfg` | 4 addresses, 2 sizes, 2 values, 4 headers; symmetric addresses and values | 846,947 | `LedgerExact`, `GrowsOnlyWithDemand`, `ImplementsContract` |
| `race` | `PoolRace.cfg` | 1 allocating and 2 freeing threads, 3 headers | 58,893 | `OneOwner`, `NoneLost`, `WalksStayInList`, `CallsEnd` |
| `threads` | `ThreadApi.cfg` | 3 pthreads alive at once, 3 thread IDs, 2 mutexes, 4 blocks, 1 failing create | 1,057,832 | `RegistryExact`, `OwnArgs`, `SelfIsMine`, `JoinWaits`, `CancelledJoinReturns` |
| `frames` | `FrameLoop.cfg` | 2 frames in flight, 3 images, early acquisition, waits, acquisitions and presentations that may fail | 54,135 | `FencesExact`, `ImageExclusive`, `SemaphoresFresh`, `WaitsAreMet`, `LeadBounded`, `AbortsOnlyOnFailure`, `NeverStuck` |
| `setup` | `DeviceSetup.cfg` | 2 devices of 2 families each, image counts to 3, 2 memory types | 241,206 | `FamiliesOfLastAble`, `NoneMissed`, `QueuesExist`, `SwapchainFits` |
| `application` | `Application.cfg` | 2 mods, 1 worker, up to 2 images, 2 spare blocks, a scancode in the table and one past it | 1,323,120 | `ExitsOnce`, `NoneMissed`, `FreedOnlyLogged`, `ParentsOutlive`, `OnlySemaphoresGoWrong`, `StartsEmpty`, `NothingLeft`, `Ends` |
| `pool_wild_pointer` | `V_NoWildPointer.cfg` | 3 addresses | | a resize takes a payload for a header |
| `race_two_allocators` | `V_OneOwner.cfg` | 2 allocating threads, 1 freeing | | the same block is handed out twice |
| `threads_first_ends` | `V_JoinWaits.cfg` | the first thread may end | | a join of a running thread returns at once |
| `threads_start_args` | `V_OwnArgs.cfg` | two threads may be starting at once | | a thread starts with another's arguments |
| `threads_overlap` | `V_JoinedHasEnded.cfg` | `ThreadRace` with 3 threads and 3 structs | | a join reports success for a thread that runs, its walk cut short by another's end |
| `frame_busy_buffer` | `V_RecordsIdleBuffer.cfg` | as `frames` | | a buffer the device still executes is recorded to |

### Bounds

* *Pool.*  Two sizes are enough for a search that must pass over a block of the
  other size; three live blocks and one to move to give every order of free and
  in-use blocks before and behind the one found.  A block more only lengthens
  the walk.  The proofs have no bound.
* *Race.*  Three headers give a list with a head, a middle and a tail that is
  being linked while two walks are in front of and behind it.  A call that would
  need a fourth header is not started (`CallAlloc`).
* *Threads.*  Three structs give `list_del` a first, a middle and a last; a fourth block
  is for a mutex on the other list or for a struct that is reused while the rest
  is in use.  IDs are used up, not reused, so runs are finite.
* *Frames.*  `max_frames` is 2 in the code (`swapchain.c:33`); three images are what
  a surface with a minimum of two gives.  The queue needs no bound: `LeadBounded`
  shows that the fences bound it, and `FencesExact` holds in all reachable states.
* *Setup.*  A family is a set of capabilities; two families are enough for one
  that has something the other lacks and for the last one with a capability to
  win; two devices for one to leave its families to the next.
* *Application.*  Two mods are a first and a last, one of which may register the
  other and be the one walked through when the other is freed; one worker is
  enough to take a freed block at any moment, and to walk the list or to end while
  the pool goes or after it.  One scancode has all the histories of an entry, and
  another entry shares nothing with it; a second one is past the table.
  Two images make arrays with a first and a last entry; more make the same
  sequences longer.  `OneMore` counts calls of an exit function up to two.  The
  theorems of `ApplicationProofs` have none of these bounds.

`CHECK_DEADLOCK FALSE` is in each configuration because each system may stop:
with a fault, with the pool or the IDs used up, with the renderer closed or
the process ended by `rune_abort`.

### Rules of use

Some properties hold only of callers that keep to a rule no header states.  Each
rule is a constant; the run or the change of a configuration named here shows
that it is needed.

| Rule | Where | Without it |
|---|---|---|
| one thread at a time allocates (others may free) | `Allocators` of `PoolRace` | `race_two_allocators` |
| the first thread and the first mutex are never ended | `FirstStays` of `ThreadApi` | `threads_first_ends` |
| a thread has started before the next is created | `OneStart` of `ThreadApi` | `threads_start_args` |
| calls of the thread API and ends of threads do not overlap | each is one step of `ThreadApi` | `threads_overlap` |
| of the freed blocks of the size of the renderer's arrays at most two are left when the swapchain's arrays are allocated | `MaxSpare` of `RenderObjects` | set it to 3: `StartsEmpty` fails |
| only main calls `rune_abort` | "worker aborts" not in `Allow` | `ExitsOnce`, `NoneMissed` and `FreedOnlyLogged` fail |
| no exit function calls `rune_abort` | "exit aborts" not in `Allow` | `ExitsOnce` and `FreedOnlyLogged` fail |
| `rune_exit` is called when the other threads have ended | "workers stay" not in `Allow` | `FreedOnlyLogged` fails |
| mods are registered before `rune_init` has returned | "late mods" not in `Allow` | `NoneMissed` fails: a mod is ended that was never started |
| the setting for Vulkan's debugger is not changed while there is a renderer | `DebugChanges` of `RenderObjects` | `OnlySemaphoresGoWrong` and `ParentsOutlive` fail |
| the renderer is selected once, before the loop, and closed before the window is destroyed | `Application` | not checked; a second context would get the first one's block from `rune_calloc`, and take its handles for its own |

`EarlyAcquire` of `FrameLoop` is the environment's: with it the presentation engine may
hand out an image whose last presentation is still queued, as Vulkan allows.
Failures are always possible there; `failed` remembers whether there was one, because
`ImageExclusive` does not survive a failed wait whose result is ignored
(`renderer.c:239`), and `AbortsOnlyOnFailure` says that, calls that `vkassert` looks at
aside, nothing else ends the drawing.  `SemaphoresFresh` excepts the queue semaphores of
frames that had a presentation refused, which are signalled twice, and `NeverStuck`
the state in which every image was kept by a refused presentation.

### Fairness

* `FrameLoop`: weak fairness of the drawing thread, which is a loop of the
  application and goes on whenever a step of it succeeds, of a close that was
  begun, and of the device and presentation engine, which execute what they
  have.  Closing is never forced (`StartClose`), nor is a failure (`DrawFails`).
* `Application`: weak fairness of each thread in its way through `rune_exit` or
  `rune_abort` (`EndingFair`): the scheduler runs it, and a mod's exit function
  returns.  Nothing forces main to leave its loop.
* `PoolRace`: weak fairness of each thread that is inside a call.  A call is not
  forced to begin.  The scheduler runs every runnable thread.
* `ThreadApi`: weak fairness of the client inside `rune_thread_init` and of the return of a
  join, of the start of each thread, and of the end of a thread that was cancelled,
  which takes effect at its next cancellation point.  A thread that nobody cancels
  may run for ever, so a join of it need not return.

## Proofs

Check them with `tlapm <module>.tla`.  8,600 obligations; all are proved by Z3,
Zenon and LS4.  Every invariant that a passing run checks is the subject of a
theorem; what the run shows on its instance, the theorem shows for every value
of the constants, under the assumptions named here.

**`PoolAllocProofs`** assumes only `PoolAssumption`.

* `BooksExact`: `Spec => [](TypeOK /\ LedgerExact)`, and `PoolTypes` its first
  half.  `LedgerExact` is not inductive alone: that a payload fresh from malloc
  has no header yet needs that headers describe payloads malloc has given out
  (`PayloadsFromHeap`).  The invariant is `TypeOK /\ LedgerExact /\ PayloadsFromHeap`.
  `Books` restates it of a list, a heap and an ownership passed as parameters, and
  three lemmas show that the moves all calls are made of (take a freed block, free
  one, append one) keep it.
* `AllocatorImplementsContract`: `Spec => ImplementsContract`, from the same
  invariant.  A call that hands out a block is a `Give`, a resize a `Resize`, a
  free a `Release`; a call that faults or fails is a stutter.
* `PoolGrowsWithDemand`: `MCSpec => []GrowsOnlyWithDemand`, of the allocator with
  its history variable.  Each step is `Warranted`: it adds no header of a size, or
  each header of that size then describes a payload its callers hold during the
  step, because a header is added only when no other of its size is free.  The
  headers are then an injection into what callers hold (`WarrantedFits`).

**`FrameLoopProofs`** assumes only `FrameAssumption`: any number of frames in
flight and of images.

* `FencesAreExact`: `Spec => [](TypeOK /\ FencesExact)`, whatever fails
  (`FrameTypes` is its first half).  The strengthening: a frame holds its fence
  from its lock to its submission, a failed frame included because its buffer is
  then not recording and `_end_frame` aborts (`FrameTaken`), and only the current
  frame's buffer is not initial (`StatesInStep`).
* `ImagesAreExclusive`: `Spec => []ImageExclusive`, which speaks of runs in which
  nothing has failed yet.  It needs, besides, that `images_in_flight` names the
  frame of a pending submission (`DrawnBy`) and that at the submission the image's
  last frame was waited for (`IdleAtSubmit`).
* `SemaphoresAreFresh`, `EveryWaitIsMet` and `LeadIsBounded`: `SemaphoresFresh`,
  `WaitsAreMet` and `LeadBounded`, whatever fails.  They share an invariant about
  the order of the queue.  A submission and the presentation of its frame follow
  each other (`InPairs`), so a queue semaphore is signalled exactly for what the
  display shows next (`Shown`); an image semaphore is signalled, or promised by
  one presentation, for a frame between its acquisition and its rendering, and
  for no other (`Promises`); a refused presentation leaves its frame's semaphore
  signalled, and the invariant says of which frames (`refused`) that may be.  `LeadBounded` then is a count: submissions that are
  pending have different fences.
* `OnlyFailuresAbort`: `Spec => []AbortsOnlyOnFailure`.  While nothing has failed
  the buffer of each step is in the state its call expects (`Unfailed`).

**`PoolRaceProofs`** assumes `RaceAssumption`, and `OneAllocator`: one thread
allocates, any number free.

* `OneOwnerPerBlock`: `Spec => []OneOwner`.  The invariant says that a block whose
  flag is up is in nobody's hands (`FreeIsIdle`), that a flag found up is still
  up when it is cleared (`StillFree`, the conjunct two allocating threads break),
  that a header being added is known to nobody else (`NewIsUnknown`,
  `HandsApart`), and where each walk may be (`WalksRight`).
* `NoBlockIsLost`, `EveryWalkStays` and `RaceTypes`: `NoneLost`, `WalksStayInList`
  and `TypeOK`.  The list is its links, and "h is still before a walk at x" is
  reachability: every set of nodes that has x and is closed under the links has
  h (`Onward`).  The invariant `ListInv` says that links lead to known headers and
  only the header being added has one nobody wrote (`Links`), that all others can
  be reached from the head (`AllListed`), that a block in nobody's hands is free
  (`NoneIdle`), and what each thread knows of the list at each step (`Knows`).  As
  links are only added, at the end, what is before a walk stays there.

**`ThreadApiProofs`** assumes `ThreadAssumption`, `FirstStays` (the first thread
and mutex are not ended) and `OneStart` (a thread starts before the next is
created): rules of use, without either of which `RegistryExact` and `SelfIsMine`
fail.  The third rule, that calls and ends do not overlap, is in the module's
steps: what is proved is proved of programs that keep to all three, and
`threads_overlap` shows that the code does not keep to the third by itself.  Any
number of threads, IDs, mutexes and blocks.

* `ListsAreExact`, `ArgsAreOwn`, `AskersFindThemselves`, `JoinsWait` and
  `ThreadTypes`: `RegistryExact`, `OwnArgs`, `SelfIsMine`, `JoinWaits`, and
  `TypeOK` with `fault = "none"`.  The invariant has two disjoint sets of structs,
  which each list has as a path linked both ways (`Shape`); it says whose each
  struct of the thread list is (`Owners`: of a thread that has not ended, of one
  that could not be created, or the one being created), that no ID and no pthread
  is there twice (`IdsApart`, `TidsApart`), that one thread is starting at most
  (`OneStarts`), and where the client is (`ClientAt`).  `Mine` is the struct a thread
  was created for: before it has started that is what `start_args` point at.  The
  lemmas on lists show that the walk of a list takes its path, what `list_add`
  and `list_del` do to the path and to the structs on it, and that the other
  list is left alone.

**`DeviceSetupProofs`** assumes `SetupAssumption`: any number of devices, families
and images.

* `FamiliesAreLeft`, `NoDeviceIsMissed`, `QueuesAreThere`, `SwapchainIsAllowed`
  and `SetupTypes`: `FamiliesOfLastAble`, `NoneMissed`, `QueuesExist`,
  `SwapchainFits` and `TypeOK`, with any number of discrete GPUs.  The first needs
  what each static holds after each device (`Stale`: the last family with the
  capability of the last device that has one, `Left`), the second that each device
  passed over lacks something (`PassedOver`); the rest describe what was computed
  (`Created`, `Fitted`).

**`RenderObjectsProofs`** assumes `RenderAssumption`: any number of images.

* `ParentsGoLast` and `ClosingLeavesNothing` (`ParentsOutlive`, `NothingLeft`) under
  `~ DebugChanges`; `ArraysStartEmpty` (`StartsEmpty`) under `MaxSpare <= 2`;
  `WrongAreSemaphores` (`OnlySemaphoresGoWrong`) under both: the rules of use again.
  `RendererTypes` needs neither.  Two lemmas carry them: what `_init_vulkan` makes
  (`InitFits`) and what `_close_vulkan` destroys (`CloseFits`) for n images is each
  object of a renderer once, in the order of the ranks `MakeRank` and `CloseRank`.
  They are put together from the sequences of the functions called (`FitsJoin`).
  The invariants then say that what is left to do keeps that order (`InOrder`);
  that what there is, what is to be made and what was passed over are together
  the objects of a renderer (`Complete`); and where the recycled blocks go
  (`Recycled`).

**`ApplicationProofs`** assumes `Allow = {}` (nobody takes a liberty), where the
engine's end is concerned, and the assumptions of the modules it is made of.

* `ApplicationLives`: `Spec => LSpec`, and `ApplicationRenders`: `Spec => RSpec`.  Every
  step of the application is one of `Lifecycle`'s or leaves its variables alone,
  and so it is with the renderer's; what is proved of the engine's life and of
  the renderer's objects therefore holds of the application, `RendererIsSound`
  among it.
* `EngineEnds`: `Spec => [](ExitsOnce /\ NoneMissed /\ FreedOnlyLogged)`, for any
  number of mods and workers (`ModsExitOnce` and `OnlyHeadersAreRead`
  state two of the three by themselves).  None of the three is inductive: that an
  exit function is called once needs to know how far the walk has come.  `LInv`
  says it at each step of a round: the mods before `temp` have been ended and no
  others (`Ended`), only structs before it were freed (`FreedBefore`, whence none
  that the walk still reads), no mod is listed twice (`Distinct`), the walk of
  `rune_init_mods` has started those before it (`Starts`), the pool goes last and,
  without an abort, after the workers (`PoolLast`), and only main ends the engine
  (`WorkersWork`).
* `ApplicationTypes`: `Spec => []TypeOK`, of all parts together.

**Recursion.**  No theorem here is proved by the library's induction, which takes
an operator as its parameter.  Where a walk or the flattening of a sequence of
sequences is recursive, the induction is over a set of numbers up to a bound:
`NumberFacts` derives it from the pigeonhole principle (no set of numbers up to n has
0 and each member's successor, since the successors would be a bijection that
misses 0).  `WalkTakesPath` of `ThreadApiProofs` and `FlattenIs` of
`RenderObjectsProofs` say in this way what the recursive functions compute.

**Only model-checked**: liveness (`NeverStuck`, `CallsEnd`, `CancelledJoinReturns`,
`Ends`).  Fairness is about which steps are enabled, which the prover does not
reason about.

## Where code and comments disagree

Shown by the violation runs (quoted in `findings` of `PROJECT.json`):

1. `alloc.c:141`: `rune_realloc` gets a payload from `_alloc_block` where it expects
   a header, when a freed block has the new size (`pool_wild_pointer`).
2. `alloc.c:107`: found free and taken in two steps without a lock
   (`race_two_allocators`).
3. `thread.c:88`: the first thread's struct is freed but stays the head of the list
   (`threads_first_ends`).
4. `thread.c:130`: `start_args` are freed before they were read (`threads_start_args`).
5. `thread.c:60`: the walk of a join stands on a struct that its thread takes off the
   list, and ends early (`threads_overlap`).
6. `renderer.c:205`: the command buffer is recorded to before the wait for the image's
   last frame (`frame_busy_buffer`).

Seen while modelling, without a run of their own:

* `alloc.c:76`: a failed malloc returns NULL, which `rune_alloc`, `rune_calloc` and
  `rune_realloc` dereference.  `PoolAlloc` ends there (`"null header"`).
* `alloc.c:142`: a resize to a smaller size copies the whole old payload
  (`"overflow"` in `PoolAlloc`).
* `alloc.c:122-127`: `rune_calloc` returns a recycled block as it is, and leaves its
  first argument, `nmemb`, aside; `alloc.h:45-51` promises a block filled with it.
  `PoolContract` asks for the fill of memory nobody had before, and no more; whether
  the renderer's arrays read zero is then a matter of what was freed before
  (`StartsEmpty`).
* `alloc.c:93-94`: the size of a block is logged after the block was freed; so ends
  every run of the engine (`FreedOnlyLogged`).
* `device.c:98`: with two discrete GPUs one that lacks a capability is chosen and set
  up with a queue family number left over from another; `FamiliesOfLastAble` says
  whose.
* `swapchain.c:148-149`: errors of the presentation are logged and passed over; the
  frame's queue semaphore is then signalled again by its next batch, and the image is
  not given back (`refused` and `kept` of `FrameLoop`).
* `renderer.c:149-150, 158-159, 172-175`: a semaphore that could not be made is used
  and destroyed all the same, whatever its array held (`OnlySemaphoresGoWrong`).
* `thread.c:188, 150`: the first mutex's links are not initialised; a thread that is
  cancelled while it holds a mutex never unlocks it.
* `alloc.c:154`: a block freed after `rune_free_all` is not found and the NULL is
  dereferenced (`"unknown pointer"`); `rune_free_all` itself keeps the payloads.
* `alloc.c:65`: with a freeing thread between the two searches, `rune_alloc` too
  takes a payload for a header (`TakePayload` in `PoolRace`).
* `renderer.c:190, 201`: a failed lock is logged as a warning, a failed acquisition as an
  error, but `_end_frame` then aborts the process, as the buffer is not recording.
* `thread.c:156`: joining a thread that has ended reports success, without its
  result and without collecting it.
* `device.c:314`: the masks of type, properties and flags are combined bit by bit, so
  only memory type 0 can be found for `DEVICE_LOCAL`; `-1` is passed on otherwise.
* `device.c:245-248`: when only the compute family presents, `pres_queue` stays NULL.
* `device.c:296`: a depth format that can be used with linear tiling only is accepted,
  though the image is made with optimal tiling (`image.c:63`).
* `ui/input.c:30`: `set_keyboard_mode` refuses every mode.
* `ui/input.c:17`: the scancode is not compared with the size of the table.
* `ui/input.c:24`: `rune_input_init` clears what mods registered in their init
  functions, which run before there is a window to pass it.
* `context.c:215`: extension names are freed and used afterwards.
* `include/rune/core/mod.h`: `update_func` is "called at every frame"; nothing calls it.
* `abort.c:75`: `rune_abort` from a mod's exit function, or from a second thread,
  runs the exit functions again; it waits for no other thread.
* `mod.c:74`: structs are freed and stay on the list.
* `context.c:162`: the setting is read again to decide whether there is a messenger.

## Not modelled

* Separate presentation queue: `FrameLoop` has the case `device.c:245-246` prefers, in
  which presentations go to the graphics queue.
* `rune_realloc` and `rune_free_all` under threads (of the latter, `Lifecycle` has the
  moment, not the accesses); several clients of the thread API; locking and unlocking
  a mutex (one pthreads call each).  `ThreadRace` shows what overlapping calls break;
  what still holds under them is not stated.
* Queue families: two create infos of one family, which Vulkan forbids and
  `create_vkdev` can ask for, and two queues over one priority value.  `pres_queue` left
  NULL and a memory type of -1 are states of `DeviceSetup` no property excludes.
* What Vulkan objects are described by (formats, extents, layouts, flags);
  `cmdbuf_begin_single_use` and `cmdbuf_end_single_use`, which nothing calls.
* Drawing inside `Application`: `FrameLoop` is drawing alone, from the state
  `RenderObjects` ends its set-up in (`StartsEmpty`), to the closing.
* A callback registered by another thread while a key is pressed
  (`input.c:42-43` writes the data and the function one after the other).
* The validation callback, logging, GLFW's error callback, the DirectX stub,
  build files: no state that the engine's behaviour depends on.

## Plan

1. *Done*: the allocator and its contract; the frame loop, with failures; the
   allocator under threads; the thread API; the setup; the engine's life, input
   and the renderer's objects, composed in an application; a theorem for each
   invariant the runs check.
2. *Extend*: a separate presentation queue in `FrameLoop`; `ThreadRace` with several
   clients.
3. *Prove*: that with one allocating thread each call of `PoolRace` takes effect at
   one of its steps, as `PoolAlloc` and `PoolContract` have it: a refinement with the
   headers as payloads of one size.
