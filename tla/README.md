# A TLA+ model of the BoltsRebuilt GPU backend

BoltsRebuilt runs a statically recompiled Xbox 360 title on Windows.  Its GPU
plugin takes the emulator's Direct3D 12 backend (`src/src/gpu/vendored`, see
`vendored/UPSTREAM.md`) and adds native components (`src/src/gpu/native`) that
move work off the command processor's thread or avoid repeating it.  This
directory models the parts of the plugin in which several threads, the GPU and
failing calls meet, checks them with TLC, and proves with TLAPS some of what is
checked.

Paths below are those of the repository's files; `vendored/` stands for
`src/src/gpu/vendored/src/graphics/` and `native/` for `src/src/gpu/native/`.
`PROJECT.json` maps each definition of the modules to the lines it models and
lists the runs, the mutants that show each property can fail, the hazards, the
findings and the theorems.

## 1. Inventory

### 1.1 Threads and who talks to whom

The *command processor thread* (CP below) decodes guest packets
(`vendored/command_processor.cpp`, `src/src/gpu/nb_command_processor.cpp`) and
calls everything else synchronously.

    guest threads --stores--> write watches (runtime) --callbacks--> shared memory
                                                                      |  watches
                                                                      v
    CP --requests--> shared memory, textures, geometry pass, asset cache
    CP --descriptions--> pipeline cache --queue--> creation threads
                                        --queue--> storage writer --> files
    CP --records--> deferred command list --Submit/chunks--> replay worker
    CP, replay worker --ExecuteCommandLists, Signal--> D3D12 queue --> GPU
    GPU --fence values--> CP (CheckSubmissionFence) --> allocators, frames, pools

Calls are synchronous unless an arrow names a queue.  Shared state is guarded
by one mutex per component, except: the global critical region (shared by
shared memory, textures and the runtime's write watch), the residency mirror's
words (atomics), and the fence.

### 1.2 Components

| component | state | operations | what makes it hard | what makes it correct | modelled |
|---|---|---|---|---|---|
| Native replay worker (`native/native_replay_worker.*`) | one job slot, chunk session, swapped command stream, result, statistics; one mutex and condition | `Submit`, `BeginChunks`, `ReadyForChunk`, `TryAppendChunk`, `FinishChunks`, `Wait`, destructor; the thread's `Run`/`ExecuteJob` | one condition for worker, `Wait` and destructor; the mutex is released while a job executes; each device call may fail | commands reach the queue once and in order; an allocator is reset only when the GPU is done with it; failure is sticky and never signals; every wait ends | yes |
| D3D12 submissions (`vendored/d3d12/command_processor.cpp`) | `submission_open_`, current and completed submission, frames ring, writable and submitted allocators, device-removed flag, chunk session's allocator, direct-queue fence | `BeginSubmission`, `EndSubmission`, `CheckSubmissionFence`, native replay flushes and draw boundaries, `AwaitAllQueueOperationsCompletion`, resolve readback, tile mappings, shutdown | the worker submits on the same queue as the CP; an await may fail at several places; an await inside a submission ends it | order on the queue; ownership of allocators; no frame counted complete early; teardown only when nothing can still be read; no call waits for ever | partly |
| Shared memory (`vendored/shared_memory.cpp`, `vendored/d3d12/shared_memory.cpp`) | valid and GPU-written flags per page, watch lists, the GPU buffer | `RequestRange(s)`, `RangeWrittenByGpu`, uploads, `MemoryInvalidationCallback`, `InvalidateAllPages`, `ClearCache`, frame end | pages are copied without a lock while guest threads store; validity, watch and copy happen at different moments | a valid page is current or about to be; GPU-written data is not lost to a neighbour's write | partly |
| Native upload shadow (`native/native_upload_shadow*`) | the bytes last uploaded per page, epochs | capture, compare, publish, evict | a page may lose its CPU authority between comparison and use | the shadow shows only what the buffer holds | yes |
| Native shared residency mirror (`native/native_shared_residency_mirror.h`) | a lock-free bitmap of valid pages | promote, clear, check | read word by word while another thread clears it | never shows a page the flags do not | partly |
| Native invalidation range (`native/native_invalidation_range.h`) | none | the pages one write invalidates | bit arithmetic at word and block edges | never takes a GPU-written neighbour | partly |
| Native range batch (`native/native_range_batch.h`) | a batch of ranges | add, merge | merging, overflow at the end of memory | the union is exact | no |
| Native geometry pass (`native/native_geometry_pass.*`) | residency bitmap, queue of invalidations; pipelines and those being created; packet memos | residency check before a draw, drain; `GetPipeline`; packing constants | writing threads post while the CP reads; the queue holds 256 | a draw reads what the guest had written when it was decoded | partly |
| Native asset cache (`native/native_asset_cache.*`) | page versions, mappings, snapshots | resolve, invalidate | snapshots compared while pages change | a mapping is used only for the content it was made for | partly |
| Texture cache (`vendored/pipeline/texture/cache.cpp`) | textures, outdated flags, watches | request, load, watch, mark resolved | writes between the data's request and the watch's registration | a texture marked up to date is | partly |
| Native constant upload pool (`native/native_gpu_upload_pool.*`) | pages, budget, retired pages | request, reclaim, shutdown | creation fails after the open page was retired | bytes in flight are never rewritten | yes |
| Pipeline cache (`vendored/d3d12/pipeline_cache.cpp`) | pipelines, creation queue, busy count, completion event; storage queues and files | `ConfigurePipeline`, draw boundary, `EndSubmission`, `InitializeShaderStorage`, `Shutdown`; creation threads; storage writer | handles are recorded before the pipeline exists; one condition for queueing, awaiting and shutdown | no unresolved handle is used; nothing lost, created twice or written after close; shutdown ends | partly |
| Render target cache (`vendored/d3d12/render_target_cache.cpp`, `vendored/pipeline/render_target/cache.cpp`) | ownership of EDRAM ranges, its memo | update, transfer, resolve | ranges that wrap and overlap | one owner per tile, transfers from the last owner | no |
| Guest command processor (`src/src/gpu/nb_command_processor.cpp`, `nb_cp_records.cpp`) | ring buffer, register file; frame counters, options, trace, captures, records | packets; `IssueDraw`, `IssueCopy`, `IssueSwap` | many features take effect at swaps, each with its own count of frames; keys arrive between them | a reported interval was drawn under one set of conditions; a frame's numbers are its own | partly |
| Native shader cache and library (`native/native_shader_*`) | cache files, compiled shaders | build, publish, look up | files published by rename; several compiling threads | a reader never sees half a file | partly |
| Deferred command list | a stream of encoded calls | record, execute, reset | - | - | as data of the replay modules |
| GPU timing and pacing (`native/native_gpu_budget_probe.*`, `native_gpu_submission_timing.*`, `native_precise_wait.*`, `native_wait_poll.h`) | slots and groups of queries per submission, the window of frames | begin, end, scopes, observe a frame, publish | frames without a close, lost submissions, teardown inside the window | what calls itself valid is whole; queries outlive what names them | partly |
| Memos and small caches (`native_ready_pair_memo.h`, `native_translation_lookup_memo.h`, `native_constant_reuse.h`) | last key and answer | look up, reset | missing resets | the answer is what the slow path gives | partly |
| Write watch fast path (`src/src/runtime/watch_*`) | protected pages | decide whether a fault needs the lock | lock-free read | never skips a needed callback | no |
| Ultrawide and guest hooks (`src/src/ultrawide`, `src/src/hooks`) | latched settings, a queue of presented aspects, the HUD's view | Swap, view, scissor, presentation | the aspect is taken some frames after it was queued; packets may be lost | an image is presented at the aspect it was rendered for | partly |
| Audio, input and shell; build, tools, SDK patches, generated code | small | - | little concurrency of their own | - | no |

The emulator's runtime (memory protection, faults, threads) and Direct3D 12
itself are outside the repository.  What the code assumes of them is modelled
as external actions, named in section 3.

## 2. The modules

    OrderedSubmission        what the replay worker promises
        ^ implemented by
    NativeReplayWorker       the worker and its API
        ^ EXTENDS                      ^ EXTENDS
    NativeReplayClient       D3D12Submission  <-  MCD3D12Submission
    (any legal caller)       (the real caller)

    SharedMemory  <-  MCSharedMemory          PipelineCache
        ^ EXTENDS
    GeometryResidency
    (native draws as its client)

    NativeConstants  <-  MCNativeConstants

    NativeShaders  <-  MCNativeShaders        GuestFrames  <-  MCGuestFrames
      NativeShaderLibrary                       FrameSchedule
      NativePipelines                           PresentAspect
      NativeShaderCache                         NativeBindings
                                                TextureNotices
                                                GpuBudgetProbe

The theorems about a module `M` and their proofs are in `M_proofs`, which
EXTENDS it, for `NativeReplayClient`, `D3D12Submission`, `SharedMemory`,
`GeometryResidency` (on top of `SharedMemory_proofs`), `PipelineCache`,
`NativeConstants`, `NativeShaders` and `GuestFrames`.

`MCSharedMemory` and `MCNativeConstants` add symmetry sets only,
`MCNativeShaders` and `MCGuestFrames` values of constants, `MCD3D12Submission` the profiles of
its runs: a behaviour of `D3D12Submission` has one of the given profiles, which
fixes the length of the frame ring, what may fail and how far it goes.
`NativeShaders` and `GuestFrames` put modules that share no state into one
specification: `component` says at the start which of them a behaviour is of,
and the others rest in one initial state, so that a run has the sum of their
states and not the product.  No definition is replaced by a `.cfg`.

In every module an action is a piece of code that runs without letting another
thread, the GPU or a caller's choice in between: a section under a mutex, or a
call outside one.  A function that blocks or unlocks is cut at that place, and
a program counter (`cpc`, `wpc`, `tpc`, `cp.pc`, ...) says where its thread is.
A condition variable is the set of threads that wait on it; `notify_one` wakes
any one of them, and one sent while the set is empty is lost, as in C++.
Notifications that the code sends after unlocking are actions of their own.

### 2.1 OrderedSubmission, NativeReplayWorker, NativeReplayClient

`NativeReplayWorker` keeps the header's members under their names (`state`,
`job`, `stop`, `session_active`, `result`, `replay_state`, `stats`) and adds
what they refer to: `stream` (the worker's swapped storage), `source` (the
caller's), `list` (the graphics command list) and `queue` (what was handed to
`ID3D12CommandQueue`).  Commands are numbers in recording order.

| code | model |
|---|---|
| `Submit`, `BeginChunks`, `Start` | `Start`, guarded by `CanStart` |
| `TryAppendChunk`, `FinishChunks`, `ReadyForChunk` | the same names |
| `ReapCompletedLocked` | `ReapCompleted`, inside each operation that calls it |
| `Wait` | `WaitReturn`, `WaitBlock` |
| destructor | `RequestStop`, a notification, the join |
| `Run` | `RunAcquire`, `RunWoken`, `StoreResult`, `Publish` |
| `ExecuteJob`, one action per device call | `ResetAllocator`, `ResetList`, `Replay`, `Close`, `Execute`, `Signal`; each fails or succeeds |

`NativeReplayClient` is a caller that makes any call the header allows in any
order and records commands in between, and a GPU that consumes the queue.  It
owns the fence: an allocator may be passed again when the fence has reached the
value it was last used with.

`OrderedSubmission` is the promise in a quarter of the size: batches open,
grow, are executed whole and then signalled, or the submitter breaks for good.
`Ordered == INSTANCE OrderedSubmission WITH ...` maps the slot, the session,
the stream and the list to one open batch (`AbstractBatch`), and
`ImplementsOrderedSubmission` is `Ordered!Spec`.

### 2.2 D3D12Submission

The functions of `command_processor.cpp` that open, flush, end and await
submissions, composed with the worker's actions.  `sub`, `frames`, `pools`
group the members of those prefixes; `lost`, `clear` and `worker` are
`device_removed_`, `cache_clear_requested_` and the state of
`native_replay_worker_`.

| code | model |
|---|---|
| `BeginSubmission` | `CallBeginSubmission`, the fence's steps, `CompletedFrame`, `BeginOpenWithFrame`, `BeginOpen` |
| `ReplayNativeDrawBoundary`, `FlushNativeReplay` | `ReplayNativeDrawBoundary`, `CheckChunkSlot`, `AppendChunk`, `BeginChunks`, `FlushNativeReplay(...)` |
| `EndSubmission` | `CallEndSubmission`, `EndFlush`, `EndFinishChunks`, `EndSubmit`, `EndReplay`, `EndSwapFlush`, `EndBooks`, `EndClose` |
| `CheckSubmissionFence` | `FenceEnter`, `AwaitLastSubmission`, `FenceDirect*`, `FenceCheck`, `FenceFlush`, `FenceWait*` and `FenceWaitFails`, `Retired`, `Reclaim` |
| `AwaitAllQueueOperationsCompletion` | `CallAwait`, `AwaitFlush`, `Proven` |
| `IssueCopy` with readback | `BeginReadback`, `RecordReadback` |
| `ShutdownContext` | `Terminate`, `Destroy*` |

A recorded command carries the submission and the frame it was recorded in.
The synchronous calls of `EndSubmission`'s own replay fail only when the device
is removed.  The draw, the presentation and everything the fence merely
reclaims are left out; what they decide (whether a boundary is due, whether a
timing or diagnostic feature suppresses chunks) is a free choice.

### 2.3 SharedMemory

Guest memory is the number of writes made to each page, so no content occurs
twice; `buffer` is what the GPU's copy holds once the recorded commands have
run; `gpuData` marks pages the GPU wrote.  `valid`, `written` and `mirror` are
the three bitmaps, `watched` the runtime's page protection, `shadow` the upload
shadow's remembered bytes, `tokens` the epochs a request still holds.

The CP's request is cut where it unlocks: the mirror's check word by word
(`CheckMirror`), the scan under the lock (`Scan`), per run the validation
(`BeginUpload`, `AllocateRun`), the protection (`Protect`), and the copy chunk
by chunk, plain (`Copy`) or through the shadow (`Capture`, `RefuseCapture`,
`CopyChanged`, `FinishShadow*`).  GPU writes are `RangeWrittenByGpu`,
`GpuRangeValid`, `GpuProtect`.  A guest store first faults if the page is
watched; the callback clears the mirror, then the flags (telling the watches and
the shadow), and the runtime lifts the protection, all under the global lock,
and then repeats the store.  `InvalidateAllPages` may come from any thread.

`notices` is what shared memory's watches tell its clients: the pending
invalidations and the overflow of the geometry pass's queue
(`QueueResidencyInvalidation`), and in `current` the asset mappings whose pages
have kept their version (`before` stands for the versions read when a
comparison begins).

### 2.4 PipelineCache

`pipe[p]` says whether a description has an entry, waits for its creation, is
settled (created, or failed: a null state) or deleted.  `creation_queue`,
`creation_threads_busy`, the event and the shutdown limit are the code's.  A
creation thread is `Sleep`, `Take`, `Create`, `Finish` and `FinishAndWait`;
the storage writer is `TakeRecords` and `Write` with its waits; the CP's calls
are `ConfigureFound`/`ConfigureNew` with what follows, the boundary,
`EndSubmission` with the drain (`DrainTake`, `DrainCreate`) and the await,
`InitializeShaderStorage` from `stop_writer` to `Opened`, and `Shutdown` to
`DeletePipelines`.  `recorded` is the set of handles in the deferred list that
the CP is about to resolve.

### 2.5 GeometryResidency

EXTENDS `SharedMemory` with the native draw as its caller: `Record` takes its
ranges (`BeginDraw`), folds the queue into the bitmap (`DrainBefore`), requests
the ranges the bitmap does not cover (`RequestMissing`, through the steps of
`SharedMemory`), adds them (`AddRequested`) and drains again (`DrainAfter`).
With the asset cache each range is then looked up (`Find`), or its versions are
read (`Snapshot`), its bytes compared with an asset (`Compare`) and a mapping
kept if no page changed its version (`Undisputed`).  `RecordDraw` is where the
ranges are handed to the GPU.  `since` is guest memory when the draw began.

### 2.6 NativeConstants

`Record` packs a stage's constants into a slice of an upload page or binds the
slice its memo remembers for an equal packet of the same frame.  `pages` are
the physical pages (the pool's own heap or the ordinary upload heap), `pool`
the lists of the base class with the open page and the sticky latches, `bound`
the bindings the GPU has yet to read.  `CreatePage`, `Served`, `Refused`,
`Reclaimable`, `CheckCompleted`, `Swap` and `Shutdown` are the code's; a
creation may fail.  `ShutdownContext` with and without a proven completion
decides whether pages are released or retained.

### 2.7 NativeShaders: NativeShaderLibrary, NativePipelines, NativeShaderCache

The library's `Draw` is `FindPair` and `EnsureNoAlphaTest` with
`ReapCompiles` and the ready-pair memo; a job reads its shader's file
(`JobReads`), accepts it or not (`Accepts`: the form without AlphaTest only
from the body the generated form was compiled from) and returns.  The file may
be generated anew at any moment (`Rewrite`).

`NativePipelines` is `Record`'s choice: `Draw` folds in finished creations
(`Reaped`), finds a pipeline by key or by the memo of the last one, starts a
creation where a slot is free, and answers with a shader or leaves the draw
emulated.  `KeyFor` is the normalised key; bit 18 distinguishes the form.
`in_flight` is the counter all passes' workers share.

`NativeShaderCache` is one entry of the disk cache and the jobs of several
processes that look it up, compile, claim a temporary name (`CREATE_NEW`),
write, move it without replacing, compare with the winner's entry, and delete
what they own.  A process may die after any step, writes may be short, and the
entry may be damaged from outside.

### 2.8 FrameSchedule

`IssueDraw`, `IssueCopy` and `IssueSwap` of `nb_command_processor.cpp` as far
as they decide when something takes effect: debug keys (`PollDebugKeys`),
benchmark windows and phases (`Phase`), the schedule of options
(`NextTuning`), the end of a reported interval (`Reports`), the trace's rows,
RenderDoc captures and the records of `nb_cp_records.cpp`.  `config` is the
command line of a behaviour; `ran` collects the conditions the interval's draws
ran under.  Performance options are classes (a set of switches, a spin time, a
chunk size).

### 2.9 PresentAspect

The title's thread renders, passes through the HUD's view and scissor hooks,
and swaps (`SwapEnter`, `EmitPacket`, `Latch`); the D3D worker presents the last
image again while the device is released (`Represent`); packets reach the
command processor in order or are lost, and it takes one entry a packet
(`TakePresentAspect`, with `Resynchronised` by the frontbuffer's tag).

### 2.10 NativeBindings

From a guest shader's address to the slots of a draw: `LoadShader` with the
load memo (address, words, object), the table of shaders by hash, their
translation, and `GuestTextureIndex` with plans and sampler memos.  `Objects`
are addresses, given to other shaders after `InitializeShaderStorage` deleted
the first ones, which changes the epoch.  `BoundDirectly` is the path without
any memo, which `BindingsAreGuests` compares every draw with.

### 2.11 TextureNotices

A store to a protected page faults; under the global lock the page loses
validity and protection and a registered watch marks the texture outdated; the
flag is raised after that; `RequestTextures` exchanges the flag (`Exchange`),
unbinds (`Sync`), requests the ranges, loads and registers the watch
(`CommitLoads`).  Versions count the stores.

### 2.12 GpuBudgetProbe

The capture of whole frames' GPU work: `ObserveFrame` at each swap,
`BeginProbe`/`EndProbe` around submissions, leaf scopes and operations, and
the publication by the swap or the teardown.  `executed` is history: what was really submitted, with
frame, operations and scopes, for the published figures to be compared with.

## 3. What is assumed

External actions, each standing for code outside the repository: the GPU
consumes the queue in order (`GpuStep`) and the device may be removed at any
moment (`DeviceRemoved`, after which fences read `UINT64_MAX`); condition
variables may wake spuriously; the runtime calls the write callback and lifts
the page's protection under the global critical region before the store is
repeated; opening storage files may fail; a shader's file may be generated anew
(`Rewrite`), processes may die and cache entries be damaged (`Crash`, `Damage`);
packets may be lost between Swap and the command processor (`LosePacket`) and a
submission's execution may fail (`LoseSubmission`).

Fairness, where a run states `FairSpec`:

- weak fairness of the worker thread, of creation threads and of the writer:
  their steps are enabled until taken and the operating system runs them;
- weak fairness of the CP's continuation of a call it has made, never of making
  a call, since nothing obliges the guest to draw;
- weak fairness of the GPU while the device is not removed; a hung GPU is reset
  by the driver, which is the removal;
- weak fairness of guest threads inside the write callback, for they hold the
  lock the CP wants;
- in `native_shaders`, weak fairness of the creations of one pass's generated
  forms and of that pass being drawn with every state again, as a guest that
  still shows the object does frame by frame; no other pass and no form without
  AlphaTest need progress;
- none of spurious wake-ups, of failures, or of an await that fails.

Deadlock is checked for `SharedMemory` and `GeometryResidency`.  In the other
modules the CP ends (joined, torn down or exited) or a bound of the run ends
the behaviour, and the system rightly stops, so the configurations switch it
off; their liveness properties say that every call
returns before that.

## 4. The runs

| run | shows | bounds |
|---|---|---|
| `replay_worker` | Commands reach the queue once, in order, in whole batches; allocators are idle when reset; the elision state follows the list over chunks; counters agree with the slot (`WorkerInv`); the slot belongs to the worker while it runs; failure is sticky; the refinement of `OrderedSubmission`; `Wait` and the destructor end. | 2 allocators, 3 commands, 2 fence values, 3 chunks |
| `submission_chunks` | With chunk sessions, failing awaits and removal: allocators idle and in one place, recording only into open submissions (`SubmissionInv`), submissions in order whoever replays them.  In the profile `Ring`, where awaits succeed: a frame counted complete has been executed. | 2 allocators, 3 draws, 2 submissions, 1 frame; `Ring`: 1 draw, 3 submissions, 3 frames in a ring of 2 |
| `submission_direct` | Tile mappings and awaits outside submissions keep their place; teardown is quiet when completion was proven; no call of the CP waits for ever. | 1 allocator, 1 draw, 2 submissions, 1 direct operation, readback may be switched on |
| `geometry_residency` | Valid pages are current and watched, the mirror shows only valid pages (`MemoryInv`); a page of the residency bitmap is valid or about to leave it; a draw reads nothing older than guest memory at its start, from the buffer or from an asset; a mapping holds the guest's present bytes. | 2 pages in one block, queue of 1, 2 writes, 1 guest thread, 1 range per draw, asset cache on |
| `shared_memory_shadow` | With and without the upload shadow and the mirror: the shadow is what the buffer holds; requests are fresh; GPU-written pages are not lost to a neighbour; a request returns although invalidations keep undoing its work. | 2 pages, 1 guest thread, 2 writes; full invalidations unbounded |
| `pipeline_cache` | A pending pipeline has one place; a resolved handle is settled; the files get the records in order and teardown is quiet (`StorageInv`); calls return; no notification is lost. | 2 pipelines, 2 creation threads, 2 openings |
| `native_constants` | What a recorded draw was bound to is there, unchanged, when the GPU reads it; the byte budget holds, retained pages included. | 2 packets, 2 pages of 2 slices, a budget of 1 page, 3 frames, 2 bindings in flight, memos on or off |
| `native_shaders` | Both forms of a shader come from one body, compiles are bounded, a remembered pair is ready, a loaded shader is whole (`LibraryInv`); a draw that may discard keeps its test; the optional form takes no draw's slot and is counted exactly; cache entries are not replaced and a reported store is true; each pipeline asked for arrives or is known to fail. | 2 vertex and 2 pixel shaders, 1 slot, 1 rewrite; 2 passes, 2 states; 2 processes, 2 names and attempts, 1 damage, 1 crash |
| `guest_frames` | Key presses all count (`FramesInv`); a reported interval was drawn under one set of conditions; rows, captures, records and a valid GPU budget are of the frames they name (`MeasuresAreOfTheirFrames`); an image is presented at its own aspect; a HUD scissor follows its view; a draw's shader and slots are those of guest memory and registers; a requested texture is fresh. | 6 to 14 frames with 1 draw and copy each; one wide aspect and 16:9, 2 changes of the settings, 2 packets in flight; 2 shaders, 2 object addresses, 2 writes; 2 textures, 3 stores; 3 frames with 4 submissions, 2 scopes, 1 failure |
| `submission_readback` | Finding 1: readback records into a closed submission. | 2 draws, 2 submissions |
| `shared_memory_store_race` | Finding 2: a guest store in the window of `MakeRangeValid` is not caught. | 1 page, 2 threads |
| `pipeline_cache_preload` | Finding 3: the blocking initialization does not wait. | 2 pipelines, 2 threads, 1 opening |

Why these bounds are enough to show something:

- *replay worker*: three commands in up to three chunks and two jobs hold a
  whole job behind a session, a session behind a job, an empty chunk, a refused
  chunk, and the second use of an allocator with and without the GPU in
  between.  The slot holds one job, so a third job repeats the second's states.
- *submissions*: two submissions give the pairs (worker, CP), (CP, worker),
  (worker, worker), chunked or not; the third submission of the profile
  `Ring` wraps the ring of two frames once (there the CP is not asked to clear
  its caches, which only adds an await after a frame has closed).  The code's ring has three; the ring's
  arithmetic depends only on its length.
- *shared memory and geometry*: a mirror word holds one page and the
  invalidation block both, so a run crosses a word and an invalidation is
  widened to a neighbour; two guest writes give a store before and after the
  same request's copy.  A queue of one invalidation overflows at the second,
  with the bitmap holding both pages.  After a draw over one page, a range over
  both is partly resident.  The asset cache is on: a draw that finds no asset
  reads the buffer, as every draw does without the cache.
- *pipeline cache*: two threads and two pipelines are the least with both
  threads busy, with a pipeline queued while another is created, and with the
  last busy thread meeting a new request; two openings drop records and open
  the storage again.
- *constants*: with two slices a page is filled, retired and reclaimed while
  another is open, and with a budget of one page the second comes from the
  upload heap or from the fallback; three frames let a page be recycled while
  bindings of the frame after its own are unread.
- *shaders*: one slot is the least with which a form can keep another waiting;
  two passes share the counter; two processes meet in each step of a
  publication, and one name that is left behind is met again.
- *guest frames*: the configurations are those where the schedules meet (a
  benchmark's window beginning before, in and after the warm-up; options that
  change beside a trace; captures of neighbouring frames).  Frame numbers of
  the code (60, 600 and the like) are constants of a few frames with the same
  order.  Two packets in flight are one more than lets a loss be seen late.
  Memo and plan tables have a single place, so every pair of keys collides.
  The budget's window is one frame, or two of which one is sampled, with a
  frame on each side.

Every property of a passing run has a mutant in `PROJECT.json`: a definition
with a plausible mistake (a dropped guard, a notification left out, an order
swapped) for which TLC finds the property violated under the same
configuration.

## 5. What is proved

All proofs are checked to the last leaf and hold for every value of the
constants that satisfies the modules' assumptions: bounds are natural numbers,
lengths of rings, queues and chunks positive, sets of options subsets of
BOOLEAN, "none" values outside the sets they extend.  Only the set of
pipelines and the page addresses of the constant pool have to be finite,
because a cardinality or a length is taken over them; the sizes of all other
sets are open.  Each inductive
invariant was model-checked before it was proved.  An induction step has a
lemma per action, with lemmas for the steps that leave a component alone.

**`NativeReplayClient_proofs`.**  `SlotInv` first: `SlotOwned` says that the
slot is `Running` exactly while the worker is between taking a job and
publishing it, without which nothing forbids the caller's swap while a job
runs; `LatchSettled` says that a stored failure leaves no job queued and none
executing except the one about to be published, because `StoreResult` sets the
sticky result while the slot is still `Running`.  From it `SlotExclusive` and
`FailureIsSticky`.

`WorkerInvAlways` is the whole of what `replay_worker` checks.  `Control` adds
who holds the list and the session, and that the elision state follows the
list.  `ValueInv` orders the fence values on the queue and relates an
allocator's last entry to the value its user remembers; `IdleInv` follows, that
what the GPU has not consumed was not recorded from the allocator in the batch.
`OrderInv` is `CommandsInOrder` itself: since the swap of storage moves
sequences and the queue is a concatenation, its step is a lemma about the
flattening of a queue with one more entry.  Recursion over the queue
is replaced by a least counterexample among natural numbers.

`Refinement`: every step of worker and client is a step of `OrderedSubmission`
or leaves `AbstractBatch` alone.  `StepKinds` sorts the actions into those that
open, extend, execute, signal, break or do nothing abstractly, with one lemma
for each kind.

**`D3D12Submission_proofs`**, for every set of profiles.
`SubmissionsInOrderAlways`, `DirectOperationsInOrderAlways` and
`QuiescentWhenProvenAlways` from an invariant in which `HandedOver` is the
pivot: between the hand-over of a submission (to the worker, or by replaying
it) and `EndBooks` the current number belongs to something that may already be
signalled.  `JobInv` ties the job's fence value to that number, `CommandsInv`
the submission of each command in the source, the stream and the list,
`OrderInv` and `DirectInv` the values on the queue, `FenceInv` the completed
value to a signal the GPU has reached, and `PcInv` what was awaited at each
place of the CP.

`AllocatorHasOneOwnerAlways` and `AllocatorIsIdleAlways` rest on `Places`: the
writable list, the submitted list and the open session share no allocator, and
an allocator named by the job, or by a queue entry the GPU has not reached, is
`Used`: submitted under the fence value of its submission, or the current
submission's own.  `UsedOnce` says that this value is unique, so an allocator
whose submission is completed, or not handed over yet, is none of those.
`GivesBack` is where the order of the submitted list matters: what `Reclaim`
returns was submitted under values the GPU has signalled.

`SubmissionInvAlways` adds that commands are recorded into open submissions
(`OpenInv`): from `BeginOpen` to the last command of a call no await comes in
between, tile mappings included, because those flush and do not await.  It
holds of the profiles in which `d3d12_readback_resolve` is not switched on; in
the others the conclusion is false (finding 1).

`RingFramesAreExecutedAlways` follows each command from the recorder through
the stream and the list to the queue (`FrameInv`).  A command is on the queue,
or no value from its own submission's on has been signalled (`ListInv`), and
nothing stands behind its own signal (`PastInv`), so that a completed
submission is executed wholly.  `RingInv` and `AwaitInv` are about the ring of
closed frames: with the place of the new frame awaited, every frame counted
complete was closed by a submission no later than the completed one, and each
frame's last submission is in its place until then (`MarksInv`).  The list is
excepted while it is old (`ListIsOld`): the worker empties it only when it
starts the next job, and until then its commands are executed ones.  A failed
await completes frames without that evidence, hence the hypothesis.

**`SharedMemory_proofs`**, for any number of pages, threads and writes.
`RequestedIsFreshAlways` needs, for each place of a request, which pages are
settled and why they stay recent (`SettledIsFresh`), that a captured chunk is
the guest's as long as its pages stay valid (`CaptureIsCurrent`), and whether
the shadow takes part at all (`ShadowTakesPart`: the retry has forgotten its
pages).  `ValidIsCurrentAlways` and `ShadowIsBufferAlways` need in addition
that the callback owns its range while it holds the lock (`FaultOwnsRange`),
which is where the widening to neighbours without the GPU's data matters; it
also gives the action property `WrittenIsKeptAlways`.

**`GeometryResidency_proofs`** builds on that invariant.
`ResidentIsValidAlways` needs that a page which a draw's request has seen valid
is still valid or queued until the draw adds it to the bitmap
(`RequestIsNoted`), and that callbacks come before the flags change
(`CallbackComesFirst`).  `MappingIsCurrentAlways` needs that a mapping's pages,
and those of a comparison that is still undisputed, are valid, the guest's own
and watched, so that no store reaches them unnoticed (`MappingIsHeld`).
`DrawIsFreshAlways` puts both together (`DrawReads`).

**`PipelineCache_proofs`**, for any number of pipelines and threads, from one
inductive invariant `IInv`:

- `BusyIsCount`: `creation_threads_busy` is the cardinality of the set of
  threads in creation.  The code's only knowledge of pipelines out of the queue
  is that number, so everything about awaiting rests on it.
- `ThreadOwns`, `CpOwns`, `QueueIsPending`: each pending pipeline is queued or
  in one pair of hands, the CP's included when it drains the queue itself.
- `AwaitIsSound`: during the await the queue is empty, and if the event is set
  nobody is creating.  The event is a manual-reset one that stays set after
  earlier awaits; this part is where the reset under the lock matters.
- `JoinedStaysEnded`: after the join no thread is alive, so deletion takes
  nothing out of a thread's hands.

`StorageInvAlways` adds the writer: it holds records only between taking and
writing them, the queues are empty without an open storage, and a writer is
started only after the last one has ended (`WriterFollows`), so written, held
and queued records make up what was submitted.

**`NativeConstants_proofs`.**  `SliceIsImmutableAlways` relates a page's last
frame to every binding in it (`Stored`), and a slice that was handed out to the
open page's fill level or to the list of submitted pages (`Taken`); a memo
that can still be found has both as well, since a later draw of the frame may
be bound to its slice.  `Draw` bundles what `Record` threads through the two
stages, so that each operator of the pool has one lemma.  `PoolInvAlways` also
shows the byte budget, retained pages included.

**`NativeShaders_proofs`** has one invariant per component, each kept also
while the other two rest.  The library: a form's blob is of the body its job
read, and that of the form without AlphaTest also of the generated form's
(`FormIsGood`), the counts are those of the forms in flight.  The passes: only
a key with the form's bit ever has the other shader, and only once the pass
holds it (`PassIsGood`), so `DiscardIsKept` is about normalisation alone; the
shared count is the cardinality of what runs over all passes
(`CountIsExact`).  The disk cache: a temporary file belongs to one job and
holds its bytes when it is moved (`JobsOwn`, `JobsHold`), for any number of
processes, names and crashes, which gives `EntryIsNeverReplacedAlways` and
`StoreIsTruthfulAlways`.

**`GuestFrames_proofs`** has one invariant per component, each kept while the
other four rest (`ComponentsStep`), so that all safety properties of the run
hold for every configuration, aspect, shader, texture, window and bound that
satisfies the modules' assumptions.

- *Texture notices* (`NoticesInv`): a texture is outdated or watched, and a
  watched one that missed no store has its page protected and holds what the
  guest has (`WatchIsHonest`); an outdated texture that is still bound has the
  flag raised, its notice coming before the store, or its load requested
  (`NoticeArrives`); so a request's textures are fresh as they are or loaded
  from a page that is (`RequestHolds`), which gives `TextureIsFresh`.
- *Display aspect* (`AspectInv`): with no packet lost, the queue holds one entry
  for each packet in flight, in order (`InStep`); after a loss it is one longer
  and out of step from some place on (`OneLost`).  Resynchronisation finds
  the right entry because front buffers alternate, and where two neighbours
  have the same tag they have the same aspect (`TagsTell`).
- *Bindings* (`BindingsInv`): a remembered shader is a live one with the words
  that were compared (`MemoIsLive`); the plan that is kept is of an epoch gone
  by, or of its live shader's slots, and each valid sampler memo holds the
  consensus for its fetch constant (`PlanIsLive`).
- *Schedule* (`ScheduleInv`): the conditions of the running interval are those
  of now (`IntervalIsOfNow`), rows repeat the counters' differences
  (`TraceFollows`), a capture and the records belong to the frame in progress
  (`CaptureIsOfFrame`, `RecordsFollow`).
- *GPU budget* (`BudgetInv`, `CaptureInv`).  `BudgetInv` gives the release of
  queries: a proven completion means ended records that the queue has passed,
  and nothing unpublished is released (`ResultHolds`).  `CaptureInv` gives what
  a report says.  Its main part, `Tracks`, holds until publication or the loss
  of the device and relates the probe to the history of what was submitted:
  records are submissions of the window and, while there is room, all of them
  (`RecordsAreDone`, `DoneIsRecorded`), with the one in the making that of the
  open submission (`CurrentIsOpen`).  While no boundary was out of line, every
  frame of the window that is past was closed once, by its last submission
  (`FramesAreClosed`), and the groups of a sampled record are as many as its
  leaf scopes (`GroupsAreScopes`).  That a swap that fails leaves an open
  submission to the next frame is why the alignment check is needed there:
  `ObservedTracks` uses that the frame is the next one and that the last was
  closed, which leaves no record open.  A report is only
  believed through these parts (`ValidTracks`), and later steps leave what was
  captured alone (`CaptureStays`).

Only model-checked is liveness (`WaitReturns`, `DestructorReturns`,
`CpReturns`, `RequestReturns`, `QueuedWorkIsDone`, `EveryStateIsResolved`),
which is out of the prover's reach.  Every safety property of the passing runs
is stated by a theorem, and each under the assumptions of its module alone, with
one exception: `SubmissionInvAlways` is about the profiles without readback,
since finding 1 is what readback does.

## 6. Findings

Each is a run with a violated property; `PROJECT.json` quotes the lines.

1. **Readback drops commands** (`submission_readback`,
   `vendored/d3d12/command_processor.cpp:3504`).  With a worker, the readback
   path of `IssueCopy` awaits all queue operations inside the submission it has
   just opened.  The await ends the submission; the resolve and the readback
   copy are recorded with `submission_open_` false, against the assertion in
   `GetDeferredCommandList`, and the next `BeginSubmission` resets the list.
2. **A guest store is not caught** (`shared_memory_store_race`,
   `vendored/shared_memory.cpp:472`).  `MakeRangeValid` publishes validity under
   the lock and enables the watch after it.  A store in between reaches a valid,
   unwatched page.  For uploads the copy follows and picks it up; for GPU writes
   nothing does, against the comment at 429-430.
3. **Blocking initialization does not block** (`pipeline_cache_preload`,
   `vendored/d3d12/pipeline_cache.cpp:549`).  The loop that should add creation
   threads compares the vector's size with itself; no thread is added, the
   condition at 669 is false, and the await for a blocking call is unreachable.

Met while modelling, and described rather than run:

- *A failed await completes a frame* (`vendored/d3d12/command_processor.cpp:4055`).
  When the fence event cannot be armed or the wait fails, `CheckSubmissionFence`
  returns early and `BeginSubmission` still advances `frame_completed_`.  A TODO
  at 4048-4050 acknowledges it; `RingFramesAreExecuted` is about successful
  awaits.
- *A texture may miss a store* (`vendored/pipeline/texture/cache.cpp:807`).  A
  store after the texture's data were requested and before its watch is
  registered marks nothing outdated; the texture keeps the old content until
  its page is requested and written again.  `TextureIsFresh` excepts exactly
  these stores (`missed`).  The header (`shared_memory.h:62-63`) promises a
  callback for writes to pages previously requested, which a watch registered
  later cannot give for the writes before it.
- *Two losses in a row* leave the queue of aspects out of step until it is
  drained, because the tags repeat with period two; so does an overflow at 16
  entries, although the comment at `nb_ultrawide.cpp:150` counts on the tags.
  The run excludes both (`faults`, `PresentAspectAssumption`).
- *A torn shader*: words written between hashing and copying keep a wrong
  program under a hash (`pipeline_cache.cpp:834-847`).  It is the guest's race;
  `HitIsCurrent` shows that the load memo does not make it worse.

## 7. What is left out of the modelled components

- *Submissions*: presentation, descriptor and upload pools, occlusion queries,
  the scratch buffer, the timing ring.  The result of a device call and
  `GetDeviceRemovedReason` are read together.
- *Shared memory*: sparse allocation, barriers, failures at start,
  requests out of range, the registration of watches.  Copying and publishing all changed
  runs of a chunk is one step: an invalidation before or after has the same
  effect because the token is refused either way.  Since contents never repeat,
  the case of equal bytes after a change back is not exercised, and the token
  tests that guard it are not told apart by a property.  A page is a single
  datum, so a GPU write covers whole pages.  The shadow's epoch counter is the
  set of live tokens; at its maximum the code switches the shadow off.
- *Pipeline cache*: translation (always done by the CP before queueing), the
  creation priority (any queued pipeline may be next), file formats, running
  without creation threads (no concurrency remains), the argument `blocking`
  (all it decides is the unreachable await), the root signature map that the
  CP and creation threads share without bindless resources.  A requested flush
  is carried out only after the writer's next wait returns; nothing promises
  when, so no property speaks of it.
- *Replay worker*: bind elision, D3D12 encoding and CPU affinity.
- *Geometry and assets*: input assembly and root parameters; loading the asset
  pack, `Initialize` and `EnsureUploaded` (an asset is there from the start);
  emulated draws, whose vertex fetch constants, when equal to the previous ones,
  skip `RequestRange` whatever was written since (`command_processor.cpp:3119`).
- *Constants*: packing itself (a packet is its content), the census and timers.
- *Shaders*: sidecars, hashing and the compiler; a container is whole or torn.
- *Frames*: changes of console variables in the middle of a frame, chunk windows
  overridden by performance options under the benchmark, the log's wording.
  (A capture of frame 1 is asked for in the run and never made: the code starts
  captures at the end of a swap.)
- *Aspect*: the camera's and the HUD's arithmetic; a behaviour has either lost
  packets or Swaps without a packet, not both.
- *Bindings*: one modification per shader; stage and type are not
  distinguished; `kTextureNoDescriptor` cannot occur because a null view is
  always returned.
- *Textures*: a page per texture, so making it resident is one step; scaled
  resolves and mips.
- *GPU budget*: the fence is sampled only where the code reads it; one failure
  per behaviour; leaf scopes do not nest; after publication only the teardown
  is followed; timestamps, the report's figures and its `counter_reset`, which
  a reset followed by a larger frame escapes.  `native_gpu_submission_timing.cpp`
  cannot be on together with the probe and is not modelled.

## 8. The plan

Done: the replay worker, submissions, shared memory with its mirror and shadow
and the pipeline cache; then shared memory's clients (residency, assets,
textures), the constant pool, shaders from file to pipeline, the frame's
schedule, the display aspect, the bindings of a draw and the GPU budget probe.

Next:

1. Render target ownership and its memo, with the ranges as sets of tiles.
2. Algorithms over bounded inputs: the invalidation range's and the watch fast
   path's bit arithmetic, the range batch's merge against the union.
3. The ring buffer's consumer, and the submission timing ring.

New properties join existing runs where the module is the same, so that a run
remains one question asked of one component.
