# TLA+ models and proofs of the Ornis engine

TLA+ modules that model the stateful core of the Ornis engine, TLC
configurations that check them on small instances, and TLAPS proofs that hold
for every value of the constants. Every definition that stands for code is
listed with its source lines in `PROJECT.json` under `map`; paths below are
relative to `crates/`.

1. [The system](#1-the-system)
2. [What is modelled, module by module](#2-what-is-modelled-module-by-module)
3. [The runs](#3-the-runs)
4. [Bounds, symmetry and fairness](#4-bounds-symmetry-and-fairness)
5. [The proofs](#5-the-proofs)
6. [Where code and documentation disagree](#6-where-code-and-documentation-disagree)
7. [What is not modelled](#7-what-is-not-modelled)
8. [Plan](#8-plan)
9. [Running it](#9-running-it)

## 1. The system

Ornis is a Rust game engine with an editor. The parts that keep state:

| Component | State | Operations | Correct when |
|---|---|---|---|
| Entity allocator, `core/src/entity.rs` | next id, free list, generation per slot | allocate, deallocate, is_alive | no slot has two owners, none is lost, a retired handle never lives again |
| Component store, `core/src/component_store.rs` | dense arrays, sparse index, bitset, layout version, change log | insert, remove, get_mut, iter_mut, defrag, clone, enable/take changes | the structures agree; the change feed misses nothing; a layout version names one entity sequence |
| Smart store, `core/src/smart_store.rs` | allocator and a lane per component type, each behind its own lock | create, insert, remove, destroy | a destroyed entity leaves nothing, a recycled id starts bare, a live one keeps its components |
| Lock-free lane, `core/src/smart_store.rs` | atomic pointer to a snapshot, epoch guards | read, write by clone and compare-and-swap | linearisable, no use after free, no double retirement, calls return |
| Level planner, `schedule/src/lib.rs` | loop variables | compute_levels | every dependent above its predecessors, no higher than needed |
| Schedule, `core/src/schedule.rs` | systems, access sets, edges, cached plan | add, prepend, order_before, set_exec_mode, run | conflicting systems never overlap, edges hold, everything runs once, results do not depend on interleaving |
| Frame loop, `core/src/engine.rs`, `core/src/mutation.rs` | fixed clock, stage, two structural queues | run_frame, run_fixed_step, spawn and the queued ops | simulated world depends on the ticks and on what frame stages do to the store, not on slicing, time is accounted for, ops land once |
| Instance records, `render/src/renderer/buffers/instance_records.rs` | record cache, previous transforms | rebuild, patch | every record has its entity's current model; motion is the entity's own |
| Exact worker, `mesh-editor/src/exact.rs`, `editable.rs` | job and result queues, pool threads, preview and base | submit, poll, edit, undo, commit, cancel, drop | a stale result never replaces newer edits, every submission is answered, threads exit |
| Undo stack, `mesh-editor/src/undo.rs` | op and snapshot vectors, redo vectors, byte count | push, undo, redo, clear | lockstep, within both caps, undo walks the views the user saw |
| GPU lanes, `wgpu_backend/src/{gpu_lanes,auto_lane,smart_buffer}.rs` | buffer per component type with two dirty flags | execute on CPU or GPU | each call computes once from the store's current data |
| Frame plan, `render/src/{system,transient_pool,frame_exec}.rs` | pass declarations and their generation, memoized layout, pooled textures | declare, toggle, resize, set a budget, execute in three ways | the layout is current, and passes that share textures do not notice |
| Editor session, `app/src/session.rs` | the world, its version, the watched scene file and the fingerprint of the last save | commands, save, load, watch, frame | files stay whole, changes from outside are loaded, own saves are not, a version clients are told names one snapshot |
| Editor transport, `editor-backend/src/remote.rs` and `editor-v2/live.js` at the root | bounded event log, scene snapshot, threads per connection; in the page a cursor, a socket, requests in flight | drain, answer, push, reconnect, poll, fetch, stop, restart | no event is lost in silence, no older scene is shown, stop leaves no thread but those that copy proxied connections |
| Bake cache, `assets/src/bake.rs`, `assets/src/bake/` | cache directory, scratch files, encoder processes, remembered tool identities | bake a texture | entries are whole and belong to their keys, a bake fails for a reason, every bake returns |

How they interact. Systems registered in a schedule reach entities and
components through the smart store. Generated systems pair lanes by dense index
when their cached alignment is still valid. Structural changes from systems go
to one of two queues: the fixed queue is drained after every simulation tick,
the frame queue once per frame before the Last stage. The renderer reads the
transform lane and its change feed once per frame. The editor applies ops to an
editable mesh, which logs them in the undo stack and hands the exact version of
its preview to worker threads. The world thread of the editor reports to the
serve thread over a channel, which answers the pages of the browser editor.
Asset servers of one process or several meet in the cache directory only.

What makes it hard: lane by lane destruction with other callers in between;
compare-and-swap with address reuse and deferred frees; systems of a level on a
thread pool; caches keyed by versions (plans, alignments, records, GPU slots)
that must notice every change; results that return after the user went on
editing; frames that contain no, one or several ticks; caps on logs, histories
and steps per frame; poisoned locks, missing resources and failed readbacks;
textures shared by resources whose passes run in another order than they were
declared in; files that other programs write between two looks at them; lost
sockets, overtaking answers, restarts; processes that die between two writes.
`PROJECT.json` lists these hazards, each at its line and with the properties
that would catch it.

## 2. What is modelled, module by module

### Entities and components

- `EntityAllocator` models `EntityAllocator`: `AllocateRecycled` and
  `AllocateFresh` are the two branches of `allocate`, `DeallocateAlive` and
  `DeallocateIgnored` those of `deallocate`. `recycles` and `issue_log` are
  history. Generations count modulo `GenModulus`.
- `EntityRegistry` is what the allocator promises: a handle is issued at most
  once, live handles differ in slot, retired handles stay dead. `RegistrySpec`
  in `EntityAllocator` is the refinement.
- `SparseSet` holds a `ComponentStore<T>` as a record and its methods as
  operators on that record: swap-removal, the handle refresh of an insert over
  an occupied id, the change log with its cap and exhaustive flag, defrag
  and clone.
- `ComponentStore` puts several stores, the process-wide layout clock and the
  alignment cache of a generated system together, one action per call.
  `touched` is the history the change feed is compared with. A component is
  identified with the handle it was inserted for, so one that ends up with the
  wrong entity is visible.
- `ComponentMaps` is the abstract component store, a map per store from ids to
  a generation and a value; `MapsSpec` is the refinement.
- `SmartStore` extends `EntityAllocator` with lanes, poisoned locks and threads
  inside `destroy_entity`: `DestroyBegin`, one `DestroyLane` per lane,
  `DestroyFree`. Inserts and removals of other callers, also with dead handles,
  and panics under a write guard happen in between. A lane is reduced to which
  handle owns the entry of an id.
- `LockFreeLane` has one action per atomic step of `LockFreeLaneInner`: pin,
  load, clone and edit, exchange won or lost, retire, end of read. Addresses are
  reused, so the comparison may meet an address twice. The collector of
  crossbeam-epoch is external: it may free a snapshot once every guard that was
  pinned when the snapshot was retired has gone.
- `AtomicLane` is the abstract lane, a value that writers replace in one step
  and of which readers take one value; `LaneSpec` is the refinement.

### Scheduling and time

- `LevelPlan` defines what a level plan of an ordering relation is.
- `ComputeLevels` (run on the passes of a frame by `FramePlan`) is the double
  loop of `compute_levels` and its grouping loop, one turn per step.
- `Schedule` has registration, edges, the cached plan and its invalidation, and
  runs: `RunBegin` takes or computes the plan, `StartSystem` reads what a system
  declared, `FinishSystem` writes, `NextLevel` is the barrier. The value of a
  key is the history of the writes to it, so any lost or reordered effect shows.
  `Plans` is the contract of `LevelPlan`, which `ComputeLevels` is shown to meet.
- `FixedClock` is `FixedTime` as functions: the clamped accumulation, the
  probing loop, the spare tick that is dropped, the withdrawals per step.
- `FrameLoop` extends it with `run_frame` and `run_fixed_step`, the stages, the
  two structural queues, the spawn that reserves its id when called, and a host
  that takes the smart store away and returns it. A `load` is what the program
  does: its gameplay plan per tick and what its frame stages may issue, whose
  calls and queued ops run on the store the ticks read (`Between`). `effects` is
  the history of these, by the tick they came after.

### Rendering, mesh editor, GPU

- `InstanceRecords` extends `SparseSet`: `ChangeLane` is what systems do,
  `RenderFrame` is one frame, which rebuilds or patches from the drained feed.
- `ExactWorker` has the editor's calls, the two queues and the pool threads of
  `pool_loop`. The queue lock is held from `recv` to the end of the drain, so
  `Take` is one step; the computation is not. A mesh is the version of the view
  it was computed from. Init chooses the size of the pool.
- `UndoStack` has `apply_op` with its outcomes, commit and cancel (logged and
  unlogged), the exact swap, undo, redo and clear. A mesh is an identity and
  the bytes of its snapshot. `Timeline` is the abstract history: a line of views
  of which only the oldest are forgotten; `UndoFollowsTheLine` is the refinement.
- `AutoLane` holds `SmartBuffer` and `AutoLane::execute` as operators, and
  `GpuLanes` is `GpuLanes::execute` over them with the systems that write and
  resize the lane between calls. Contents are a version and the kernels that ran
  over it, so a kernel that runs twice or over an old copy shows.
- `FramePlan` extends `ComputeLevels` with a frame of the renderer. The registry
  is `SystemSet`: each setter bumps the generation where the code does. The
  functions of `transient_pool.rs` that compute a layout are operators named
  after them (`FirstUse`, `Slots`, `Edges`), a sort is the ranks of the elements
  (`InOrder`); `FrameMiss`, the level loops and
  `FrameCompiled` are `ensure_layout` on a miss. A frame prepares its textures
  and runs its passes in level order (`execute`), in registration order after
  recording level by level (`execute_parallel`), or in the order of a given
  schedule (`projected_order`). `content` is which resource a texture holds
  now and which pass wrote it.

### The editor and its files

- `EditorSession` is the world thread's loop with the files around it: commands,
  poll, compare, reload, frame. A save is four steps (create, fill, rename,
  fingerprint), each of which may be the last; other programs write whole or
  broken scenes or remove them at any time; the process dies and comes back. A
  frame moves the world with a new version and a publication, or, where systems
  of the frame write what a scene shows, with neither. A body is the content of
  a scene, a stamp its time and size. `told`, `drift`, `offered`, `blind`,
  `author` and `eclipsed` are history.
- `EditorRemote` is the transport with its threads: the world thread sends
  events (`RunCommand` in the order of `handle_command`), the serve thread
  drains them into log and snapshot and answers requests, one thread per socket
  pushes past its cursor, any other connection has two threads that copy it to
  the internal server and that nobody joins (`ProxyHttp`), and a page opens
  sockets, loses them, polls while it has none, and fetches the scene. `stop` is
  five steps, because handlers spawn threads while it joins. A restart takes
  everything but the pages.
- `BakeCache` has the steps of `bake_texture` for each server, an encoder that
  is a process of its own and outlives the one that spawned it, and the ways the
  world changes: the tool is replaced, a process dies. What fails a bake by
  itself is an action beside each step that can fail: the probe of the tool's
  identity (`ProbeFails`), the directory or the handoff (`SourceFails`), the
  start of the encoder or the reading of its output (`ToolFails`), its exit or
  what it leaves (`EncoderBreaks`), the publication (`StoreFails`). A container
  is two halves, each from an image by a tool, so a mixed or a partial one
  shows.

The modules whose names begin with MC give constants and symmetry sets for TLC.
Three of them also check parts of the engine side by side that share no state,
each behaviour being one of either (`part`): `MCSmartStore` the entities with
their lanes and the inside of a lock-free lane, `MCGpuWork` the three users of
the GPU, `MCEditorData` what an editing session keeps of the user's work. The
modules whose names end with Proofs hold the theorems, several components in one where section 5 says so. An
operator whose name begins with Bug is a deliberately wrong variant of
the definition that follows it; `PROJECT.json` names, for each property, a
variant that violates it, which shows that the property is sensitive to the code.

## 3. The runs

| Run | Checks | Shows |
|---|---|---|
| `smart_store` | FreeListExact, RegistrySpec, DestroyedLeavesNothing, LiveComponentStays, SnapshotsAreSafe, LaneSpec, LaneCallsReturn | Allocation under lane-by-lane destruction is still a registry; dead entities leave nothing in healthy lanes unless somebody inserts for them later; recycled ones start bare and no old destroy and no removal through another handle takes a live component. A lock-free lane is linearisable and memory-safe with address reuse, and every call returns |
| `component_store` | StoresCoherent, AlignmentFresh, MapsSpec | Every sequence of calls on two stores keeps them coherent maps with a complete change feed; a cached alignment is never used for another layout |
| `schedule` | NoConflictInFlight, RunsAreDeterministic, RunsEnd | No registration sequence and no interleaving gives a race, a broken edge, a skipped system or another result than sequential execution |
| `frame_loop` | ClockKeepsTime, SlicesAgree, FrameOpsLandOnce | The world after tick k is a function of the gameplay plan and of what frame stages did to the store after each tick, for every slicing of time into frames and for replay; time is conserved; frame ops land once and in order |
| `exact_worker` | SwapKeepsTheView, FreshResultLands, EverySubmissionIsAnswered | A result is adopted only for the view it came from; work dropped by the newest-wins drains was superseded; threads end with the handle |
| `gpu_work` | LevelsAreAPlan, SharingIsInvisible, FrameIsCurrent, ModelsCurrent, MotionIsOwn, OneRunPerCall | Levels respect every conflict and edge and are as low as that allows; a frame uses a layout and textures of the current declarations, and in registration order sharing is invisible; patched records carry current models, exact history and no foreign motion; each successful lane call runs one kernel once on current data |
| `editor_data` | HistoryIsBounded, UndoFollowsTheLine, SceneFileIsWhole, EditsAreNoticed, VersionTellsChange, OwnSavesStayPut | Byte count and caps survive coalescing, eviction and denial, and undo walks the line; saves leave whole files wherever they fail; the watcher loads what others wrote and not what the session wrote, outside the windows of section 6; a version that clients are told stands for one snapshot, whether a command, a load, a reload or a frame made it, and only frames move the world on without another |
| `editor_remote` | NothingSilentlyLost, AnsweredMeansVisible, StopIsComplete, SceneNeverGoesBack, PagesCatchUp | Sockets, polls and gaps together account for every event below a page's cursor; a completion implies its effect in the next scene; scenes do not go back; pages catch up; stop ends the serve thread and the dispatching and event-stream threads of every connection, and leaves at most the copying threads of proxied ones |
| `bake_cache` | EntriesMatchTheirKeys, OnlySharedKeysFail, ScratchIsRemoved, BakesReturn | No crash, race, failure or hang publishes a partial entry, or one of another image, or of another tool than the key's unless a bake spawned it for the key; a bake fails by its own probe, encoder or disk, by sharing scratch files of its key, or by a replaced tool, and by nothing else; no scratch file survives; every bake returns |
| `instance_records_motion` | MotionSettles (violated) | See section 6 |
| `undo_stack_denied` | DenialLeavesHistory (violated) | See section 6 |
| `frame_plan_order` | FlattenedOrderIsValid (violated) | See section 6 |

Type invariants and bookkeeping are conjuncts of the properties they serve
(`StoreTypeOK` of `StoresCoherent`, `RecordTypeOK` of `ModelsCurrent`,
`ScheduleTypeOK` of `NoConflictInFlight`, `FrameTypeOK` of `SlicesAgree`,
`UndoTypeOK` of `HistoryIsBounded`).

## 4. Bounds, symmetry and fairness

| Run | Bounds | Why they are enough |
|---|---|---|
| `smart_store` | 2 slots, 1 recycling each, 2 destroying threads, an RwLock lane and a lock-free lane; in the lane 2 writers, 1 reader, 2 calls each, 4 addresses | Stale handles need one recycling, a list order two slots, a double destroy two threads; the lane kinds differ in poisoning only. Two writers race for one snapshot while the reader keeps one alive; four addresses are few enough to be reused |
| `component_store` | 2 stores, 2 ids, 2 generations, a log of one entry, layout clock to 5 | Swap-removal needs two entries; the log overflows at the second; alignment needs two stores |
| `schedule` | 3 systems, 2 keys, 5 access declarations | A conflict of each kind between neighbours and across a third system; prepending moves two indices |
| `frame_loop` | ticks of 2 quanta, 2 steps per frame, deltas 0, 1, 3, 6, 7, 3 ticks, 4 frames; every plan of 2 calls a tick beside idle frame stages, one plan beside frame stages with 2 calls, an empty one beside 3 calls and a store that moves | Below, at and above a tick and above the accumulator's capacity; remainders of both kinds; frames with 0, 1 and 2 ticks. A frame op that lands in another tick's gap takes one call and a frame without ticks; the order of ops takes two |
| `exact_worker` | pools of 1 and 2 threads, 2 edits, 3 submissions | Two results out of order and one more job behind them |
| `gpu_work` | 4 resources, 6 kinds of pass, all plans of 4 passes, of 3 with one change and of 2 with two; 2 surfaces, 2 sample counts, a budget that not every plan fits. 3 slots of poses, one recycled, 2 models, a log of one entry. 2 kernels, lengths 0 to 3, threshold 2, 4 calls and 4 writes | A slot shared by two resources takes four passes, and so does a level order that differs from registration; a drop and a recovery of a layout takes two changes. Patch and rebuild by density, exhaustive feeds and recycling all occur. Empty, CPU and GPU lengths, two GPU lengths to rebuild between, retries |
| `editor_data` | capacity 3, 2 meshes of 1, 2 or 5 bytes, budget 4. 2 files, 2 bodies besides the empty one, 2 saves, 1 load, 1 crash | Eviction by count and by bytes, several evictions for one entry, denial. An edit and a foreign write, a save of the watched file and one of another, a crash inside a save and a save after it |
| `editor_remote` | one page and five environments: a history of 2 with two commands on one socket; of 1 with two sockets; a restart with two sockets; a restart with two scene requests in flight; a stop with a socket and a plain connection coming up | Each is the smallest in which its hazard occurs: an event too many, a reconnection, an old cursor, answers that overtake, a late handle. Pages share nothing but the server, so one page sees what each sees |
| `bake_cache` | 2 servers in one process or two, 2 images, no tool or two versions of one, 2 bakes, 1 fault: a replaced tool, a death, or a failure of one bake's own | Two bakes of one key, or of two; a tool replaced between any two steps; a process that dies at any step and a bake that meets what it left; a probe, encoder or disk that fails one bake beside another |

`SmartStore` is checked with interchangeable destroying threads and
`InstanceRecords` with interchangeable models; the liveness property that is
checked beside the former, `LaneCallsReturn`, mentions no such thread and no
behaviour it is about moves one. No definition tells the elements apart.

Fairness. `Schedule` assumes weak fairness of a run's own steps: rayon runs the
systems of a level and their bodies return. `LockFreeLane` assumes it of each
thread and of the collector; a bounded number of calls is what makes a lost
exchange finite, since every loss means that another writer won. `ExactWorker`
assumes it of the polling frame loop and of each pool thread, which the
operating system schedules; kernels are taken to return. `EditorRemote` assumes
it of every thread of the server that can run (the serve loop polls, socket
threads wake by timeout), of the requests a page has sent, which the internal
server hands out in arrival order, and of the page's timers; `BakeCache` of each
server's own step, one of which is the deadline, and not of the encoder, which
may hang. Nothing is assumed about users, hosts or the other callers.

## 5. The proofs

Every safety invariant, action property and refinement that a passing run checks
is also a theorem, for all values of the constants. A proof module takes several
component modules where they share nothing but the prover's libraries.

| Module | Theorems | Argument |
|---|---|---|
| `SmartStoreProofs`, the allocator | AllocatorInvariant, FreeListStaysExact, AllocatorImplementsRegistry | `AllocInv` adds to the types and the exact free list that a slot's generation equals the number of times it was freed and that no issued handle lies in the future. Without them a recycled handle could equal one issued before, and freshness of `Issue` does not follow. |
| `SmartStoreProofs`, the lanes of a store | SmartInvariant, DestroyedLeaveNothing, LiveComponentsStay | `SmartInv` stands on `AllocInv`: what a lane holds under an id was issued for that id, threads destroy issued handles only (`DestroyingOK`), and a lane that a destroy has behind it holds nothing of its handle unless the lane is poisoned or somebody inserted since (`LanesCleared`), which after the last lane is `DestroyedLeavesNothing`. A removal compares the handle, so it takes a component of its own handle only, and a destroy visits lanes with its own handle (`TakenThrough`); and a handle that was just issued owns no entry, since every entry's handle was issued before. |
| `SmartStoreProofs`, the lock-free lane | GuardInvariant, SnapshotsAreAlwaysSafe, LockFreeLaneIsAtomic | `GuardInv` gives each address one role (`RolesApart`), each clone and replaced snapshot one owner (`OwnersApart`) and each held snapshot a reason not to be free (`SnapshotsKept`): it is published, or retired and waiting for the holder's guard, or still to be retired. `SnapInv` adds that a clone is the snapshot its writer loaded with one more write. What somebody can see is never written (`InUseStays`), so an exchange that finds the address it loaded finds the content it loaded, whichever snapshots were freed and reused meanwhile, and is one step of `AtomicLane`. |
| `ComponentStoreProofs`, the stores | StoresInvariant, StoresAreCoherent, AlignmentIsFresh, StoresAreMaps | Each operator of `SparseSet` keeps a store `Sane` (dense, sparse and bitset agree) and its feed complete; these are lemmas per operator. `StoreInv` adds that a layout token names one entity sequence of all stores (`LayoutsName`) and that the cached alignment was computed from sequences that its tokens still name, also when the stores have moved on (`Remembers`). The map a store stands for changes in one entry per call, so the refinement follows call by call. |
| `ComponentStoreProofs`, the instance records | RecordsInvariant, ModelsAreCurrent, MotionIsTheEntitysOwn | `RecordInv`: cache and history are those of the frame on screen (`OnScreen`), and while the feed is not exhaustive every component is either named in it or still shown with its current model (`FeedNamesChanges`). A patch that touches the named indices then leaves every record with its entity's current model, as a rebuild does; of previous models nothing is proved, and `MotionSettles` shows that they differ. |
| `GpuWorkProofs`, the level loops | LoopsInvariant, LevelsAreAlwaysAPlan | `LoopInv` says of the finished nodes that their levels respect the ordering and are tight, and of the running maximum `best` that it exceeds the levels of all predecessors seen and is reached by one of them. |
| `GpuWorkProofs`, the lanes | FlagsTellTheStaleSide, EveryCallRunsOnce | `LanesInv` is the type invariant and the agreement of the sides; a refreshed slot always holds the store's data on the CPU side, whatever an earlier failure left, so the run starts from current data. |
| `GpuWorkProofs`, the frames | FramesInvariant, FramesAreCurrent | `FrameInv`: a memoized layout whose generation is the current one, and the layout of the frame in progress, are what compiling the declarations of now gives, if that fits the budget (`CacheFresh`, `FrameFresh`); the level loops, when they run, run on the conflicts and edges of now (`LevelsInFrame`), and what they group is a permutation of the passes in which every edge ascends. Every change bumps the generation, which is what makes the first hold. The command buffers sorted by index are the recorded passes, each once. |
| `GpuWorkProofs`, the shared textures | SharingInvariant, SharingStaysInvisible | `SharingInv`: in a layout every pooled resource has a slot and two of one slot are never alive at once (`Sound`), and a texture holds what the last of the passes that ran wrote there (`LastWriters`). The first is proved of one round of `assign_pool_slots` (`Place`), given that lifetimes come by first use, which is proved of the sort by counting ranks. What lies between the write and the read of a resource, in registration order, is inside its lifetime, so no other resource of the slot is written there. |
| `EngineProofs`, the schedule | ScheduleInvariant, ConflictsNeverOverlap, RunsAreAlwaysDeterministic | `ScheduleIInv`: a plan that is followed is a level plan of the systems and edges registered now (`PlanCache`), levels below the current one are finished and none above was entered (`LevelByLevel`), and each promise by name has an edge by index between these systems (`Registry`), which prepending must move. Two systems in flight are then on one level, and an ordered pair never is. `AsInOrder` is about the results: a key holds what a replay in registration order gives it after the writers that have finished, because the writers of a key finish in that order, and so a system sees what it sees in the replay. |
| `EngineProofs`, the clock | ClockInvariant, ClockAlwaysKeepsTime | `ClockInv` adds in which phases updates may still be owed and that replay happens outside frames; the two clock properties are inductive with it. The lemmas on `begin_frame` are linear arithmetic over the probing loop's closed form. |
| `EngineProofs`, ticks and ops | TicksFollowTheReference, SlicesAlwaysAgree, FrameOpsAlwaysLandOnce | `TickInv`: in each phase the world is the reference world of its tick count and of the `effects` of frame stages so far, before or after the calls of this tick, and the fixed queue is what they queued (`InReference`); no other phase leaves anything in it, nor does a program whose store is away (`QueueOfTheTick`). A frame's ops are either in the queue or landed, in the order of their issue (`LandInv`). |
| `EditorDataProofs`, the session | SceneFilesStayWhole, VersionsTellChanges, OutsideEditsAreNoticed, OwnSavesAreRecognised | `SessionIInv` follows what a save in progress has in its scratch file, what was published under which version (one body each) and what frames made of the last, and that stamps only grow; `WatchIInv` adds what the session remembers of each file: a state it does not know was offered, is the session's own, or fell into a window of section 6. |
| `EditorDataProofs`, the undo history | HistoryStaysBounded, UndoImplementsTimeline | The byte count is the sum over the entries, as a lemma per way to change the entries; the loop of `make_room` ends with both caps met because the new entry fits alone. The refinement maps the vectors and the mesh to the line entry by entry: what a push, an eviction, an undo or a redo does at one end is one step of `Timeline`. |
| `EditorRemoteProofs` | NothingIsSilentlyLost, StopLeavesOnlyPumps, DoneIsVisible, ScenesOnlyGetNewer | `DeliveryIInv`: every number up to a cursor, of a page, of a request or of a socket's thread, is in the page's hands, below its base, or carried by a batch further ahead on the same wire (`Streamed`), and a batch that does not continue where its reader stood says so. `StopIInv`: a thread that runs is in the handles or in what stop took, but for a reader whose sniffing thread still runs and is, and for the copying threads, which only a sniffing thread starts. `SceneIInv`: a completion in the queue comes behind a publication of what it completes, and of two scenes handed out by one engine the one with the greater sequence number is not older. |
| `BakeCacheProofs` | BakeInvariant, EntriesAreWhole, FailuresAreExplained, ScratchIsDiscarded | `BakeInv`: files and encoders hold pieces made from the image of their key, by its tool unless another was spawned for the key (`FilesMatch`), and so does what a server has in hand at each step (`InHand`); a bake that met no other has its scratch files to itself and they are as far as it is, unless its encoder gave up (`AloneUnlessMet`); until a process dies every file and encoder belongs to a bake in progress that has yet to remove it (`FilesOwned`). |
| `ExactWorkerProofs` | ExactInvariant, AdoptingKeepsTheView | `ExactInv`: a job whose sequence number is still current was computed from what is on display unless the preview was cancelled (`JobsFit`), and with one thread job numbers ascend from the last poll over the results and the worker to the queue (`JobsInOrder`). |

They hold for every number of slots, nodes, threads, calls, addresses, kernels,
lengths, systems, files, pages, connections, resources, passes, processes and
meshes, and every step length, cap, budget and program run by the frame loop.
Assumed are only the named assumptions on constants in the modules themselves:
naturals where the code has unsigned integers; positive step and cap; finitely
many addresses and threads; readers and writers apart; declared accesses among
the keys; a pass reads and writes declared resources only
(`compute_resource_lifetimes` panics at the index otherwise); and that the values
which stand for nothing (`None`, `Null`, the mesh 0, "empty" and "none") are not
among the things they are told apart from. The allocator's theorems bound the
number of times a slot is freed below the generation's modulus: beyond 2^32
reuses an old handle lives again. The proof of `LockFreeLane` takes the
collector's contract as modelled, that of `BakeCache` the encoder's (section 6).

Type correctness is proved with these invariants, whose first conjuncts are the
types; the type invariants of the runs that say a little more than types (a log
within its cap, vectors in lockstep, no component without its entity) are
conjuncts of the properties that are proved.

Recursive functions, such as a sum over entries, the slots of a layout, the ops
of a queue or the enabled passes, are handled without an induction rule over
operators: that such a function exists is a lemma of the libraries, and what
holds of all its values is proved by taking a least index at which it fails.

Only model-checked is liveness, `LaneCallsReturn`, `RunsEnd`,
`EverySubmissionIsAnswered`, `FreshResultLands`, `PagesCatchUp` and
`BakesReturn`, as fairness and ENABLED are out of the proof system's reach.
The composed specifications of `MCSmartStore`, `MCGpuWork` and `MCEditorData`
take a step of one part at a time and leave the others unchanged; the theorems
are about the parts.

## 6. Where code and documentation disagree

Three disagreements have a run whose counterexample shows them.

- `instance_records_motion`: `instance_records.rs:73-76` says of the indices
  that moved last frame that "their previous_model must settle to their own
  model this frame". A full rebuild leaves pending only the records without
  history (line 223). An entity that moved in a rebuilt frame and then rests
  keeps its old previous model, and so its motion vector, until it changes again.
- `undo_stack_denied`: `undo.rs:188-191` says that a push beyond the budget
  leaves the history untouched. Lines 193-194 clear the redo vectors before the
  budget is looked at, so a denied push forgets everything that could be redone.
- `frame_plan_order`: `frame_exec.rs:132-134` says that the flattened level order
  of `execute` is a valid topological order since passes within a level are
  independent. Levels are computed from the declared accesses
  (`transient_pool.rs:741`), slots from the registration order of lifetimes
  (line 660). Let A write x, B read x, C write y, D read y: x and y share a
  slot and C is independent of A, so the order A, C, B, D has C overwrite what
  B is about to read. `execute_parallel` submits in registration order and is
  not affected, which is `SharingIsInvisible`; the plans in production happen
  to have levels in registration order.

The other disagreements are exceptions that the checked properties state
exactly, so each property says what the code does:

- `EntityAllocator::is_alive` (`entity.rs:241`) is documented to mean "allocated
  and not yet freed". Freeing already raises the generation, so the next handle
  of a free slot answers true before it is issued. The models ask only about
  handles that were issued.
- `SmartStore::destroy_entity` is documented to clear every lane, but skips a
  lane whose lock is poisoned (`smart_store.rs:54`), though other accesses
  recover it. `DestroyedLeavesNothing` excepts poisoned lanes.
- `component_store.rs:70` promises that a stale handle never deletes another
  entity's component; `insert` (line 228) compares no generation and takes over
  the entry. `LiveComponentStays` holds for removals and excepts inserts through
  dead handles.
- Generated pack writes (`macros/src/pack_lanes.rs:65`) do not reach the change
  log although `component_store.rs:45` documents it as complete. They are not
  among the calls of `ComponentStore`.
- `engine.rs:262-268` says that a snapshot after a replayed tick equals one of
  the live tick; the live clock keeps the host's accumulator, alpha and step
  counters. `SlicesAgree` compares worlds, not clocks.
- `mutation.rs:521-524` says that slicing cannot be observed. A spawn from a
  frame stage draws its id from the allocator the simulation uses
  (`structural.rs:164`) and shifts the simulation's later handles; so does
  `spawn_deferred` at the boundary, and every frame op and every lane a frame
  system writes changes the store the next tick reads. `SlicesAgree` states
  what holds: the worlds are those of the plan and of these ops, placed after
  the tick they came after, and of the plan alone where frame stages leave the
  store alone.
- `exact.rs:251` says that a larger pool never shows stale geometry. The drain
  compares results of one poll only, so with two threads a later poll may return
  an older result, which `decide_swap` then rejects if the preview went on.
  `PollsGoForward` and `FreshResultLands` are stated for a pool of one thread.
- `editable.rs:177`: cancel does not advance the preview sequence, so the result
  of a job submitted from the cancelled preview still counts as current and is
  adopted as the base. `SwapKeepsTheView` excepts a cancelled preview.
- `editable.rs:216`: a logged commit stores the committed base and not the view,
  so undoing it goes back behind the edits since the previous commit. `Timeline`
  has this as `LoggedCommit`.
- `gpu_lanes.rs:90`: a slot belongs to a component type, so a second system over
  the same type runs the pipeline the first one built when it goes to the GPU.
  `OneRunPerCall` names the kernel that runs (`Applied`).
- `auto_lane.rs:103` invites a retry after a failed readback; without a refresh
  in between, the kernel would run on its own output. `GpuLanes` always
  refreshes, which `OneRunPerCall` depends on; an `AutoLane` used on its own is
  not modelled.
- `frame_exec.rs:86`: after a layout was dropped for its budget a frame keeps the
  last layout, while the projected schedule (line 1367) orders the passes that
  are enabled now; a pass the old layout does not have panics there, and the
  enabled set of the old layout is drawn otherwise. `FrameIsCurrent` is stated
  for layouts that fit the budget.
- `transient_pool.rs:660`: imported resources get a slot that nothing fills;
  the models have none.
- `session.rs:1650` says that any actually different file reloads. Two windows
  are blind to a foreign write: between the rename of a save and its fingerprint
  (line 682), and between the startup load and `FileWatch::new`. `EditsAreNoticed`
  excepts them (`blind`). In the other direction, saving a second file before
  the poll replaces the fingerprint, and the watcher then loads the session's
  own bytes over newer edits; `OwnSavesStayPut` excepts it (`eclipsed`).
- `session.rs:292-295` and `397-400` say that the version is bumped by every
  scene mutation, never by frame execution alone. `tick_secs` (lines 426-453)
  bumps it when physics moved a body, and the other systems of a frame (object
  animation, the body poses, gameplay: `app/src/lib.rs:117-134` and `263-297`,
  `gameplay/src/lib.rs:334-400`) write what a scene shows and bump nothing, so a
  snapshot can be behind the world of its version. `VersionTellsChange` is about
  the snapshots that clients are told, and has the rest as `drift`.
- `remote.rs:162` says that stop joins the server threads. The two threads that
  copy a proxied connection (lines 807-833) are in no list and look at no flag,
  and one whose peer idles outlives the editor. `StopIsComplete` says that these
  are the only ones.
- `PROJECT_REVIEW.md:1139` says that the transport has no duplicates and no
  losses. A poll that is in flight when the socket opens delivers records that
  the socket also pushes, and a late poll with a gap record sets the cursor back
  (`live.js:603`). After an engine restart a page keeps its cursor: it skips the
  new engine's events up to there, and scene snapshots until their sequence
  number passes the one it saw. `NothingSilentlyLost` counts from that cursor
  (`base`), and `PagesCatchUp` excepts such pages.
- `identity.rs:12` says that a replaced tool misses. The identity is read and
  then remembered under the stamp the program has by that time, so a tool that
  is replaced in between is taken for its predecessor as long as the process
  lives; one replaced between the plan and the spawn encodes under the old key.
  `EntriesMatchTheirKeys` excepts the keys for which that happened (`swapped`),
  and only these.
- `cache.rs:183` gives temporary files a name of their own per call, but scratch
  files are named by the key (`encoder.rs:213`): two bakes of one key delete and
  overwrite each other's and may both fail. `OnlySharedKeysFail` says that,
  besides this and a replaced tool, a bake fails only for the reasons that
  `bake.rs:295-297` gives. That no bake publishes a mix rests on two things the models
  assume of the encoder: it refuses a truncated image, and its output is not
  valid until its last piece is written.

## 7. What is not modelled

`PROJECT.json` lists every component with its status. Left out within the
modelled ones: f32 rounding of times and matrices (integers and model values);
page allocation in the page table, prefetching and read-only iteration, which
change nothing; timings, diagnostics and rendering of plans; the mesh kernels,
abstracted to the version they were computed from; wgpu itself; the second
planner entry `bitset_level_plan` beyond its conflict test; the wrap of 32-bit
generations; panics of kernels on pool threads. In a frame plan: size policies
and byte sizes per format, the views of imported resources, budget misses before
any layout exists beyond the empty plan. In the session: what each command does
to components, undo and the mutation bus, whose drain drops what it took when
the store is away (`session.rs:481`; the session's world always has one). On
disk: power loss, so neither the sync before a rename nor its absence matters,
and two writes with one time and size. In the transport: HTTP parsing and
encoding, which proxied connection carries which request, the internal server's
own threads, pings, a send that blocks (sockets have no write timeout), and
request ids, which two pages count alike from 1. In the bakes: settings, roles
and downgrades, a tool given by path, a tool read while it is being replaced, an
image that is refused before anything else, a file that cannot be removed, an
error of waiting for the encoder.

Not modelled because there is no state to get wrong or because it is out of a
model checker's reach: the shader compilers, codecs and importers (pure
functions over large data), GPU layouts, macros beyond the lane access they
generate, host shells and bindings, tooling and vendored code. Physics,
animation and audio keep state, but their decisions are comparisons of floats in
one thread; a model of them would have to invent the numbers. Most of the lines
of the repository are of these kinds.

## 8. Plan

Done first, because everything rests on it: the entity and component core, the
schedule and the frame loop, then the caches and workers on top of them, then
the frame plan, the editor with its files and transport, and the bake cache.

What could come next, in order:

1. `MutationBus` between the producers of a frame and the session's drain.
2. `EventStore` in the frame loop: per-entity order and retention.
3. `CommandSync` under `GpuLanes`: recording order against the order effects
   happen in.
4. Physics sleeping and the animation state machine over abstract thresholds.

Next theorems: what the abstract modules promise on their own (that
`EntityRegistry` never issues a handle twice, `AtomicLane` loses no write,
`Timeline` undoes what it did), so that the refinements carry it to the code's
models; and whatever the models above come to check.

## 9. Running it

    tlc -workers 2 -config SmartStore.cfg MCSmartStore
    tlapm SmartStoreProofs.tla

`PROJECT.json` gives the module and configuration of each run. The longest take
two to four minutes with two workers, the longest proof modules longer. Four
configurations set CHECK_DEADLOCK FALSE because the system stops: `ExactWorker`
when the handle is dropped and its threads have ended, `GpuWork` when the calls
of a lane are used up or a frame panicked over a plan that reads before it
writes, `EditorRemote` when the editor was stopped, and `BakeCache` when its
servers ask for nothing more.
