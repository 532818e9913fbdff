# LuaSTG Sub: TLA+ models, model checking and proofs

LuaSTG Sub is a two-dimensional game engine for Windows: a C++ core (`src/engine`),
a game layer (`src/LuaSTG/LuaSTG`) and Lua scripts that are the game. This directory
holds a formal model of the parts of it whose correctness depends on *order*: which
objects a pass of the game loop reaches while scripts create, free and move objects
under it, which thread of the music player touches what when, what is left of a texture
when the graphics device is lost in the middle of a frame, who still holds a resource
that a script has removed.

* `tlc -workers 2 -config X.cfg M` model-checks module `M`; `PROJECT.json` ("runs")
  pairs modules and configurations.
* `tlapm M.tla` checks the proofs of a `*Proofs` or `*Lemmas` module.
* `PROJECT.json` ("map") gives for every definition that models code the file and the
  lines it stands for; "mutants" gives for every property a plausible bug of that code
  which the property catches; "hazards" is the list of what can go wrong, by line.

Contents: 1 the system, 2 the modules, 3 the runs, 4 bounds and atomicity, 5 fairness,
6 proofs, 7 disagreements found, 8 not modelled, 9 plan.

Abbreviations: POOL is `GameObject/GameObjectPool.cpp` and POOLH its header, BIND is
`LuaBinding/modern/GameObject.cpp`, all under `src/LuaSTG/LuaSTG`; MUSIC is
`src/engine/audio/backend/StreamAudioPlayerXAudio2.cpp`.

## 1. The system

### 1.1 The frame

`Main.cpp` loads the configuration and starts the application loop of
`engine/window-system`; each frame pumps window messages, updates input, calls the
global Lua function `FrameFunc`, then draws with `RenderFunc`. *Scripts drive the object
pool*: `FrameFunc` calls `lstg.ObjFrame`, `lstg.BoundCheck`, `lstg.CollisionCheck` and
`lstg.AfterFrame`, and `RenderFunc` calls `lstg.ObjRender`. Each of these passes walks a
structure of the pool and calls back into Lua for the objects on its way, and the
callbacks may call nearly every function of the pool again. All of this is one thread.
Music adds one worker thread per stream and the thread of XAudio2, which calls back into
the players; the file watcher has a thread of its own.

### 1.2 Components

| component | state | operations | what is hard | what makes it correct |
|---|---|---|---|---|
| **Intrusive object lists** (POOLH:31-113) | head `first`, `last`; links inside the objects; the sixteen detect lists share one pair of link fields | `add`, `remove`, `clear` | `add` leaves the `next` of the appended object as it was; `remove` trusts that the object is in *this* list | every list is a doubly linked chain of exactly its members; behaves as a sequence |
| **Fixed object pool** (`engine/collection/core/FixedObjectPool.hpp`) | stack of free slots, `m_used` bits | `alloc`, `free`, `size`, `clear` | full and empty pool, a slot freed twice | a slot is handed out once until it is freed; none is lost |
| **Circular queue** (`FixedCircularQueue.hpp`) | array, front, back, size | push and pop at both ends, `clear`, `placementResize` | it wraps at both ends; resizing to the whole capacity | a queue with two ends |
| **Game object pool and its passes** (POOL, POOLH) | slots, update list, detect lists, render set, unique id counter, pair of locked objects, two flags, pause counters | six passes, two of them in two versions; New, Del, Kill, ResetObject and the property setters; iterators | callbacks change the structures the pass is walking; cached results; freeing under the walk | the structures agree at all times; a pass processes each object exactly once; no stale pointer is ever followed; marked objects are freed |
| **Super pause** (POOLH:446-474) | `m_superpause`, `m_nextsuperpause` | Set/Add/GetSuperPause, hand-over in `ObjFrame` or `AfterFrame` | handed over at different points in the two versions of the frame loop | a pause of t frames freezes t frames; movement and timers of an object do not drift |
| **Object callbacks and Lua binding** (`GameObject/GameObject.cpp`, BIND) | the object table of Lua, features of a class, particle bindings | `__index`/`__newindex`, New, Del, Kill, ResetObject | a Lua error unwinds out of a pass; New checks its argument late | every object in use has its Lua table |
| **Bent laser** (`GameObjectBentLaser.cpp`) | queue of nodes with cached distances and directions, cached length | seven functions that add, move, switch or drop nodes | each brings the caches up to date on its own; indices are not checked | caches are what would be computed anew |
| **Particle systems** (`ResourceParticleImpl.cpp`) | array of particles, age, emission residue | update, emission, lifetime, activity | one sweep that swaps the last particle in | each particle ages once per update and dies on time; no fraction of emission is lost |
| **Resource manager** (`GameResource`) | two pools of named resources, reference counts | load, find, remove, clear | resources outlive their pool; objects, scripts and other resources keep them | counts are exact; a particle pool has one owner |
| **Stream audio player** (MUSIC) | ring of 64 messages between two semaphores, exit event, two buffers, `m_state`, loop range, XAudio2 voice | play, pause, resume, stop, loop, destructor, engine destroyed and created; worker: decode; audio thread: OnBufferEnd | three threads; a full queue drops after a second; the worker posts to its own queue; a chunk may cross the end of the loop | buffers circulate and are never in two places; voice ends up as `getState` says; no thread hangs; what is decoded is what playing sample by sample gives |
| **Sound effects** (`AudioPlayerXAudio2.cpp`, `ResourceSoundEffectImpl.cpp`) | `m_state`, one deferred command per frame | play, pause, resume, stop, update; OnStreamEnd on the audio thread | the end of the old sound overwrites the state of the new one; several commands in one frame | state follows the voice; last command wins |
| **Audio engine** (`AudioEngineXAudio2.cpp`) | endpoint, channels, listeners | create, destroy, players that come and go | creation fails half-way; deletion while the list is told; order of destruction | no voice without its channel, none refused, each living player told once |
| **Graphics device and swap chain** (`engine/graphics/d3d11`) | device, swap chain, canvas, flags, listeners | create, destroy, resize, full screen, present | every step may fail; WM_SIZE arrives inside the function that changes the chain | sizes settle; the screen is owned by a chain made for it; targets follow the canvas |
| **Graphics resources** (`engine/graphics/d3d11`) | native parts per device, listeners | construct, destroy, device lost and made | construction fails half-way; a handler that resizes other resources | complete between create and destroy only, and again after each failure |
| **Video decoder** (`VideoDecoder.cpp`) | source reader, texture, loop range, position | open, seek, updateToTime, device lost | thresholds decide between keep, read on, seek, fold | the frame shown is the one of the time asked |
| **Renderers** (`PrimitiveBatchRenderer.cpp`, `FreeTypeGlyphManager.cpp`) | pending triangles, states, dynamic buffer; glyph images with dirty rectangles | draw, set state, target stack, flush; cache, upload | drawn later, under a later state; textures empty after a loss | batching cannot be seen; cached glyphs reach the texture |
| **Window system** (`engine/window-system`) | loop, modal loops, focus, text input | pump, modal frames, full screen transition, exit, typing | frames run from inside modal window loops | frames never nest; the end is seen; the cursor stays in the text |
| **Application frame** (`AppFrame*.cpp`) | flags, focus bits, restart | the steps of a frame | callbacks fail or ask for the end inside a frame | flags say what runs |
| **File system watcher** (`FileSystemWatcher.cpp`) | overlapped read, three events, queue | open, read, next, close | event reset by hand between two reads; exit at any point | every change arrives, in order, once; closing returns |
| **Input** (`Keyboard.cpp`, `AppFrameInput.cpp`) | held codes, copy per frame | key messages, focus, frame | releases that happen elsewhere are never told | no key is stuck |
| **Reference counting** (`engine/reference-counted`) | strong and weak counters | retain, release, resolve | | counts as used by resources: above; the rest: section 8 |
| Bounded message queue, decoders, file system, collision shapes, configuration, HTTP client, random generators, logging and the rest | | | | see section 8 |

### 1.3 Interactions that matter

* **Pass and callback.** POOL walks `update_list_next`, `detect_list_next` or a
  `std::set` iterator and, between two steps, runs Lua. Three disciplines keep this from
  crashing: callbacks *mark* objects and only `AfterFrame` and `ResetPool` free them;
  the pass reads the next pointer either after the callback (`ObjFrame`, `BoundCheck`,
  `ObjRender`) or before it (`CollisionCheck`); and the binding refuses `group` for the
  two objects under test and `layer` while rendering.
* **One object in three structures.** Allocation, ResetObject, the setters and freeing
  must change update list, detect list and render set together, and the render set is
  keyed by values (layer, unique id) that live in the object.
* **Engine thread, worker and audio thread.** They share one message queue; the worker
  is the only reader and also a writer.
* **Audio engine and players.** The engine tells its players when the device is gone and
  when there is a new one; messages for the old voice may still be in the queue.
* **Device, swap chain, resources.** The device tells its listeners in the order in which
  they registered, the swap chain first; the handler of the swap chain resizes the render
  targets that follow the canvas before their own handler is called.
* **Window messages.** `SetFullscreenState`, `SetWindowPos` and modal loops of the system
  call the window procedure from inside, which resizes the swap chain or runs a frame.
* **Objects, scripts and resources.** An object keeps its resource and, if that is a
  particle system, a particle pool; a script may keep the binding to that pool for longer
  than the object lives.

## 2. The modules

### Lists

* `LinkedListOps`: `add` and `remove` as operators on values (`AddHead`, `AddLinks`,
  `RemoveHead`, `RemoveLinks`), statement by statement including the path for the only
  element, which leaves the links alone; `WellFormed` is what every owner relies on.
* `GameObjectLinkedList`: several lists over one pair of link fields, as the detect
  lists are, with the operations the pool performs on them; `LinksInv`.
* `ObjectSequences`: the abstract specification, each list a sequence.
  `GameObjectLinkedList` refines it (`ImplementsSequences`), and so does the use that
  `GameObjectPool` makes of its detect lists (`DetectListsProtocol`): the pool only
  removes an object from the list it is in and only adds one that is in none.
* `ListsAsSequences`: the refinement mapping, which reads a list from `first()` along the
  next fields as the pool's loops do. What does not read as one sequence of all members is
  mapped to something that no abstract list is.
* `ObjectIterator`: `for i, o in lstg.ObjList(group)` over such lists, with a loop body
  that creates, resets and regroups objects. `IteratorInv`: the object
  that comes next is in the group asked for unless the body itself moved it, and as long
  as the body leaves the next object alone the loop gets every object that stays, once.

### Slots and queues

* `SlotAllocator`: abstract; a set of used slots that grows and shrinks by one.
* `FixedObjectPool`: the free stack and the bits of the C++ template. `result` is what
  the last `alloc` returned.
* `Deque`: abstract; a bounded queue with two ends. `call` is the last function called
  with the item it took or returned, so that a refinement must return the right one.
* `CircularQueue`: the array of the C++ template with front, back and size;
  `ImplementsDeque`. Its assertions are preconditions. They admit one call that leaves the
  array, `pushBehind`, after which a behaviour goes on no more (`spilt`).

### The pool

* `GameObjectPool`: state and script operations. `used` stands for `m_ObjectPool`
  (an instance of the allocator above), `update_list`/`update_links` and
  `detect_lists`/`detect_links` are the intrusive lists, `render_list` is the `std::set`
  as a set of keys: insertion and erasure compare keys with the code's comparer, so an
  object whose key changes while it is in the set gets lost as it would in C++.
  `object_table` are the slots with a Lua table, `callbacks` the features of the object's
  class. `pc` says what runs: `"main"` the main script between passes, `"update"`,
  `"render"`, `"bound"`, `"detect"`, `"next"`, `"reset"` and so on the loop of a pass,
  and the same with `".callback"` script code called by the pass. Each operation is
  guarded by `Script(op)`: it may run from the main script if `op` is in `MainOps` and
  from *any* callback if it is in `CallbackOps`.
  Operations: `New`, `NewInvalidClass`, `queueToFree` (Del, Kill), `setStatus`,
  `setClass`, `setGroup`, `setLayer`, `DirtResetObject`,
  `SetNextFrameSuperPauseTime`, `setIgnoreSuperPause`.
* `GameObjectPasses`: the passes, one group of actions each, named for the C++ function:

  | pass | actions | code |
  |---|---|---|
  | ObjFrame, both versions | `ObjFrame`, `updateSkip/Plain/Call/Return/Move/End` | updateMovementsLegacy, updateMovements |
  | ObjRender | `ObjRender`, `renderPlain/Call/Return/End` | render |
  | BoundCheck | `BoundCheckLegacy`, `boundInside/Outside/Return/End` | detectOutOfWorldBoundLegacy |
  | BoundCheck, batch | `BoundCheck`, `bound2Call/Return/End` | detectOutOfWorldBound |
  | CollisionCheck | `CollisionCheckLegacy`, `detectMiss/Hit/Return/Outer/End` | detectIntersectionLegacy |
  | CollisionCheck, batch | `CollisionCheck`, `detect2Call/Return/End` | detectIntersection |
  | AfterFrame, both versions | `AfterFrame`, `nextSkip/Free/Timer/End` | updateNextLegacy, updateNext |
  | ResetPool | `ResetPool`, `resetFree`, `resetEnd` | ResetPool, resetGameObjectLists |

  `p` is the object under the loop, `ptrA` and `ptrB` the prefetched pointers, `cache`
  the results of a batch pass that are still to be reported, `m_LockObjectA/B` the pair
  under test. `present`, `visits`, `moved`, `tested` and `regrouped` are history
  variables of the pass that the coverage properties read; no guard does. `displaced` says
  that `lstg.ResetObject` moved an object under test, or the one whose node the iterator of
  ObjRender is at; from then on that iterator may lead to any object (`RenderedOne`).
* `MCGameObjectPasses`: the instance for TLC: symmetry of objects and the refinement
  mapping of `DetectListsProtocol`.
* `SuperPause`: the two counters and one object that is never exempt, through whole
  frames of either version. `lead` counts movements minus timer ticks, `asked` and
  `frozen` compare what a script asked for with what it got.

### Lasers, particles, resources

* `BentLaser`: the nodes of a laser as a sequence, oldest first, with `m_fLength` and the
  cached `dis` and `dir` of each node; one action per script function. Positions are
  points of a line, a direction stands for the neighbours it was computed from. `drift`
  and `torn` are set by the calls that leave a wrong cache behind until everything is
  computed again; `LaserInv` demands right caches unless they are. `behind` is the
  `m_back` that a resize to the whole capacity leaves behind the array; `overrun` is the
  write through it, or the push to a full queue that `UpdatePositionByList` makes for an
  index or a list beyond the capacity. Nothing is known of the laser after either, until it
  is released.
* `ParticlePool`: the sweep of `Update` over the array, round by round, with the swap by the
  last particle and the step back of the index; emission counted in fractions of a particle. `expected`,
  `ordered` and `made` are what should be there (`ParticleInv`).
* `ResourcePool`: stage and global pool, three kinds of resources (one made of nothing, one
  made of another, one with instances), the object, the particle pools and the
  `lstg.ParticleSystem` values that keep them. `ResourceInv`: every reference count is the
  number of its holders, and a particle pool has exactly one owner.

### Audio

* `StreamAudioPlayer`: the queue (`m_data`, two indices, two semaphores, exit event), the
  three threads, and the voice as XAudio2 behaves towards this code: buffers queue in
  `submitted`, a started voice plays the first and calls OnBufferEnd, a flush gives all
  of them back through OnBufferEnd, `DestroyVoice` waits for a running callback.
  `sendAction` is two steps (take a slot, write it) and any thread may drop its message
  when there is no space, which stands for the timeout of one second. `CanFail` lets
  seek and read fail, and `create()` with the new voice made (`onAudioEngineCreateFails`) or
  not; `lost` names the buffers such failures and a full queue take out of the cycle; `Overlap` lets two threads be between those two steps at once.
* `MusicStream`: the loop range from the script to the worker and the chunk that is
  decoded into each buffer, in unsigned arithmetic modulo `Word`. `LoopInv`: the worker
  loops over the part of the range asked for that lies in the file; `ChunkIsNext`: each
  chunk is what playing sample by sample gives.
* `SoundEffect`: three layers that each keep a state: the resource with its deferred
  command (`m_last_command`, `effect_state`), the player, and the voice. A call of the
  player is a list `todo` of calls of the voice, carried out one by one between which the
  audio thread may report the end of the stream. `SoundInv` holds `EffectInv`;
  `StatesAgree` is its liveness.
* `AudioEngine`: endpoint, three channels and the listeners of the engine with their
  deferred compaction; destruction stage by stage, creation that fails at each stage.
  `AudioInv`, part of `SoundInv`.

### Graphics

* `SwapChain`: one record `sc` of chain, window, canvas and device. A C++ function is an
  operator from a state to the set of its outcomes `[ok, s]`, so that a function which
  fails half-way leaves a half-changed state and one that is called by a window message
  from inside another is just called there. `failing` says whether calls fail in the step to
  come, `health` whether one has failed since the device was last made. `SwapChainInv`.
* `Pictures`, `ImmediateRenderer`, `BatchRenderer`: what scripts see of the 2D renderer, a
  renderer that paints at once, and the code's, which collects triangles in a dynamic
  buffer and skips state changes that change nothing. `BatchingInvisible` is the
  refinement, `RendererInv` says that the buffer is not overwritten while the device may
  read it.
* `GraphicsResources`: for each kind of resource its native parts and the device they
  belong to; construction that fails after some of them; the two events of the device,
  delivered one listener at a time. `ResourcesInv`.
* `ListenerLists`: vectors of listeners from which entries are erased, as the audio engine and
  the graphics device keep them.
* `GlyphCache`: images of glyphs filled row by row with a pen, dirty rectangles, textures
  that lose their contents with the device. Pixels are cells of a small image.
  `GlyphInv`.
* `VideoDecoder`: reading, seeking to key frames, loop ranges, and the decision of
  `updateToTime`. `VideoInv`: after an update that succeeded the texture shows the frame of
  the time meant, half a frame early or one frame late at most, or of the time from which the times crept back
  by steps within `BackwardTolerance` (`latest`); the loop range is inside the video; the
  texture belongs to the device that is there.

### Window, application, devices

* `Application`: one thread as a stack of what is inside what: the loop, a modal loop, a
  full screen transition, a frame at one of its steps. Messages arrive wherever the code
  dispatches them. `WindowInv` holds `AppInv` (frames never nest, flags agree, a regained
  focus reaches the script); `QuitEnds` is its liveness.
* `TextInput`: code points, cursor, the half of a surrogate pair, and the UTF-8 copy that
  scripts read; `TextInv`, part of `WindowInv`.
* `Keyboard`: messages under way, codes held, and the copy of the frame. `KeyboardInv`.
* `FileSystemWatcher`: the overlapped read, its event and the system behind it, which
  keeps changes between two reads up to a limit; the queue; the exit. `ChangesArrive`.

### Compositions and proofs

* `MCEngineCore` and `MCDevices` put parts together that do not interact with each other,
  so that each run answers for several components: a behaviour chooses a `part` and
  follows it alone, the state of the other parts stays at one initial state. The state
  space is the sum of the parts, not the product, and every property is that of the part
  alone. Where components do interact they are in one module (player and engine events,
  swap chain and window, resources and device, objects and resource pools).
* `Sound` and `Window` put the properties of `SoundEffect` and `AudioEngine`, of `TextInput`
  and `Application` into one each.
* Proofs, section 6: `LinkedListLemmas` (what `add` and `remove` do),
  `GameObjectLinkedListProofs` (lists, sequences, iterator), `GameObjectPassesProofs` (the
  pool), `GameObjectWalksProofs` (what its passes reach), `StreamAudioPlayerProofs`,
  `EngineCoreProofs` (slots, pauses, sound, resources of the device and of scripts),
  `WindowProofs` (text, frames, glyphs, particles) and `DevicesProofs` (queue, renderer, music,
  keyboard, video, swap chain, lasers).

## 3. The runs

| run | what it asks |
|---|---|
| `engine_core` | The parts of `MCEngineCore`: lists under an iterator (`LinksInv`, `ImplementsSequences`, `IteratorInv`), the slots (`FreeStackInv`, `ImplementsSlotAllocator`), pauses (`NoDrift`, `PauseIsExact`), sound effects and the audio engine (`SoundInv`, `StatesAgree`), glyphs (`GlyphInv`), text and frames of a window (`WindowInv`, `QuitEnds`), particles (`ParticleInv`), the file watcher (`ChangesArrive`). |
| `devices` | The parts of `MCDevices`: `SwapChainInv`, `RendererInv` and `BatchingInvisible`, `ResourcesInv`, `ResourceInv` (the resources of scripts), `LoopInv` and `ChunkIsNext`, `VideoInv`, `LaserInv`, `KeyboardInv`, `ImplementsDeque`. |
| `pool_frame` | Frames of three objects in two groups and two layers, whose frame, render and del callbacks create, mark and regroup objects and try to change layers. The lists stay exact (`ListsInv`), ObjFrame reaches every object exactly once, also those its own callbacks create, AfterFrame frees exactly the marked ones although it frees the object it stands on (`FrameInv`: `FrameCoversAll`, `AfterFrameCoversAll`), ObjRender, which iterates a set, and both versions of BoundCheck process each object exactly once while callbacks insert into what they walk (`WalksInv`: `RenderCoversAll`, `BoundCoversAll`), and the detect lists are used within their protocol (`DetectListsProtocol`). ResetPool at any point between passes; the main script also calls New with something that is no class. |
| `pool_pause` | Super pauses and exemptions changed at any point, from callbacks too. AfterFrame leaves frozen objects alone (`AfterFrameCoversAll`); with fairness a marked object is freed in the end, provided that there are AfterFrames without a pause again and again (`MarkedIsFreed`). |
| `pool_detect` | CollisionCheck in both versions with colli callbacks that create objects, regroup them and change classes. Every pair that is there from start to end is tested exactly once (`DetectCoversAll`). |
| `pool_resets` | All passes, with callbacks that also reset objects: the one under the pass, the prefetched ones, those under test. AfterFrame and ResetPool free. Every pointer and lock a pass holds leads to an object in use, but for the iterator of ObjRender whose node a render callback erased (`PassPointersInv`); the render set stays exact (`RenderListInv`) and the update list ordered by unique id (`UpdateOrderInv`). |
| `stream_audio` | Play, pause, resume, stop and the destructor against worker and audio thread, with failing reads and a queue that fills (`StreamInv`): no buffer is lost or in two places (`BufferOwned`), the voice ends up as `getState` says (`StateFollowsVoice`), the worker exits only when told (`ExitOnlyWhenNotified`). `NobodyHangs`: the destructor returns (`DestructorReturns`), no call blocks for ever (`CallsReturn`), a buffer in the queue is decoded (`BufferServed`). |
| `stream_reset` | The audio engine goes and comes back at any point and any number of times, and `create()` may fail before or after it has the new voice (`ResetInv`): no buffer leaves the cycle but those that such a failure, a full queue or a failed read has lost since the last `create()` that succeeded (`BufferKept`), and a player that was playing plays again unless that `create()` failed before it could resume. |
| `stale_results` | Expected violation of `CacheStaysFresh`, section 7. |
| `regrouped_target` | Expected violation of `CollisionGroups`, section 7. |
| `stream_race` | Expected violation of `ExitOnlyWhenNotified`, section 7. |
| `text_cursor` | Expected violation of `CursorInside`, section 7. |

The `pool_*` runs share one specification and differ in which passes and operations are
enabled, so that each can afford the bounds its question needs. Every property is
broken by at least one mutant of the code ("mutants" in `PROJECT.json`), among them a
missing erase before a key changes, a lock that is not released, a loop that steps
before it reads, a dropped message that is waited for, an event that is reset after the
read it belongs to was started, a state of the device that is set before the pending
triangles are drawn.

## 4. Bounds and atomicity

### The pool

* **Objects, groups, layers.** Three objects are the least for which an object has a
  neighbour on both sides, so that a removal at the head, in the middle and at the tail
  differ, and for which two objects can be under test while a third moves. Two groups
  are enough for an object to leave one list for another; two layers for a key to move
  in either direction. `pool_pause` needs two objects, one frozen and one exempt. The lists
  of `engine_core` have four objects, and its pool four slots.
* **`UidBound`** bounds the counter of unique ids, which is what makes the state space
  finite: at most three to five creations and resets in a behaviour. In `pool_resets` it is
  above the number of objects, so that the pool can be full and its slots used again; in
  `pool_frame` it is three, enough for two objects and a third that a callback creates, or
  for a slot that is freed and taken again. The code counts modulo 2^48 - 1; a wrap is not
  modelled.
* **`HitBound`** is the number of collisions a batch pass may report (2): one callback
  that disturbs the result of the next is enough to see a stale one.
* **`PauseBound`** is 1 in `pool_pause`, where pauses may be renewed for ever, and 6 in
  `engine_core`. `SuperPause` is proved for every bound.
* **Symmetry** of the objects is used in `pool_frame`, `pool_detect` and `pool_resets`
  only, which check no liveness property.

### Audio

* **`Size`** is 2 instead of 64 in the passing runs of the player, so that the queue is
  full in ordinary operation; 4 in `stream_race`, to show that the race needs no full
  queue. `Buffer` has the two buffers of the code.
* **`Total`** 5, **`BufferFrames`** 2, **`Times`** and **`PlayTimes`**: a file of five samples
  is decoded in chunks of two, so that a chunk ends before, at and behind the end of a loop
  and of the file, and times lie inside, at and behind both. **`Word`** 16 is the width of the
  unsigned integers: it is above every sum of two times, as 2^32 is above the sample counts
  of the code, and what goes below zero wraps.
* **`ListenerBound`** 4 with three players: an address may be listed twice while the entry
  of the dead player waits for compaction. **`CallsFail`** lets any call of a voice fail.

### Graphics

* Sizes of the canvas, of the window, of the monitor and of the modes are a few distinct
  numbers (`CanvasSizes`, `WindowSizes`, `Monitor`, `Modes`): the code compares and copies
  sizes. A canvas, and the window a script makes for it, can be as large as the monitor.
  **`FailingCalls`** names the calls that may fail, all of them in `devices`; **`Models`** has
  a chain on a window and one that composes. The third model of the code differs from the
  first by not having a latency object; `ChainSettles` is proved for it too.
* **`Capacity`** 3 against primitives of 2 vertices: the dynamic buffer wraps at every second
  draw and some room is left over. **`PictureBound`** 2 bounds what is painted in a behaviour:
  two primitives and the state changes between them are what batching can confuse.
* **`ResourceBound`** 4 resources at a time, of every kind, so that a failure has listeners
  before and behind it.
* **`TextureSize`** 7 and **`TextureBound`** 3: an image holds two rows and two columns of the
  glyphs used, which come in several widths and heights, so that a row, an image and the
  cache get full.
* **`Frames`** 4 of two ticks, key frames at 0 and 2; **`BackwardTolerance`** 1, half a frame, where
  the code has 1/120 s; **`SeekThreshold`** 3, **`CatchUpFrames`** 2,
  **`MaxDecodeFrames`** 3 are smaller than the file so that every branch of `updateToTime` is
  taken, as they are in the code for videos of more than a second.

### Scripts, resources, window, devices

* **`ThingBound`** 3, **`InstanceBound`** 2, **`UserDataBound`** 2: a resource that is replaced
  while the old one is in use and another is made of it; two particle pools and two
  bindings, one of which outlives its object.
* **`MaxCount`** 3 particles (the array fills), **`Rate`** 2, **`ClockBound`** 3, **`Lives`**, **`Lifetimes`**, **`Deltas`**: some
  particles expire in the sweep, the first, the last and several of them.
* **`MaxNodes`** 3 and two positions: a laser whose queue is full, with an inner node; **`Indices`**
  from before its newest node to beyond the capacity.
  **`LengthBound`** 4 bounds how far the cached length may go wrong.
* **`MaxSize`** 3 of `CircularQueue`: both ends wrap, and `NewSizes` has every size up to it. It is
  proved for every capacity.
* **`MessageBound`** 4 messages and **`DepthBound`** 5: a full screen transition inside a frame
  inside a modal loop, with messages left to arrive in it.
* **`BufferBound`** 3 code points, **`InsertBound`** 2: erase and insert in the middle, at both
  ends and beyond.
* **`ChangeBound`** 4, **`KeptBound`** 2: more changes than the system keeps.
  **`QueueBound`** 2 key messages under way, with four keys of which two share a code and two
  are shifts.

### Atomicity

A pass runs in the only thread that touches the pool, so nothing can happen
between two statements of C++; a step therefore reaches from one point where script code
may run to the next, and a loop that runs no script code is a single step where its
order does not matter (`updateMove`, the scan of the batch passes). Passes are started
by the main script and not from callbacks. The batch passes report their results in any
order; the code goes through its vector in order, so the model admits more behaviours
than the code and the properties hold for all of them. Intersections, positions outside
the world and everything else that is geometry are choices. Code that is compiled out in
this repository (several worlds, pausing by property) is left out.

In the music player each step is one synchronised action: acquiring a semaphore, writing
a slot, one call on the voice. The read of a message and the release of its slot are one
step, as only the worker reads. The loads and stores of `m_state` happen on the engine
thread alone. In `SoundEffect` each call of the voice is a step, and so are a read and a
write of `m_state`, which two threads share. In `FileSystemWatcher` each call of the system
is a step of the thread.

Everything in the graphics, window, resource and script parts runs on one thread. A step is
what happens between two points at which something else may come in: another listener
(`GraphicsResources`), a message (`Application`), a script (`ResourcePool`, `BentLaser`,
`ParticlePool`, `TextInput`). What comes in at a fixed place of a function, the `WM_SIZE`
of a full screen change, is part of it.

`CHECK_DEADLOCK FALSE` appears in `StreamAudioPlayer.cfg` only, the one run in which the
destructor is called: after it has returned nothing is left to do.

## 5. Fairness

* `GameObjectPasses`: weak fairness of `LoopStep` and of `CallbackReturn` (a loop is
  plain C++ code, and a Lua callback that does not return stops the game), strong
  fairness of `AfterFrame`, since the script calls it once in every frame and may call
  other passes in between. Nothing is assumed of what scripts do. `MarkedIsFreed` has
  its premise in the formula: again and again there is an AfterFrame without a pause;
  a script that renews a pause in every frame does postpone frees for ever.
* `StreamAudioPlayer`: weak fairness of the worker, of `join` and of OnBufferEnd (a
  started voice plays), strong fairness of `sendAction` for each thread: it is enabled
  all the time, by the space or by the timeout, except while another thread is between
  its two steps. No fairness for what the engine thread calls: it may never call again.
* `SoundEffect` (`SoundFairness`): weak fairness of the flush that the frame does by itself,
  of the steps of a call of the player, of the end of a sound that plays and of
  `OnStreamEnd`. Nothing is assumed of scripts: `StatesAgree` is about what is the case once
  they leave the effect alone.
* `Application` (`AppFairness`): weak fairness of what the thread does by itself, callbacks of
  scripts that return among it; strong fairness of `WM_EXITSIZEMOVE`, since a user who drags
  a window lets go in the end, though frames run from the timer meanwhile. `QuitEnds` needs
  both: inside a modal loop `WM_QUIT` cannot be seen.
* `FileSystemWatcher` (`WatcherFairness`): weak fairness of the thread and of the join. Calls
  that fail are not fair, nor are changes.

`engine_core` assumes of each part its own fairness only.

## 6. Proofs

All proofs are checked by TLAPS for every value of the constants, subject to the named
assumptions of the modules: `NAssumption` (the pool has a slot), `PoolAssumption` (`null` is
no object, layers are natural numbers, the defaults are a layer and a group, bounds are
natural numbers) and their like in the other modules, which say what is a number and what is
at least one. TLC evaluates all of them. Nothing is assumed finite, so the theorems about the
pool hold for its 32768 objects as for three.

Where a theorem needs more, its statement says so (`ASSUME ... PROVE`): a hypothesis about
what scripts do or about how threads overlap. Each one is there because the code breaks the
property without it, as section 7 reports.

Some properties have their exception inside instead, in a state the model follows: what a
device shows after a call of the system failed, a write behind the array of a queue, a
buffer lost by a full queue. Those are named below, theorem by theorem.

| theorem | hypothesis | why |
|---|---|---|
| `FrameReachesAll`, `WalksReachAll`, `DetectReachesAll` | no callback calls `lstg.ResetObject` | it moves the object under the loop to the end of the list (POOL:98), or erases the node the iterator of ObjRender is at |
| `StreamBuffersOwned`, `ResetKeepsBuffers` | `Overlap = FALSE` | two senders at once, `stream_race` |
| `StreamBuffersOwned` | no `reset` | a new voice gets both buffers posted, also one in the queue, section 7 |
| `WindowConsistent` | inserted text is one byte per code point | `text_cursor` |
| `RendererSafe`, `RendererImplementsImmediate` | `Disturbances = {}` | scripts that destroy or resize the texture of pending triangles, which are then drawn with it |
| `LoopAsAsked` | no `LengthAndEndPoint` | the end is taken for a length, section 7 |
| `GlyphsWhole` | bitmaps have a width and a height, and that of the space fits | otherwise the constructor could not have cached it, and there is no cache |

### Lists and the pool

* **`ListsWellFormed`** (`GameObjectLinkedListProofs`). The invariant, `Family` of
  `LinkedListLemmas`, says of all lists that share link fields at once that each is well
  formed for its members, that no object is in two, and that the links of an object in
  none are null. The last part is what makes `add` correct: it does not write `next`.
* **`ListsImplementSequences`**: the lists refine `ObjectSequences`. `IsList` says that a
  sequence is what one reads forwards from `first()`, backwards from `last()`, and holds each
  member once. Such a sequence is the only one that can be read (`ReadsOnce`, by the least
  index at which another would differ), which gives the value of the refinement mapping;
  `ListAdd` and `ListRemove` show that it is appended to and shortened, `FamilyIn` and
  `FamilyOut` that the other lists keep theirs. The induction over the list that this seems
  to need is in the steps: the sequence is carried along, not computed.
* **`IteratorReachesAll`**, without hypotheses. `WellFormed` ranks the objects of a list; the
  invariant says that those passed rank before the next one and those to come at or after it,
  as long as the body of the loop leaves the next object alone.
* **The pool** (`GameObjectPassesProofs`). `IInv` is `PoolInv /\ PassInv`.
  `PoolInv` = `ObjectType` (status `free` exactly for unused slots, Lua tables for used
  ones only) /\ `UpdateListInv` /\ `Family` of the detect lists /\ `RenderListInv`. The
  order of the update list is part of it: `Ordered` ranks the list by unique id, so that
  a chain cannot be a ring. `RenderListInv` needs that all ids are below the counter,
  for otherwise a new id could equal an old one and the set would refuse it.
  `PassInv` adds the pointers of the pass: they lead to objects in use, and a pass that
  frees holds none but the one under its loop. That is `PassLocalsInv`, without which
  `nextFree` could leave a dangling `ptrA`; `resetFree` needs in addition that it stands
  on the first object. The one pointer that may be lost is `p` of ObjRender after a render
  callback reset that object (`displaced`): whatever it then leads to, nothing is freed in
  that pass and no structure is harmed, so that the other theorems hold from there on. One lemma for each kind of change to the structures (allocation,
  setters, reset, free) and one for the actions of each pass. From `IInv` follow
  `PassesTypeCorrect`, `PoolListsWellFormed`, `RenderListExact`, `UpdateListOrdered`,
  `PassPointersValid`, and `PoolKeepsListsProtocol`: each step of the pool is one operation
  of `GameObjectLinkedList` with its guard, so that the theorems about lists apply to the
  detect lists.
* **`FrameReachesAll`, `AfterFrameReachesAll`, `WalksReachAll`** (`GameObjectWalksProofs`). That
  a pass reaches everything looks like an induction along the list, and is one on its order:
  the update list is in the order of the unique ids and the render set in that of its keys,
  so an object has been passed exactly if it is before the pointer in that order (`Passed`).
  New objects have greater ids; the successor in the list is the next in the order because
  nothing is between them. AfterFrame needs no hypothesis, as it runs no script.
* **`DetectReachesAll`**. The detect lists have no such order in their data, since regrouping
  appends. The invariant says that there is a rank of the objects of both lists in the order
  of their links (`DetectOrder`), by which `p` and `ptrB` divide the pairs into those tested
  and the others (`PairDone`): what ranks before `p` has met all of the inner list, `p` what
  ranks before `ptrB`. An object that is appended gets a rank above all others; one that
  moves to another group may be the next one, which is why `DetectCoversAll` is about passes
  in which nothing is regrouped.

### Slots, queue, pauses

* **`FreeStackExact`, `PoolImplementsAllocator`** (`EngineCoreProofs`). The
  invariant is `TypeOK`, `FreeStackInv` and `SizeInv` together: `alloc` returns a free
  slot because no index is on the stack twice and none of them is in use, and `free`
  stays within the array because the size counts the slots in use, so that with one of
  them in use the stack is not full. Every step then maps to a step of the allocator or
  leaves it alone.
* **`QueueImplementsDeque`** (`DevicesProofs`), for every capacity. The invariant is that
  front, back and size agree (`EndsAgree`). Each function then maps to one of the abstract
  queue: a push writes to the one slot that no element has, because `m_back` is `m_size`
  places behind the front and the queue is not full, and a pop returns the first or the last
  element. The remainders are resolved once, in `Wrap`. After a resize
  to the whole capacity `m_back` is `MaxSize`, which the invariant admits: `popTail`
  brings it back into the array, and the only step that is none of a queue is a `pushTail`
  while it is behind it (`Spills`), with which a behaviour ends (section 7).
* **`PausesDoNotDrift`, `PausesAreExact`** (`EngineCoreProofs`), for pauses of any length.
  The invariant adds what holds between the two passes of a frame (`MidFrame`) and that
  the two counters belong together until a script asks again (`Counting`).

### Audio

* **`StreamBuffersOwned`, `ResetKeepsBuffers`** (`StreamAudioPlayerProofs`), for any number of
  buffers and any size of the queue. The strengthening says of the ring that the slots behind
  the reader, as many as the data semaphore counts, hold messages that were sent, and that
  the slot taken by the one sender is the next; of the semaphores that they add up to the
  size; of the worker which message it is about; of the voice that what is in `submitted` was
  given to it since the last flush. `BufferOwned` counts: each step moves a buffer from one
  place to another, so the number of its places stays one. A `create()` that fails with the
  voice made puts those that are nowhere into `lost`; the next one that succeeds posts every
  buffer and empties it. `ExitOnlyWhenNotified` is the ring
  part: what the worker reads was written.
* **`SoundsAgree`** (`EngineCoreProofs`). For an effect, `todo` is always a suffix of the program
  of the call that is under way, and the invariant says for each of these suffixes what the
  player and the voice are in; the deferred command is what the last call of the script
  left. For the engine, the listeners after a compaction are those alive in their old
  order: `Erased` (`ListenerLists`) says which entries stay and that they keep their order, and
  `ErasedKeeps` that nothing else is in the result and nothing is in it twice, so each is told
  once.
* **`LoopAsAsked`** (`DevicesProofs`). The two wrapped sums are resolved with `Word` above every
  sum of two times; then each way of giving a range is a case.

### Window, graphics, input

* **`WindowConsistent`** (`WindowProofs`). For frames, the invariant describes the stack of what
  the thread is in (`Layers`): a frame lies on neither a frame nor a full screen transition, a
  modal loop on no modal loop, and the outermost transition is the one that will set the
  gates again. `GateInv` ties each flag of the code to what is on the stack, `FocusInv` says
  that a loss of the focus still to be told is followed by the gain that cancels it.
  For text, `Bytes` of what is inserted is its number of code points, and the cursor stays
  between the ends.
* **`RendererSafe`, `RendererImplementsImmediate`** (`DevicesProofs`). The invariant (`BatchInv`)
  is that inside a scene the device follows the settings of the scripts (`DeviceFollows`), so
  that what is pending will be painted as the script saw it, and that the positions the device
  was told to read lie before the next write (`Ready`). `BatchRenderer` keeps the primitives
  that lie in the buffer as the sequence `pending`. The refinement maps
  what is pending to what is painted, so a draw is a paint and a flush a stutter.
* **`ResourcesComplete`** (`EngineCoreProofs`), without hypotheses. `ResourcesInv` speaks of the
  device at rest; the invariant (`ResParts`) judges each listener by whether the event under
  way has reached it (`Told`, `Untold`): while destruction is told, those told hold nothing;
  while creation is told, those still to be told hold nothing, and those told are whole unless
  something failed. The vector of listeners has no doubles and holds exactly the swap chain
  and the resources alive, which needs what erasing leaves (`ErasedKeeps`, as above). The
  auto-sized target is told twice, once as a resource and once through the swap chain, and the
  invariant covers both orders of registration.
* **`ResourceLives`** (`EngineCoreProofs`), without hypotheses, for any number of slots,
  resources, particle pools and script values. `Holds` counts what holds a resource apart from
  the resources made of it, as a function of the pools, the particle pools, the object and the
  script values; `Balanced` says that every count is right for it. One lemma for each kind of
  holder that goes (`PlaceLess`, `InstanceLess`, `ObjectLess`, `DataLess`) or comes; an action
  that releases several times is a chain of them, with the counts right in between for what is
  still held. They rest on `Release`: the last release passes the reference of what the
  resource was made of, and goes no further, because what it was made of is made of nothing.
  Clearing a pool is one step (`ReleaseAll`) that needs a pool to hold each resource once
  (`Named`: under its own slot). `Owning` is `PoolsOwned` with its reverse: the binding of the
  object points at the object's pool, every other script value at one of its own, and nothing
  that is in neither has an instance.
* **`ChainSettles`** (`DevicesProofs`), without hypotheses: any call may fail, the chain may
  compose, and windows and canvases may have any size. Each function of the swap chain has a
  lemma that says what it leaves, whichever of its calls fails: always that the screen is owned
  by an exclusive chain and that the render targets know the size of the canvas (`Owned`); and
  device, canvas, chain and view, with the size of what they are shown in, if it found them so
  and only the full screen was refused (`Holds`). The second part ends with the first failure
  of another call (`health`) and begins again when the device is made anew, which is why the
  function that does so needs nothing of the state it starts from. What `SettledSize` excuses
  is `stale`: a resize that waited for the next present and was meant for another state of the
  window or another model of the chain (section 7).
* **`GlyphsWhole`** (`WindowProofs`). A glyph lies where the pen of its image has passed
  (`Passed`): in the row of the pen and left of it, or above that row. What is written later
  lies beside or below, so that the two share at most a line of their edges (`Apart`); the pen
  moves only to places with the same property (`MovedThere`). `Marked` adds to `DirtyCovers`
  that without a device everything is dirty, which the textures need when they come back
  empty. The number of pixels of a rectangle (`RectangleCount`) shows that no edge is cut off
  at the border of the image.
* **`KeysAgree`** (`DevicesProofs`), without hypotheses, for any number of messages under way.
  `KeyboardInv` speaks of an empty queue only; the invariant says the same of each place in
  the queue: a code that a message will set, or that is set, is one of a key held or is
  cleared by a later message (`CodesLeave`), and a key that was noticed and is still held
  keeps its code, or a change of the window is still to come (`KeysStay`). What was pressed
  while another window had the focus lies before such a change (`OthersReset`).
* **`VideoShowsTime`** (`DevicesProofs`), without hypotheses. The reader is never past the frame after
  `m_current_time` (`NextBehind`), and unless something failed that is the time of the frame
  shown, at most one frame after `latest`, the last time asked or the one from which times crept back
  within the tolerance (`TimeOfShown`); so the two skips of
  `updateToTime` are right. The time folded into the loop differs from the one meant by whole
  turns (`WholeTurns`); seeking lands on a key frame at or before the target.
* **`ParticlesAgedOnce`** (`WindowProofs`), without hypotheses. `ParticleInv` is inductive once
  it is added that no particle has a number greater than `made`. The work is in the sweep. Its rounds
  are a function from the number of the round to the array and the index; that there is such
  a function is proved by least counterexample (`Iterated`), since a principle of induction
  cannot be cited. `Swept` is what holds after k rounds: there is an injection of the places of
  the array left into those of the array given, under which a particle before the index is
  the old one with its age advanced, one from the index on is still the old one, and every
  particle that does not expire is in its range. A round passes a particle or removes one, so
  that the last one leaves nothing unvisited (`SweepIs`). `EmissionStays` is the division with
  remainder.
* **`LaserCachesAgree`** (`DevicesProofs`), without hypotheses; `LaserInv` speaks of lasers none of
  whose nodes was written outside the array (`overrun`), which scripts can bring about
  (section 7). With its types it is inductive. The length is the sum of its parts in the order of the nodes, so a change at
  either end changes one part: `LengthBut` at the newest node, `LengthOfTail` at the oldest.
  A direction depends on the positions of three nodes and on which of them there are
  (`DirectionMoves`). `Shortened` is what popping keeps: the caches stay right, except that the
  last but one node leaves the length and the distance of the last as they were, which
  `UpdateInPlace` makes good and `UpdateInsert` does not (`drift`). The sum, the pops and the
  positions of a list are loops; that they have values is `RoundsExist`, and what holds after
  each round is proved by least counterexample (`RoundByRound`).

### What stays with TLC

Liveness: `MarkedIsFreed`, `NobodyHangs`, `StatesAgree`, `QuitEnds`, `ChangesArrive`. What a
recursive definition computes cannot be proved with the provers available, so `ChunkIsNext`,
which compares with playing sample by sample, is checked on instances only. Every other
property of a passing run is a theorem.

## 7. Disagreements between code and documentation

* **Stale results** (`stale_results`). `detectOutOfWorldBound` and `detectIntersection`
  collect their results first and check each against the unique ids before calling back;
  the mismatch branch asserts that it is unreachable. A `del` or `colli` callback that
  calls `lstg.ResetObject` on the object of a later result reaches it: in a build with
  assertions the engine stops, in one without the object, already marked dead, never
  gets its callback.
* **Collisions with another group** (`regrouped_target`). The documentation of
  CollisionCheck promises callbacks for an object of the first group with an object of
  the second. `detectIntersectionLegacy` fetches the next candidate before it calls back
  and locks only the pair under test; a callback that moves that candidate to another
  group redirects the inner loop into the list of the other group.
* **Unsynchronised writers** (`stream_race`). The comments on `ActionQueue` and
  `notifyBufferAvailable` allow any thread to post. `sendAction` takes a slot and writes
  it in two unsynchronised steps and the data semaphore counts messages, not slots: a
  second writer that finishes first lets the worker read the slot of the first, which
  may still be the default `Action{}`, whose type is *exit*. The worker thread ends and
  the music is silent from then on.
* **Cursor of typed text** (`text_cursor`). The documentation counts the cursor in code
  points, and so does every function but one: `textInput_insertBufferRange` moves it by the
  number of UTF-8 bytes it inserted. One wide character puts the cursor behind the end of the
  buffer, where the next insert or erase throws or writes outside.

Further disagreements with an assertion or a document. The models contain them; none has a
run of its own, but the invariant named states what the code was meant to keep, and TLC
violates it within a few steps when it is checked:

* **Reset of a locked object** (`LockedInPlace`; `pool_detect` with `ResetObject` among its
  callback operations). `DirtResetObject` asserts that its object is not under test
  (POOL:399); `lstg.ResetObject` (BIND:829-833) checks nothing, and the colli callback is
  given both objects. Without assertions the object moves to the end of its lists under the
  walk, so pairs are missed or tested twice. The structures and the pointers of the pass
  survive that (`pool_resets`).
* **Views that are not there** (`NoNullUse` of `SwapChain`, with any of the calls failing).
  `LetterBoxingRenderer` asserts its views (lines 40-41 and 124-125). When `createCanvas`
  fails in `setCanvasSize` (`SwapChain.cpp:466-474`), or a view, the buffers or the chain
  cannot be made elsewhere, the function returns false and what called it goes on: the
  `WM_SIZE` of the next window size, the next change of scaling or the next `present` uses the
  null view. The frame ignores the result of `present` (`AppFrame.cpp:443`). Such a failure
  also leaves sizes behind; nothing sets them again but a resize, another canvas size or
  another device, which `SwapChainInv` shows to mend everything.
* **Resize to the whole capacity** (`WritesInArray` of `CircularQueue`).
  `placementResize` asserts `size <= MaxSize` (`FixedCircularQueue.hpp:33`). With the whole
  capacity it leaves `m_back` behind the array; `popHead` makes room, and `pushTail`, whose
  own assertion holds, writes there. `UpdateAllNode` of a laser accepts all 512 nodes, as the
  documentation of `CurveLaser` allows.
* **Positions beyond the capacity of a laser** (`NodesFit` of `BentLaser`). `UpdatePositionByList`
  compares neither its index nor the length of its list with the capacity
  (`LW_BentLaser.cpp:66-80`, `GameObjectBentLaser.cpp:785-837`): `pushHead` asserts that the
  queue is not full (`FixedCircularQueue.hpp:59`), and without assertions overwrites the other
  end and counts more nodes than there are.
* **Seeking shows nothing** (`SeekShowsFrame` of `VideoDecoder`). The documentation of
  `Video.seek` says that it decodes up to the frame of the given time (`Video.lua:91-92`).
  `seek` (`VideoDecoder.cpp:295-314`) sets the position and reads nothing: the texture keeps
  its picture until the next update.

Observations, since no document, comment or assertion says otherwise. The pool:

* `lstg.New` allocates first and checks its class afterwards (BIND:799). The error leaves
  an object in use without a Lua table, whose entry `onDestroy` (BIND:111) looks for when it
  is freed. `pool_frame` contains such objects and shows that the lists and the passes treat
  them like others.
* The binding refuses `layer` while objects are rendered but not `lstg.ResetObject`, which
  erases the object's node from the set and inserts another (POOL:394-406). When a render
  callback resets the object under the iterator of ObjRender (POOL:153-167), the next step of
  that iterator is undefined. In the model it leads to any object or to the end; that is the
  case which `PassPointersInv` names, and `RenderListInv` holds in it. Resetting another object
  in a render callback gives it a key further on, so that it may be rendered twice.
* A frame callback that resets its own object moves it to the end of the list, and the
  pass continues behind it: the objects in between miss a frame (POOL:98).
* `GameObjectLinkedList::clear` (POOLH:105) nulls the links of its objects but leaves the
  first and last object of the list. `ResetPool` calls it on lists that it has emptied.
* After the audio engine was made again both buffers are posted, also one whose message
  was still in the queue (MUSIC:205): it is then there twice and can be decoded into
  while it is played. `BufferKept` states what does hold.
* The comment on `DirtResetObject` (POOLH:360) says that uid and id are kept; the object
  gets a new unique id (POOL:401), and `UpdateOrderInv` depends on it.
* The iterators (`ObjList`) return an object that was moved after they fetched it, and do not
  end when the body resets the object it was given again and again.

Audio:

* `create()` gives up when the new voice does not take its volume, its speed or its balance
  (MUSIC:188-200), and its result is ignored (MUSIC:242 and where the engine tells of a new
  device): the voice stays, no buffer is posted and a playing player is not resumed. Buffers
  whose message is still in the queue go round; the others come back with the next audio
  engine (`lost` in `BufferKept`, `failed` in `StateFollowsVoice`).
* A loop given as start and end passes the end as a length (`LengthAndEndPoint` of MusicStream's
  source, the one way of giving a range that `RangeTypes` leaves out).

Graphics:

* A glyph of a height or width two pixels short of the image passes the first test and never
  fits: `addTexture` is called for ever. An image whose texture could not be created stays in
  the list, and the flush calls its null texture.
* `Texture2D::setSize` refuses textures that are no render targets, so a text renderer fails for
  good once its text changes size, although the documentation of `TextRenderer` lets scripts
  do so.
* The fall-back from exclusive full screen does not cover the monitor.
* A resize that waits for the next `present` (`SwapChain.cpp`, `m_resize_to_...`) is carried out
  whatever has changed meanwhile: on a chain that composes, which then has another size than
  its canvas, and to the display mode on a chain that is no longer exclusive. That needs a window as
  large as the monitor: asking for full screen again while exclusive, and being refused, gives
  the window the size it has, so that no `WM_SIZE` takes the pending resize back. `SettledSize`
  excuses what is resized like that until the next resize (`stale`).
* After a call failed while full screen was left, and the device was made anew, the chain may
  take the monitor for a window that is no longer in its full screen state (`FullscreenOwned`
  demands the window only while nothing failed).
* `updateToTime` takes a step back within 1/120 s for none (`VideoDecoder.cpp:384`), reads nothing,
  and still remembers the new time: a script that goes back by less than that each time keeps
  its picture however far it gets.
  `VideoInv` allows the frame of the time from which the creeping began (`latest`).

Resources, lasers, particles:

* The check of `RemoveResource` for an unknown pool is inverted (`LW_ResourceMgr.cpp:478`).
  `CheckRes` looks in the global pool first, the look-up of resources in the stage pool.
* `UpdateNode` on a single node ignores its activity and leaves the distance of the next node
  as it was; a laser popped from two nodes to one keeps its length. Both show as `drift`.
  Negative positions never run the loop of `UpdatePositionByList` that is meant for them.
  Sampling with a step of zero or less does not end. `Release` frees nothing.
* A negative emission is cast to an unsigned number. The particle systems of objects restart
  their age each frame, so their lifetime never ends them.

Window and input:

* Scripts that lose and regain the focus within a frame are told of the gain last, whatever
  came last. Frames may still run in a modal loop after WM_QUIT was taken.
* The file watcher reads names up to a null character and not to `FileNameLength`, and its
  thread ends silently at the first call that fails.
* Windows does not mark the right shift as extended, so `RSHIFT` is never shown; releasing the
  enter key of the number pad also clears the main one; a key pressed and released between two
  frames is missed by `GetKeyState`.

## 8. What is not modelled, and why

* In the parts that are modelled:
  the chain of callbacks of one object (only one is ever added), the binding's stack of Lua
  states, Lua errors that unwind out of a pass under `pcall`, objects' properties that touch no
  structure;
  of the players volume, balance, speed, played seconds and the spectrum, and of the stream
  player the failures of a voice that is there (`SubmitSourceBuffer`, `Start`, `Stop`), which
  the code only logs;
  of the swap chain the composition tree, HDR and adapter selection, screenshots;
  of the resources what is uploaded to them; of the decoder format negotiation;
  of the renderers fog and depth (set like the blend state), sprites and the layout of text;
  of lasers width, envelope, collision and sampling, which only read; of particles motion and
  colour; of the window cursors, displays, the input method, and `WM_DEVICECHANGE`; of the
  application start-up and shut-down. Scripts are taken not to write index 4 of an object,
  where the engine keeps the binding of its particles, and key messages to be handled in the
  order they are sent.
* *Resets inside passes*: `pool_resets` and the theorems about structures and pointers have
  `lstg.ResetObject` in every callback; the runs and theorems about coverage (`FrameInv`,
  `WalksInv`, `DetectCoversAll`) have it in the main script only or not at all, since with it
  objects are missed or visited twice (section 7).
* *After a write behind an array, a null view or an undefined iterator*: a laser, a queue or a
  swap chain stops there, a walk goes on at any object. What else memory that was overwritten
  may do is not modelled.
* *Reference counting*: the counts of resources are in `ResourcePool`. The weak references have
  no user in the program besides their own test.
* *File system*: look-ups under one recursive lock; every enumerator is consumed inside the call
  that made it, so no state is left between calls.
* *Bounded message queue*: the player's queue with other waits; the template has no user.
* *Collision shapes* are floating-point geometry; *random generators* published algorithms on
  64-bit words; *configuration* parsing without interaction; *decoders*, *HTTP client*, mouse,
  DirectInput and XInput, logging, images, strings, clipboard and debugger thin layers over
  libraries and the operating system, or tools.

## 9. Plan

Everything above exists. In the order of importance, what could come next:

1. `FrameCoversAll` without the hypothesis about `lstg.ResetObject`, for the objects that are
   not reset.
2. The composition of `GraphicsResources` with `GlyphCache` and `VideoDecoder`, whose device
   events are here two actions of their own.
3. Start-up and shut-down of the application, with what each step has to undo.

The runs are kept few: a new part joins `engine_core` or `devices`, and a new run replaces
one whose question it includes.
