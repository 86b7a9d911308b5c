# AetherKiri, modelled in TLA+ and proved about

AetherKiri plays visual novels of several engines behind one C API. A Godot application
(`apps/godot_app`) drives a native extension (`bridge/godot_extension`), which calls the engine API
(`abi/include/engine_api.h`). A dispatcher (`abi/src/engine_api_dispatch.cpp`) routes every call
either to the built-in KiriKiri backend (`bridge/krkr2_runtime`) or to one of several registered
runtime providers (ONScripter, Siglus, RFVP). Paths below are relative to `src/`.

What makes this code hard is not its data but its threads and its order of events: handles that one
thread destroys while another validates them, a startup worker, interpreters that run on threads of
their own and call back into the API, bounded queues between threads, and calls that are refused or
fail half-way. That is what the modules are about. `PROJECT.json` lists the runs, theorems, hazards
and mutants, and maps every modelled definition to the lines it translates.

## 1. Inventory

| Component | State it keeps | Operations | Talks to | What is hard |
|---|---|---|---|---|
| Engine API dispatcher, `abi/src/engine_api_dispatch.cpp`, `engine_startup_thread.h` | handle registry, media registry, two recursive mutexes, per handle: backend, provider runtime, legacy handle, startup thread and state, log and request queues, last error, options, surface size | `engine_create`, `engine_destroy`, open (sync and async), everything through `Route()`, media calls, drains, polls, pause/resume/tick, callbacks of the host services | host threads, startup worker, providers, their own threads | use after destroy, lock order, join while a lock is wanted, leaked players, truthful startup state, half-done openings, diagnostics that are cleared |
| Provider registry, `engine_runtime_provider.cpp` | list of providers | register, snapshot | dispatcher | choice independent of registration order |
| Primary click gate, `engine_input_queue_gate.h` | held pointer, number of queued gestures, quarantined ids | down, move, up, cancel, reset, consumption | KiriKiri input queue | counter kept apart from the queue; reused pointer ids; eviction |
| KiriKiri backend, `krkr2_legacy_engine_api.cpp` | one script runtime and its owner, startup workers, GPU path, log sink, media handles, published frame, frame limit, input queue | create, open, tick, destroy, read, capture, render targets, options, input | dispatcher, script world (an empty submodule), its decoder threads | handles that share one runtime, stale workers, log lines that outlive their handle, three counters of frames |
| GPU operation queue, `aether_runtime_player.cpp` | queue, batch, drain, surfaces and their pool | draw, read, import, release, flush, batches, teardown | any runtime thread, Godot's render thread | coalesced callbacks, gates and cutoffs, waits that time out, reuse of surfaces |
| Barriers and their planner, `aether_runtime_player.cpp`, `GodotGpuBarrierShadowPlanner.h` | pending writes and reads of a command list | encode, barrier, segment | GPU driver | overlapping rectangles, lists kept by kind of draw |
| Frame presentation, `aether_runtime_player.cpp` | ring of two textures, pending copy, caches | update, draw, reset, change of renderer | engine, render thread, viewport | late or failed copies, slots shown while written, stale caches |
| Requests, movies, videos and settings of the player, `aether_runtime_player.cpp`, `main.gd` | media handle, dialog, belief about the engine's output | serve a request, answer it, play, skip, watch a video | dispatcher, user, shell | answers of an earlier game, failed options, ends that race skips |
| Timing, `RuntimeTickPacer.h`, frame limit, fades | accumulators, deadline, fading players | tick, reset, fade | engine | rests at boundaries, dangling fades |
| Runtime reports in the shell, `main.gd` `_process` | cached startup state and last error | drain logs, poll startup, tick, serve requests | dispatcher | ordering of drain, poll and failure |
| ONScripter runtime, `bridge/onscripter_runtime` | process-wide event queue, published frame, media, interpreter thread | create, open, tick, pause, input, frame, shutdown | upstream interpreter (an empty submodule), dispatcher's media functions | two locks in opposite orders, QUIT through a bounded queue, process-wide leftovers |
| Siglus runtime, `bridge/siglus_runtime` | sound output and its pump thread, frame, ring of shared targets, sizes, cursor | create, open, tick, pause, resume, read, get texture, destroy | `siglus_ak` (outside the repository) | pump against a closing device, leftovers of a failed opening |
| RFVP runtime, stub API, crash capture, JNI bridge, text transform, frame effect | — | thin layers, platform glue, shaders | submodules, OS, GPU | — |
| Application: library, updater, covers, diagnostic session, virtual controls (GDScript) | files, widgets | downloads, caches, recording | network, disk | user interface |

How they interact. The shell's frame calls the player; the player's tick calls the dispatcher, which holds the
registry's and the handle's mutex and calls the backend or a provider; runtimes call back (logs, requests, media,
GPU operations), some from threads of their own; the GPU operations wait for Godot's render thread; what the
runtime has drawn comes back through the player's ring of textures, what it asks through its requests.

Correctness, component by component: *dispatcher* — no freed handle or runtime is used, no player is
leaked or shared, every call returns, the startup state tells the truth; *registry* — the best
provider is chosen; *click gate* — bounded, consistent with its queue, gestures whole; *KiriKiri backend* — one
runtime, of one live handle, whose startup state and frames are told truly, and no deleted handle written to;
*GPU queue* — operations that conflict run in order, none is stranded, no surface is reused while named; *barriers* —
what the lists track is apart; *presentation* — nothing half-written, older or deleted is shown and the last picture
is; *player* — every request answered once, and no game given an answer it never asked for; *timing* — no time lost, made up or adrift; *reports* —
lines in order, once, no failure unnoticed; *provider session* — every setting reaches the runtime, a
paused runtime stays paused; *ONScripter*, *Siglus* — no lock cycle, no thread on a closed device, every shutdown ends,
nothing of one game met by the next.

## 2. Modules

| Module | Models | Depends on |
|---|---|---|
| `EngineLifecycle` | what `engine_api.h` promises of a handle, without locks or threads | — |
| `EngineDispatch` | the dispatcher: locks, openings, worker, callbacks, media, destruction | INSTANCE `EngineLifecycle` |
| `RuntimeReports` | logs, requests, startup state and last error, from a runtime to the shell's frame | — |
| `PrimaryClickInput` | the click gate with the queue and the replay it guards | — |
| `ProviderSession` | registration, selection, replay of settings, pause/resume | — |
| `OnsRuntime` | the ONScripter Runtime, its interpreter thread, queue, movie and frame | — |
| `SiglusRuntime` | the Siglus provider, its sound output and pump thread | — |
| `LegacyFrames` | how the KiriKiri backend publishes, captures and reads pictures, as operators | — |
| `LegacyEngine` | the KiriKiri backend: handles, the one runtime, startups, destruction, log sink | EXTENDS `LegacyFrames` |
| `GpuQueue` | the GPU operation queue, its batches, drains, surfaces and teardown | — |
| `GpuBarriers` | barriers of a command list, and the shadow planner | — |
| `FramePresenter` | ring, caches and every way a picture reaches the viewport | — |
| `StandaloneMedia` | a media handle and the texture made of its pictures, as operators | — |
| `RuntimePlayer` | platform requests, movies, the output option, the library's videos | EXTENDS `StandaloneMedia` |
| `RuntimeTiming` | pacer, quantizer, frame limit, music and its fades | — |
| `EngineDispatchProofs`, `PrimaryClickInputProofs`, `LegacyEngineProofs`, `FramePresenterProofs` | theorems about one module each | EXTEND that module, and TLAPS |
| `SessionProofs` | theorems about a handle's provider: `ProviderSession` and `RuntimeReports` | EXTENDS both, whose names are apart, and TLAPS |
| `RuntimeProofs` | theorems about the two runtimes: `SiglusRuntime` and `OnsRuntime` | EXTENDS both, and TLAPS |
| `PlayerProofs` | theorems about the player: `RuntimeTiming` and `RuntimePlayer` | EXTENDS both, and TLAPS |
| `GpuProofs` | theorems about the player's GPU work: `GpuBarriers` and `GpuQueue` | EXTENDS both, whose names are apart, and TLAPS |
| `MC*` | values and symmetry for TLC; `MCProvider`, `MCRuntimeReports` and `MCFrames` put models side by side | their modules |

### EngineDispatch
Each host thread is at a program counter; `pc = "registry"` and `"mutex"` are the two blocking
acquisitions of `DispatchLock` (registry mutex, then the handle's), `"body"` the code under both.
`"opening"`, `"inProvider"` and `"inMedia"` are calls that run for a while with the locks held; an
asynchronous opening's `open_game` runs on `worker[h]`, which takes only the handle's mutex to
publish. A handle also names the thread that its provider's runtime starts. That thread calls the
public media functions (both mutexes, blocking) and the host services' callbacks (the handle's mutex
alone). `engine_destroy` is the chain `Unregister`, `TakeThread`, `Join`, `DestroyRuntime`,
`RuntimeDestroyed`, `ReleaseMedia`, `DestroyLegacy`, `Delete`; it holds no lock after `Unregister`.
Addresses are reused: a handle deleted may be created again, and host threads call with stale handles
(`EnterRejected`). Every public function that only routes is one operation, `"route"`.

### RuntimeReports
One writer side (runtime and worker) and one reader, the shell's frame, a chain of synchronisation, drain,
poll, tick, serving and report. Lines are a serial number and a length, because `engine_drain_startup_logs` stops
at the first line that does not fit. Requests carry whether they fit the caller's buffers.

### PrimaryClickInput
`Send*` are the branches of `engine_send_input` with the gate's answer; `Dispatch` is one event of the
replay in `engine_tick`, whose failure ends the replay; `PauseInput` clears queue and gate; `PushEvent`
is the push that evicts the oldest event of a full queue.

### ProviderSession
`OpenFirst` decides the backend, creates the runtime, and replays options and surface size, with a
failure possible at each call; `OpenAgain` finds it decided. `Pause`, `Resume` and `TickResumes` carry
`provider_resume_pending` against an audio session that the application may lose.

### OnsRuntime
One Runtime follows another; queue, published frame and media are the process-wide variables of the
code and are *not* reset between them unless the code resets them. `hostCall` is the call in progress (its
non-idle values for routed calls hold the dispatcher's registry), `script` the interpreter's thread. A
movie holds `media_mutex` and calls the dispatcher's media functions, so it waits for the registry while
the host's `tick`, `pause` and `resume` want `media_mutex`: they try-lock it. The script is external: it
waits for events, flushes, plays movies and ends in any order. A wait of no time takes the key releases out of the
queue one by one (`DrainReleases`), between which the host may push more.

### LegacyEngine, LegacyFrames
One host thread makes every API call; it holds the registry's mutex across a call but for two joins, so that a call
which runs no script is one step, and the others (`call`) go on step by step. `job[t]` is where thread t — a
startup worker, or the host itself — stands in `OpenGameCore`: launch, read of the surface size, host loop. `sink` is a
decoder thread in the log sink: it picks its handle under the registry and writes to it afterwards. `LegacyFrames` has the three counters a
frame's serial may come from, and what capture, read and resize do to its pixels. What AetherRuntimePlayer keeps to is
`Disciplined`: one session at a time, no opening during a startup, media closed before their engine.

### GpuQueue
Every section of code under `g_gpu_op_queue_mutex` is a step. A caller's operation enters `queue`, posts a callback or not
(`scheduled`), and may wait; the render thread takes a callback and drains until the queue is empty, a batch's gate,
its cutoff or the operation a forced drain was asked for. `build` chooses among the configurations the code is compiled
for: whether a caller is the render thread, and whether its drain is deferred. An operation is what it samples and writes; a surface
goes from none to live, staging, pooled and back.

### GpuBarriers
A batch is encoded draw by draw. Beside the code's lists (`live`, `nonlive`, and the planner's) the model keeps `epoch`,
the dispatches since the last barrier with what they truly sample and write, and the properties compare the two. `tracking` is
what `NonLiveGpuHazardTrackingSafe` says of a segment: true by default, and false where a surface is imported.

### FramePresenter
The loop is tick, update, draw: the engine draws, redraws or not; `Update` is `update_source_frame_texture` with all its
returns; the copy (`op`) runs on the render thread, at once (`inline`) or later, and may fail. A picture is the number of its tick.

### RuntimePlayer, StandaloneMedia
Everything runs on the main thread; the runtime, the decoder, the user and the shell act between two ticks. `waiting` counts the
answers the game that runs waits for, `stray` records one that it did not, `left` what was still open when it began: the shell may destroy an
engine with a dialog, a movie or a handler of its own open, and the player node keeps them. `raw` is what the player believes
of the engine's output option, `output` what it is. `media` is one handle, played by the runtime's movies and the library's videos in turn.

### RuntimeTiming
Time is counted in whole units. `host` is the time passed in, `given` what the engine was ticked for, `millis` the milliseconds it was told;
`limiter` is the frame limit's deadline with the frames it let through. A player of music is the number of its load, and begins at full volume (`Full`).

### SiglusRuntime
A provider call holds `g_mutex` from its first step to its last (`call`); the pump thread, started and joined by calls, runs
beside it (`pump`). `frame` has the serials and whose pixels were read back, `ring` the targets shared with the host; `ReadFrame` and `GetTexture` give the host one
or the other. `seen`, `opens` and `frame.first` are histories: what the host got, whose cursor is whose, and how many frames earlier games drew.

## 3. Runs

| Run | Question | Bounds |
|---|---|---|
| `dispatch` | memory safety, players in charge, truthful startup state, refinement of `EngineLifecycle`, every call and destroy returns | two hosts, one handle, one player |
| `reports` | lines in order and shown, requests served or dropped for newer, failures noticed; barriers of a batch of draws, and a sound planner | a queue of 2 requests, 3 requests made, one line of the runtime and the worker's own; batches of 3 draws, over a surface of two columns, one of one column, an imported one |
| `provider` | best provider, settings reach the runtime, pause; Siglus: pump on its device and obedient, host in step, each game's own pictures from its first frame on; click gate: bounded, counter true, gestures whole | 3 providers of two priorities, 2 options of 2 values, one size; two surface sizes, 2 frames, 3 openings; two pointers, 2 gestures, 5 events |
| `ons` | no lock cycle, every call returns, no QUIT lost, no leftovers | queue of 2, four kinds of input |
| `gpu` | GPU operations: order of conflicting ones, nothing stranded, surfaces accounted for | two callers, two surfaces, 2 operations, 2 batches, a pool of one |
| `legacy` | one runtime of one live handle, memory safety, truthful state and frames, every call returns | two handles, two startup threads, one size, two pictures |
| `frames` | ring, caches and the last picture; clocks agree, music in hand | two pictures, one failed copy, a GPU and the CPU renderer; 14 units of time in deltas of 1, 3 and 7, a millisecond of 4, a frame of 5, an interval of 3, two tracks, silence and full volume, three loads |
| `player` | requests answered once, strays only of what was left open, beliefs true | two engines, 2 requests or videos, 2 pictures or 2 settings, one failure |
| `draw_order` | *violated*: draws strictly ordered by barriers | as `reports`, batches of 2 draws |
| `gpu_teardown` | *violated*: the pool stays empty once torn down, in every build | as `gpu` |
| `player_answers` | *violated*: a game gets only answers to its own requests | as `player`, no failures |
| `siglus_frames` | *violated*: a game shows no picture of an earlier one | as `provider`, 3 frames |

Three runs check models that share no variable: a behaviour of such a run is of one of them and leaves the others in an initial state, from which
fairness asks nothing of them (`...Rests` in the MC module). They explore the states of each model, not their product.

Why these bounds are enough to be of interest. *Dispatcher*: two host threads suffice for a destroyer and a victim, and
the worker and the runtime's thread come on top; its one handle and one player are freed and reused, so that stale values
of both are used; two handles share nothing but the registry and the media table, and their memory safety is proved for
every number. *Reports*: a line is short, exactly fills the buffer with its newline, or never fits. The
request queue of 256 and the service limit of 256 shrink to 2 and 2: only full, empty and the relation of the two
matter. *Gate*: `MaxGestures` and `MaxQueued` are the code's limits made small; a queue of 5 holds two whole gestures and a move. *ONScripter*: of
256 host events a model of 2 keeps fullness, the first move that is evicted and the oldest event; TLC needs
no count of games because frames and leftovers are labelled as of this or an earlier one.
*Providers*: three are a draw in score and priority, a draw in score alone, and a winner; `Scores` covers refusal and two different claims.
*GPU queue*: two callers are the one that holds a batch and the one that waits, two operations a conflict and its victim, and `MCGpuQueue` gives each
caller the kinds that meet (`Work`); a pool of one is full and empty. *Barriers*: three draws are a write, a barrier's cause and what comes after it; widths 2 and 1 give
rectangles that overlap, touch and are equal. *KiriKiri*: two handles are one that plays and one that fails or is destroyed, two workers a stale and a new one;
`Alone` and `MayBegin` show pictures only while one handle is there and create others only before the first picture, since frames belong to
the handle in charge; `MaySetTarget` attaches a render target before the first picture, as the player does. `MaxSerial` of two is a
picture and its successor. *Presentation*: two pictures fill the ring and a third state is the blank slot. *Player*: `Apart` splits behaviours into those
that change settings and those that show pictures, between which no step reads the other's variables. *Timing*: 1, 3 and 7 are less than a frame, most of one and more
than one, and no two units divide each other; the clocks are proved for every value. *Siglus*: two frames are one lost and its
successor, or one of each of two games, three openings a game, a failure and one after it.

Deadlock is checked in every run but three: in `reports` the shell stops after a failure, in `player` and `provider` everything
may end after the last game with nothing left open.

### Fairness
* `EngineDispatch`: strong fairness per thread of the steps *inside* a call: a mutex freed again and
  again is eventually obtained by each waiter, provider functions return, and a runtime's thread
  notices it is being stopped. Nothing makes a host start a call.
* `RuntimeReports`: the shell's frame runs, is not paused for ever, and its intervals elapse
  (`LOG_DRAIN_INTERVAL`, `STARTUP_POLL_INTERVAL`); `open_game` returns.
* `ProviderSession`: an application in the foreground gets its audio session at some time, and its
  runtime is ticked frame after frame.
* `OnsRuntime`: weak fairness of the host's call, the worker and the interpreter's own steps; strong
  fairness of `WaitEvent`, because a script waits for events again and again, which is how it learns of a
  shutdown. A movie that loops for ever is still stopped: it polls the queue (`PollMovieEvents`).
* `LegacyEngine`: weak fairness of a call that goes on (`HostGoesOn`) and of the decoder's line, strong fairness of workers and of the two joins, which
  want a mutex that others take and free again. `engine_destroy` joins the decoders; `JoinDecoder` is strongly fair because a decoder being joined does not begin a new line for ever.
* `FramePresenter`: the shell's loop updates and draws, frames are drawn and the engine redraws again and again, the render thread runs what is queued. Nothing makes a copy succeed.
* `RuntimePlayer`: the shell ticks; a movie ends; user and shell answer. Strong, because a paused application or an open video interrupts each.
* `SiglusRuntime`: the pump thread runs, and so does a call once it has begun.
* `GpuQueue`, `GpuBarriers`, `RuntimeTiming`, `PrimaryClickInput` need none: their properties are safety properties, `NothingStranded`
  included, which says that a queued operation always has somebody who will come for it.

## 4. Where the code disagrees with itself

Four runs expect a violation: each states what a comment or a header of the repository says, and TLC shows how the code departs from it
(items 7 to 10). The rest was met while modelling. The other properties state what does hold, and leave out exactly these cases by a named condition.

1. *Reopening* (`engine_api_dispatch.cpp:1199`): a handle that has once opened asynchronously is refused for ever with "an asynchronous
   startup task must finish before reopening"; `joinable()` stays true once the task has finished.
2. *Startup diagnostic* (`engine_api_dispatch.cpp:1335`): the shell drains logs before it polls; a successful drain clears the diagnostic
   of a startup that has just failed, which the shell then reads as empty. `FailureNoticed` speaks of the failure, not of its text.
3. *Overflowing input* (`krkr2_legacy_engine_api.cpp:3866`): a queue full of moves evicts a press and replays its release alone, though the
   gate promises complete gestures (`evicted` in `WholeUnlessLost`).
4. *Surface replay* (`engine_api_dispatch.cpp:685`): an opening that stops at a refused option has decided the backend, and the next
   opening skips the replay of surface size and remaining options (`SettingsReachRuntime` excepts a replay cut short).
5. *Ctrl* (`onscripter_runtime.cpp:131`): the drain of key releases meant to keep Ctrl from latching takes a release ahead of
   its own press, and latches it.
6. *Surface size* (`krkr2_legacy_engine_api.cpp:1185`): read without the handle's lock, so that a size set meanwhile is overwritten (`ReadSurface`, `StartHostEngineLoop`).
7. *Blends* (`aether_runtime_player.cpp:6248`; `draw_order`): the segment loop tracks hazards by default (`NonLiveGpuHazardTrackingSafe`, 1890-1909), and
   its lists hold only what was written, so that a draw over what the blend before it samples gets no barrier. The comment at 1808-1816 asks for strict order
   by default for just this dependency, but guards only `ExecuteGodotGpuBlendBatch`, which the drain does not call. Likewise triangles (8101),
   whose `src_pos` holds an extent and not where they sample, and masks drawn in the compute segment that uses them (6046). `DrawsStrictlyOrdered` has these as three
   conjuncts, each of which fails by itself; `EpochOrdered` says what the lists do keep.
8. *Pool* (`aether_runtime_player.cpp:268`; `gpu_teardown`): a surface released while another thread tears down passes the check of the pool, and joins it after it
   was emptied. It takes a build that defers its drains and a render thread of its own (`PoolStaysEmpty` holds in all others).
9. *Answers of an earlier game* (`aether_runtime_player.cpp:9339`; `player_answers`): `destroy_engine` closes the media, but neither the text dialog nor the flags of
   the movie, and the shell destroys engines with them open (going back, an exit of the runtime, closing the window); its own handlers go on, too. A skip or a
   reply then reaches the next game. `AnswersExpected` bounds it to the kinds that were `left` open.
10. *Siglus frames* (`siglus_runtime_provider.cpp:274`; `siglus_frames`): an opening keeps the pixels and serials of the game before it, which can be read until the new
   game draws. From then on its pictures are its own (`OwnFrame`).
11. *Blank slot* (`aether_runtime_player.cpp:12384`): with copies run on the render thread a refused copy shows the slot there is, also before any was written (`Blank`).
12. *Live2D alpha* (`aether_runtime_player.cpp:5155`): a target drawn in two passes of a drain is converted to straight alpha twice.
13. *Frames* (`krkr2_legacy_engine_api.cpp:2816`, `2851`): the first picture after a fallback frame may go unreported, and serials of
   two counters collide when the render target is switched (`FramesTruthful` leaves both out).
14. *Startup thread* (`krkr2_legacy_engine_api.cpp:2401`): a thread that cannot be created while a stale one is joinable ends the process.
15. *Videos* (`main.gd:14904`, `10275`): two lifecycle notifications in a row lose that a video was playing; one closed before its deferred
   seek stores position 0.

## 5. What is proved

A safety property that a run checks on a small instance is proved here for every value of the constants. Almost none is
inductive as it stands; each paragraph names what has to be added, and why. No safety property is left to the runs alone.

### The dispatcher (`EngineDispatchProofs`)
For every set of host threads, handles and players and every choice of operations:

* `TypeCorrect`, `MemorySafe` (no caller, worker or runtime thread uses a deleted handle), `RuntimeSafe` (calls into a runtime
  fall between its create and its destroy), and both as the run checks them, `NothingFreedIsUsed == Spec => []NothingUsedAfterFree`;
* `StartupTold == Spec => []StartupTruthful`; `PlayersAccounted == Spec => []PlayersInCharge`;
* `PromiseKept == Spec => KeepsPromise`: the dispatcher implements `EngineLifecycle`, step by step.

`TypeOK` alone is not inductive: a step that writes to a handle's fields is typed only if its thread has validated the handle. `IInv` joins

* `CallsValidated` — a caller past validation holds the registry's mutex, so its handle stays registered;
* `registered \subseteq allocated`;
* `DestroyersOwn` — a destroyer has taken its handle out of the registry, alone, and has not deleted it;
* `WorkersJoined` — a worker's `std::thread` is in the handle, or in the destroyer joining it, so a destroyer past `Join` has no worker left;
* `RuntimesDestroyed`, `RuntimesCreated` — a runtime's thread lives inside the runtime's life, a runtime that exists belongs to a
  registered handle or to a destroyer that has not got past `stopping`, and whoever calls into a runtime finds it created.

The argument for the deletion: at `Delete` the handle is not registered, so no caller is past validation on it; the worker was
joined; the runtime, and with it its thread, is gone. `Type*` lemmas come first, then `Owned*` lemmas, group by group over
the actions; `QuietStep` disposes of actions that touch nothing the ownership part speaks of.

`JInv` adds to it, for the other three theorems, `Openings` (who has passed the check of the startup thread keeps the registry,
hence nobody else starts one: `OpenersAlone`; the state is RUNNING exactly while an opening is: `StatesTold`), `MediaCalls` (a media
call past validation has the owner of its player) and `Players` (public players, players of a provider and those in the hands of
a destroyer are apart, exist, have a backend to free them, and there are no others: `Accounted`). The refinement needs it all: that
a handle is *absent* after `Delete` is `EngineLifecycle`'s own precondition that it holds nothing. Most steps are `Calm` and stutter.

### The KiriKiri backend (`LegacyEngineProofs`)
For every number of handles, startup threads, sizes and pictures, with `Disciplined` as the hypothesis of the theorems: `MemorySafety`
(`HandleMemorySafe`), `RuntimeOwnership` (`RuntimeIntact`), `StartupTruth` (`StartupTruthful`) and `FramesTruth` (`FramesTruthful`).
`Disciplined` is the run's value, too: it says of the host what AetherRuntimePlayer does, one session at a time. The code takes that for granted: two
handles opened together share one runtime. `Lifecycle` adds `DyingIsDestroyed`, `OwnersLive`, `OneStarted`, `CleanupIsOfTheSession`, `JobsHeld` (a startup
thread works for a handle the registry holds and whose startup is running, or for the one a destroy is joining it for; and what it has
set up so far is that handle's) and `SinkHeld` (a decoder writes to a handle with a session, or to one whose cleanup joins the decoder
first). `Pictured` is about frames: `FramesAreOfTheRuntime`, `LayerSound` and `PicturesTold`, which says what the next tick will compare
its picture with before and after the caller has asked.

### Frame presentation (`FramePresenterProofs`)
For any number of pictures and failed copies, `RingShownSafely == Spec => []RingSafe` and `CacheShownTruly == Spec => []CacheCurrent`. Of the ring, `SlotsApart`
(a copy never goes to the current slot), `OfTheScene` (slots hold pictures of the scene) and `InOrder` (current is no older than what was drawn, pending no
older than current) are stated over a ring value, so that each function of the code that turns a ring into another has one lemma.
`CacheInv` adds that while frames are paced no held serial stands in for the cached one.

### Barriers (`GpuProofs`)
For surfaces of any width and batches of any length, `TrackedWritesOrdered == Spec => []EpochOrdered` and `PlannerMissesNone == Spec => []PlannerSound`. The first is
about writes that meet and about blends that sample what was written; reads that are overwritten, and what triangles and masked drawables sample, are not kept apart (section 4, item 7).
`Listed` relates the code's two lists to the epoch: a dispatch since the last barrier is in the list of its kind, and one that is not
tracked is alone. From it follow `Ordered` and `OneKind`; `OnePass` is its counterpart in a raster segment. `Recorded` and `Predicted` say the same of the planner.

### The GPU queue (`GpuProofs`)
For every set of callers and surfaces, every choice of what they draw, every bound and size of the pool, and every build: `NoneStranded` (`NothingStranded`), `QueueInTurn`
(`RunsInTurn`), `OwnWorkIsDone` (`OwnWorkDone`), `SurfacesAreAccounted` (`SurfacesAccounted`). The argument has two halves.

*The queue* (`QueueInv`) is about operations as numbers in a line. `InLine`: what a drain holds was submitted before what it runs, and that before what is queued. `Tokens`:
batches are numbered, an operation's number is not used again, and of the open batch only what `split` covers has left the queue. `Cutoffs` is the heart:
a forced drain, posted or running, is for an operation that waits in the queue, or comes too late for it; that is why a delayed callback cannot open a later batch. `Scheduled`
and `Covered` say that `g_gpu_op_drain_scheduled` is never set without a drain to come, nor clear with something queued that nobody will come for. `NothingStranded` and both
halves of `RunsInTurn` follow from it.

*The surfaces* (`SurfaceInv`) add what the operations name. `Named`: a surface is live and its caller's own, or about to be released, while an operation names it.
`ReleasesLast`: it has one release queued, after all else that names it. `TornDown` follows the teardown's phases
in every build, and says of each what can still be imported or pooled (`ClosedIsClean` names the two leftovers). `OwnQueued` says of a render
thread that runs its work at once what it may still have queued. All that a step may do to a surface is stated once (`RecordsStep`), with one lemma that says it keeps
the record (`RecordsKept`) and one each for submitting and running an operation (`AccountSubmit`, `AccountRun`), so that an action's own proof only says which of these it is.

### The click gate (`PrimaryClickInputProofs`)
For every set of pointers and every capacity of gate and queue: `TypeCorrect`, `Bounded` (`GateBounded`), `CountIsTrue` (`CountsReleases`), `GesturesAreWhole` (`WholeUnlessLost`).
`IInv` adds `TicksHaveEvents`: a tick that goes on replaying has an event left, or the queue's type would be lost at its `Tail`. The heart of `Bounded` is
that an event that enters, an eviction included, raises no counter by more than its own gesture, and that a press is held only with
room for its release. What is counted is stated as the cardinality of a set of positions, and wholeness by the last edge before
a position, so that `Append` and `Tail` need a bijection and no induction.

### Provider session and reports (`SessionProofs`)
For every set of providers, scores, options, values and sizes:

* `StaysPaused` (`PausedStaysPaused`), from `HeldOnlyIfWanted`: a resume is held for the audio session only while the host wants its runtime to run;
* `ResumedOnlyActive == Spec => ResumesOnlyActive`, an action property, directly over the actions;
* `SettingsReach` (`SettingsReachRuntime`), from `SettingsTyped`: options are functions of their keys, so
  that replaying the recorded ones gives all of them, and a runtime exists exactly from the selection on;
* `BestIsSelected` (`SelectionIsBest`): the loop over the registry (`Selected`, a recursive function) ends with a provider that no other beats,
  because `Beats` is a total order on providers registered once.

For every set of line lengths, buffer and capacity, `QueuesAreFaithful == ReportsSpec => []QueuesFaithful`. `LinesKept` numbers the lines across what was shown and what is
queued; `RequestsKept` says that the queue is the latest requests, those taken are older, and what is in neither has `MaxRequests` newer ones.
`DrainFits` shows that the drain's loop has an answer (some number of lines fits and the next does not).

### The player (`PlayerProofs`)
Timing: for every unit of time, frame, interval and set of deltas, and any number of loads: `ClocksAgreeAlways` (`ClocksAgree`) and `MusicStaysInHand` (`MusicInHand`). Statements with `\div` and `%` are not
inductive in this form: `FramesPassed` names the quotient (the host's time is some number of whole frames and the phase, and no more ticks than frames), `DeadlineKept`
says that intervals rendered and the age of the deadline make up the time elapsed, at most, and exactly while ticks are steady. `Rounds` gives the run's statements back
by `Quotient`, `QuotientUnique` and `QuotientLeast`. `MusicInv` adds that the player in the slot is an earlier load, so that a new one is none of the old.

Requests, movies and videos: for any number of engines, requests, refused options, settings and pictures, `AnswersAreExpected` (`AnswersExpected`) and
`BeliefsAreTrue` (`BeliefsHold`), with no hypothesis on how the shell closes its games: what an earlier game left open is in `left`, and of every other kind `OnceEach` relates the
queue of requests, the dialog, the movie and what the shell still has to answer to what the runtime waits for: a request it waits for is in exactly one of these places. `NothingAsked` adds that nobody waits without an engine, or while a video is open, so that the movie's and the video's use of the one
media handle are apart; `VideoKept` relates the serials of the last poll, of the texture and of the handle, by which a picture that was not yet fetched is told.
`OptionIsBelieved` is `BelievedRaw` alone: of how games are closed the option is independent.

### Siglus and ONScripter (`RuntimeProofs`)
For every set of sizes and any number of frames and openings of Siglus: `TypeCorrect`, `PumpStaysOnDevice` (`PumpOnDevice`, which says at `start` that no pump is left: a thread
is joined before one begins) and `StaysInStep` (`HostInStep`, from `DeliveredSeen`: what the provider counts as delivered is what the host has got, and the pixels and the target that it can
get are of no frame older than the game's first, once it has drawn).

For every capacity of ONScripter's queue, kinds of input and number of Runtimes: `EndsAreReported == OnsSpec => []EndIsReported` and `RuntimesLeaveNothing == OnsSpec => []NothingLeft`. `OnsInv` adds
`GoneIsQuiet` (no Runtime, nothing goes on), `StoppedFirst` (shutdown has asked the interpreter to stop and closes only once it was joined), `QuitIsForTheStopped` and `SurfaceOfTheGame`
(a stale picture is published only while no interpreter runs). That a full queue evicts and a poll removes an element without losing its type is `FirstPosition` and its like.

### Assumptions
The theorems rest on the `ASSUME`s of the modelled modules, which TLC evaluates in their runs, and on nothing else but `Disciplined` above.

### Induction over data
The library's induction theorems cannot be used, for they take an operator as a parameter. What a recursive function computes (`Selected`, the totals of a drain) is proved by the least
counterexample instead: a non-empty set of naturals has a least element (`LeastNumber`, from the well-foundedness of `<`), and the one before it is none. For this `Bytes` and `Selected` are
recursive functions and not folds, and case distinctions that overlap in the code's order are nested `IF`s.

### Only model-checked
Every liveness property, and whatever speaks of `ENABLED`: `CallsReturn` (three runs), `Served`, `FailureNoticed`, `HeldResumeEnds`, `LastPictureShown`, `EveryRequestAnswered`, `PumpObeys`.

## 6. Assumptions of the models, and what is left out

* A provider implements `set_option`, `set_surface_size`, `pause` and `resume`, and makes no callback
  from its `create`.
* The legacy backend's `media_destroy` always frees the player.
* Input is sent by the application's one thread (`PrimaryClickInput`); its calls into the backend are
  serialised by the dispatcher. So are all calls of the KiriKiri and the Siglus provider.
* ONScripter's upstream exits during its startup only with an error code: `OpenGame` waits for
  Succeeded or Failed and would wait for ever after an exit with code 0. The wait of no time
  (`ZeroWait`) is that of the iOS build.
* `Runtime::media_*` of the ONScripter runtime has no caller in the repository and is left out.
* The shell keeps to `Disciplined`. `RuntimePlayer` lets it open a game also while a text dialog of an earlier one is open, more than a user can do.
* A tick of Siglus that fails is left out: the shell ticks that game no more.
* The quantizer's saturation at 2^32 milliseconds, seven weeks in one tick, is left out.
* In `GpuQueue` two leftovers are excepted from `ClosedIsClean`, each of one kind of build (an import whose caller has given up, a surface
  pooled too late), and operations of the render thread queued behind another's batch from its own order (`Overtakable`).
* Texts, geometry, pixels, encodings, wording of errors, statistics, diagnostics switches, save
  storage, system lists and text translation are data that no property tells apart.

Not modelled: the script worlds, renderers and interpreters of KiriKiri, ONScripter, Siglus and RFVP are git submodules
whose directories are empty, or libraries elsewhere; they appear only as what the code does with their answers. The RFVP
provider only forwards. The stub API is sequential and its answers are constant. User interface (library, dialogs, virtual
controls), downloads, crash capture, JNI and the frame effect keep their state in files, widgets or drivers. Sound
effects and voices are slots without fades, one assignment each.

## 7. Plan

The components with logic of their own are modelled, and every safety property that a run checks is proved. What is left:

1. Lemmas that several proof modules state for themselves (least number, first position, totals) in one place.

## 8. Running

```
cd tla
tlc -workers 2 -config EngineDispatch.cfg MCEngineDispatch    # the other runs: PROJECT.json names cfg and module
tlapm EngineDispatchProofs.tla                                # likewise the other *Proofs modules
```
