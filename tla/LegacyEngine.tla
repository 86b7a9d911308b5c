---------------------------- MODULE LegacyEngine ----------------------------
(***************************************************************************)
(* The KiriKiri backend behind the engine API                              *)
(* (bridge/krkr2_runtime/src/krkr2_legacy_engine_api.cpp): handles, the    *)
(* one script runtime of the process, its startup on a worker thread or on *)
(* the caller's, its ticks and their frames (LegacyFrames), its teardown,  *)
(* and the log sink that any thread of the runtime may enter.              *)
(*                                                                         *)
(* Every API call comes from one host thread and holds g_registry_mutex    *)
(* from its first check to its return, engine_destroy's join and cleanup   *)
(* and engine_open_game_async's join excepted.  A call that runs no script *)
(* and waits for nobody is one step.  The script world, its renderer       *)
(* switches and its decoder threads are outside src/ and modelled by what  *)
(* this file does with them.                                               *)
(***************************************************************************)
EXTENDS LegacyFrames, FiniteSets

CONSTANTS
  Handles,     \* addresses an engine_handle_s may have
  Workers,     \* startup threads
  Sizes,       \* surface sizes
  Nobody,      \* null: no handle, no thread
  Host,        \* the thread of every API call
  Disciplined  \* whether the host keeps to what is said below (MayOpen)

ASSUME LegacyEngineAssumption ==
  /\ Nobody \notin Handles \cup Workers
  /\ Host \notin Workers
  /\ Sizes # {}
  /\ Disciplined \in BOOLEAN

VARIABLES
  handle,   \* engine_handle_s: freed, created, opened, paused, dying
  startup,  \* startup.state: idle, running, succeeded, failed
  worker,   \* startup.worker: the joinable thread, or Nobody
  gpu,      \* render.renderer asks for the GPU path
  size,     \* frame.surface_width and surface_height
  runtime,  \* g_runtime_owner, Nobody when g_runtime_active is false
  starting, \* g_runtime_startup_owner, Nobody when not g_runtime_startup_active
  once,     \* g_runtime_started_once
  world,    \* external: whose script world is up
  fast,     \* external: the GPU fast path of the render manager
  hostSize, \* external: the presentation size
  terminated, \* TVPTerminated
  job,      \* OpenGameCore: where each thread is in it
  call,     \* the API call in progress
  sink,     \* a decoder thread in the log sink
  media,    \* owner of the open media handle, or Nobody
  frame,    \* engine_handle_s::frame of the handle in charge
  target,   \* render.native_window_attached, render.iosurface_attached
  layer,    \* external: the host window layer
  published, \* history: the picture the last tick published
  told      \* history: the last one a tick reported as rendered, or Fallback

registryVars == <<runtime, starting, once>>
handleVars == <<handle, startup, worker, gpu, size>>
worldVars == <<world, fast, hostSize, terminated>>
threadVars == <<job, call, sink>>
frameVars == <<frame, target, published, told>>
shown == <<frameVars, layer>>
vars == <<registryVars, handleVars, worldVars, threadVars, media, shown>>

Threads == Workers \cup {Host}

Live(h) == handle[h] \in {"created", "opened", "paused"}

Away == [at |-> "gone", of |-> Nobody, gpu |-> FALSE, size |-> CHOOSE s \in Sizes : TRUE]

Quiet == [at |-> "idle", of |-> Nobody, who |-> Nobody, clean |-> FALSE]

Silent == [at |-> "idle", target |-> Nobody]

\* The registry is held by the host across a synchronous start and a tick;
\* it is recursive.
CanLock(t) == t = Host \/ call.at \notin {"open", "run", "join decoder"}

Starting(h) == \E t \in Threads : job[t].at # "gone" /\ job[t].of = h

----------------------------------------------------------------------------
(* What AetherRuntimePlayer and its shell keep to: a second handle opens    *)
(* nothing while another one has a session, nothing is opened before the    *)
(* last start has reported, the renderer is chosen outside of startups and  *)
(* by the handle in charge, and the media handle is closed before its       *)
(* engine.                                                                  *)

MayOpen(h) ==
  Disciplined => /\ startup[h] # "running"
                 /\ \A g \in Handles \ {h} : startup[g] = "idle"

MaySetRenderer(h) ==
  Disciplined => /\ \A g \in Handles : ~Starting(g)
                 /\ runtime \in {Nobody, h}

MayDestroy(h) == Disciplined => media # h

\* A render target is attached before the first picture, or not at all.
MaySetTarget == Disciplined => frame.serial = 0 /\ layer.composed = 0

\* Bound: pictures are composed while there is one handle and no media, which
\* no frame depends on.
Alone == media = Nobody /\ \A h \in Handles : handle[h] = "freed" \/ runtime = h
MayBegin == layer.composed = 0 /\ frame.serial = 0 /\ target = "pbuffer"

----------------------------------------------------------------------------
Init ==
  /\ handle = [h \in Handles |-> "freed"]
  /\ startup = [h \in Handles |-> "idle"]
  /\ worker = [h \in Handles |-> Nobody]
  /\ gpu = [h \in Handles |-> TRUE]
  /\ size = [h \in Handles |-> CHOOSE s \in Sizes : TRUE]
  /\ runtime = Nobody /\ starting = Nobody /\ once = FALSE
  /\ world = Nobody /\ fast = FALSE /\ terminated = FALSE
  /\ hostSize = CHOOSE s \in Sizes : TRUE
  /\ job = [t \in Threads |-> Away]
  /\ call = Quiet
  /\ sink = Silent
  /\ media = Nobody
  /\ frame = NoFrame /\ target = "pbuffer" /\ layer = NoHost
  /\ published = NoPicture /\ told = NoPicture

----------------------------------------------------------------------------
(* Calls of the host. *)

\* A freed handle has the fields of a new one.
engine_create(h) ==
  /\ call.at = "idle" /\ handle[h] = "freed" /\ MayBegin
  /\ handle' = [handle EXCEPT ![h] = "created"]
  /\ UNCHANGED <<registryVars, startup, worker, gpu, size, worldVars, threadVars,
                 media, shown>>

NeedsSessionCleanup(h) ==
  \/ runtime = h
  \/ starting = h
  \/ startup[h] # "idle"

\* engine_destroy up to the end of the registry block.
engine_destroy(h) ==
  /\ call.at = "idle" /\ Live(h) /\ MayDestroy(h)
  /\ call' = [at |-> "join", of |-> h, who |-> worker[h], clean |-> NeedsSessionCleanup(h)]
  /\ runtime' = IF runtime = h THEN Nobody ELSE runtime
  /\ starting' = IF starting = h THEN Nobody ELSE starting
  /\ worker' = [worker EXCEPT ![h] = Nobody]
  /\ startup' = [startup EXCEPT ![h] = "idle"]
  /\ handle' = [handle EXCEPT ![h] = "dying"]
  /\ IF runtime = h
     THEN /\ frame' = NoFrame /\ target' = "pbuffer"
          /\ published' = NoPicture /\ told' = NoPicture
     ELSE UNCHANGED frameVars
  /\ UNCHANGED <<gpu, size, once, worldVars, job, sink, media, layer>>

Ended_Mutant(w) == TRUE

Ended(w) == w # Nobody => job[w].at = "gone"

JoinStartupWorker ==
  /\ call.at = "join" /\ Ended(call.who)
  /\ call' = [call EXCEPT !.at = IF call.clean THEN "cleanup" ELSE "delete"]
  /\ UNCHANGED <<registryVars, handleVars, worldVars, job, sink, media, shown>>

\* The session cleanup: decoders and loaders are joined first, then the
\* script world goes, whoever owns it.
Cleanup_Mutant ==
  /\ call.at = "cleanup" /\ sink = Silent
  /\ world' = Nobody /\ layer' = NoHost /\ terminated' = FALSE
  /\ call' = [call EXCEPT !.at = "delete"]
  /\ UNCHANGED <<registryVars, handleVars, fast, hostSize, job, sink, media, frameVars>>

Cleanup ==
  /\ call.at = "cleanup" /\ sink = Silent
  /\ world' = Nobody /\ layer' = NoHost /\ terminated' = FALSE /\ once' = FALSE
  /\ call' = [call EXCEPT !.at = "delete"]
  /\ UNCHANGED <<runtime, starting, handleVars, fast, hostSize, job, sink, media, frameVars>>

Delete ==
  /\ call.at = "delete"
  /\ handle' = [handle EXCEPT ![call.of] = "freed"]
  /\ gpu' = [gpu EXCEPT ![call.of] = TRUE]
  /\ size' = [size EXCEPT ![call.of] = CHOOSE s \in Sizes : TRUE]
  /\ startup' = [startup EXCEPT ![call.of] = "idle"]
  /\ call' = Quiet
  /\ UNCHANGED <<registryVars, worker, worldVars, job, sink, media, shown>>

\* The refusals shared by both ways of opening.
MayStart(h) == starting # h /\ runtime = Nobody /\ ~once

engine_open_game(h) ==
  /\ call.at = "idle" /\ Live(h) /\ MayOpen(h)
  /\ \/ /\ starting # h /\ runtime = h
        /\ handle' = [handle EXCEPT ![h] = "opened"]
        /\ UNCHANGED <<registryVars, startup, terminated, call, job>>
     \/ /\ MayStart(h)
        /\ starting' = h /\ terminated' = FALSE
        /\ startup' = [startup EXCEPT ![h] = "running"]
        /\ job' = [job EXCEPT ![Host] = [Away EXCEPT !.at = "init", !.of = h]]
        /\ call' = [Quiet EXCEPT !.at = "open", !.of = h]
        /\ UNCHANGED <<runtime, once, handle>>
  /\ UNCHANGED <<worker, gpu, size, world, fast, hostSize, sink, media, shown>>

\* The threads are alike: any free one does.
FreeWorkers ==
  {w \in Workers : job[w].at = "gone" /\ \A g \in Handles : worker[g] # w}

\* The thread may fail to start.  (With a stale worker still to be joined, that
\* failure destroys a joinable std::thread and ends the process.)
engine_open_game_async(h) ==
  /\ call.at = "idle" /\ Live(h) /\ MayOpen(h)
  /\ \/ /\ starting # h /\ runtime = h
        /\ startup' = [startup EXCEPT ![h] = "succeeded"]
        /\ UNCHANGED <<starting, worker, job, call>>
     \/ /\ MayStart(h) /\ worker[h] = Nobody
        /\ startup' = [startup EXCEPT ![h] = "failed"]
        /\ UNCHANGED <<starting, worker, job, call>>
     \/ /\ MayStart(h)
        /\ FreeWorkers # {}
        /\ LET w == CHOOSE w \in FreeWorkers : TRUE IN
             /\ starting' = h
             /\ startup' = [startup EXCEPT ![h] = "running"]
             /\ worker' = [worker EXCEPT ![h] = w]
             /\ job' = [job EXCEPT ![w] = [Away EXCEPT !.at = "begin", !.of = h]]
             /\ call' = [Quiet EXCEPT !.at = "join stale", !.of = h, !.who = worker[h]]
  /\ UNCHANGED <<runtime, once, handle, gpu, size, worldVars, sink, media, shown>>

JoinStaleWorker ==
  /\ call.at = "join stale" /\ Ended(call.who)
  /\ call' = Quiet
  /\ UNCHANGED <<registryVars, handleVars, worldVars, job, sink, media, shown>>

\* An Android tick attaches the window the activity has put up, or detaches the
\* one it has taken down.
NativeWindow ==
  IF target # "iosurface" /\ MaySetTarget /\ Alone THEN {"pbuffer", "window"} ELSE {target}

\* A tick is limited, and renders nothing, or runs the script world, with the
\* registry held.
engine_tick(h) ==
  /\ call.at = "idle" /\ handle[h] = "opened"
  /\ starting # h /\ runtime = h /\ ~terminated
  /\ target' \in NativeWindow
  /\ \/ /\ frame' = [frame EXCEPT !.rendered = FALSE]
        /\ call' = [Quiet EXCEPT !.at = "poll", !.of = h]
     \/ /\ target = "iosurface" => frame.serial < MaxSerial
        /\ call' = [Quiet EXCEPT !.at = "run", !.of = h]
        /\ UNCHANGED frame
  /\ UNCHANGED <<registryVars, handleVars, worldVars, job, sink, media,
                 layer, published, told>>

\* Application::Run may end the title, or stop a movie and join its decoder.
JoinMovie ==
  /\ call.at = "run"
  /\ call' = [call EXCEPT !.at = "join decoder"]
  /\ UNCHANGED <<registryVars, handleVars, worldVars, job, sink, media, shown>>

\* A tick that finds the title ended publishes nothing.
RunEnds ==
  \E new \in Compositions(layer, target, fast) :
    /\ new = layer \/ Alone
    /\ layer' = new
    /\ \/ /\ terminated' = TRUE /\ call' = Quiet
          /\ UNCHANGED <<frame, published>>
       \/ /\ frame' \in Publish(frame, new, target, gpu[call.of])
          /\ published' = Published(frame', new, target, gpu[call.of])
          /\ call' = [call EXCEPT !.at = "poll"]
          /\ UNCHANGED terminated

Run ==
  /\ call.at = "run"
  /\ RunEnds
  /\ UNCHANGED <<registryVars, handleVars, world, fast, hostSize, job, sink, media,
                 target, told>>

JoinDecoder ==
  /\ call.at = "join decoder" /\ sink = Silent
  /\ RunEnds
  /\ UNCHANGED <<registryVars, handleVars, world, fast, hostSize, job, sink, media,
                 target, told>>

\* AetherRuntimePlayer::tick asks after every tick that succeeds.
engine_get_frame_rendered_flag ==
  /\ call.at = "poll"
  /\ call' = Quiet
  /\ frame' = Polled(frame)
  /\ told' = IF ~frame.rendered THEN told
             ELSE IF published = NoPicture THEN Fallback ELSE published
  /\ UNCHANGED <<registryVars, handleVars, worldVars, job, sink, media,
                 target, layer, published>>

\* The player asks for the frames of the game it runs.
engine_get_frame_desc ==
  /\ call.at = "idle" /\ runtime # Nobody
  /\ frame' = Described(frame, layer)
  /\ UNCHANGED <<registryVars, handleVars, worldVars, threadVars, media,
                 target, layer, published, told>>

engine_read_frame_rgba ==
  /\ call.at = "idle" /\ runtime # Nobody
  /\ frame' = Read(frame, layer)
  /\ UNCHANGED <<registryVars, handleVars, worldVars, threadVars, media,
                 target, layer, published, told>>

\* An Apple build and an Android build; nothing is attached for the other.
SetRenderTarget(t) ==
  /\ call.at = "idle" /\ runtime # Nobody /\ MaySetTarget /\ Alone
  /\ target' \in {"pbuffer", t}
  /\ UNCHANGED <<registryVars, handleVars, worldVars, threadVars, media,
                 frame, layer, published, told>>

engine_set_render_target_iosurface == target # "window" /\ SetRenderTarget("iosurface")
engine_set_render_target_surface == target # "iosurface" /\ SetRenderTarget("window")

engine_pause(h) ==
  /\ call.at = "idle" /\ runtime = h /\ handle[h] = "opened"
  /\ handle' = [handle EXCEPT ![h] = "paused"]
  /\ UNCHANGED <<registryVars, startup, worker, gpu, size, worldVars, threadVars, media, shown>>

engine_resume(h) ==
  /\ call.at = "idle" /\ runtime = h /\ handle[h] = "paused"
  /\ handle' = [handle EXCEPT ![h] = "opened"]
  /\ UNCHANGED <<registryVars, startup, worker, gpu, size, worldVars, threadVars, media, shown>>

SetRenderer(h, r) ==
  /\ call.at = "idle" /\ Live(h) /\ MaySetRenderer(h)
  /\ gpu' = [gpu EXCEPT ![h] = r]
  /\ fast' = r
  /\ UNCHANGED <<registryVars, handle, startup, worker, size,
                 world, hostSize, terminated, threadVars, media, shown>>

engine_set_surface_size(h, s) ==
  /\ call.at = "idle" /\ Live(h)
  /\ size' = [size EXCEPT ![h] = s]
  /\ hostSize' = s
  /\ frame' = IF runtime = h THEN Resized(frame) ELSE frame
  /\ UNCHANGED <<registryVars, handle, startup, worker, gpu,
                 world, fast, terminated, threadVars, media,
                 target, layer, published, told>>

\* The owner is remembered as a pointer.
engine_media_open(h) ==
  /\ call.at = "idle" /\ Live(h) /\ media = Nobody /\ MayBegin
  /\ media' = h
  /\ UNCHANGED <<registryVars, handleVars, worldVars, threadVars, shown>>

engine_media_destroy ==
  /\ call.at = "idle" /\ media # Nobody
  /\ media' = Nobody
  /\ UNCHANGED <<registryVars, handleVars, worldVars, threadVars, shown>>

----------------------------------------------------------------------------
(* RunOpenGameAsync and OpenGameCore, by a worker or by the host. *)

RunOpenGameAsync(w) ==
  /\ job[w].at = "begin"
  /\ terminated' = FALSE
  /\ job' = [job EXCEPT ![w].at = "init"]
  /\ UNCHANGED <<registryVars, handleVars, world, fast, hostSize, call, sink, media, shown>>

LoadWorld(t) ==
  /\ job[t].at = "init"
  /\ \/ /\ job' = [job EXCEPT ![t].at = "clear"]
        /\ UNCHANGED <<world, fast>>
     \/ /\ job' = [job EXCEPT ![t].at = "launch", ![t].gpu = gpu[job[t].of]]
        /\ world' = job[t].of
        /\ fast' = FALSE
  /\ UNCHANGED <<registryVars, handleVars, hostSize, terminated, call, sink, media, shown>>

\* StartApplication returns, throws, or leaves the title terminated.
StartApplication(t) ==
  /\ job[t].at = "launch"
  /\ fast' = job[t].gpu
  /\ \/ job' = [job EXCEPT ![t].at = "loop"] /\ ~terminated /\ UNCHANGED terminated
     \/ job' = [job EXCEPT ![t].at = "clear"] /\ terminated' \in {terminated, TRUE}
  /\ UNCHANGED <<registryVars, handleVars, world, hostSize, call, sink, media, shown>>

\* StartHostEngineLoop reads the surface size without a lock, then hands it on.
ReadSurface(t) ==
  /\ job[t].at = "loop"
  /\ job' = [job EXCEPT ![t].at = "surface", ![t].size = size[job[t].of]]
  /\ UNCHANGED <<registryVars, handleVars, worldVars, call, sink, media, shown>>

StartHostEngineLoop(t) ==
  /\ job[t].at = "surface"
  /\ hostSize' = job[t].size
  /\ job' = [job EXCEPT ![t].at = "mark"]
  /\ UNCHANGED <<registryVars, handleVars, world, fast, terminated, call, sink, media, shown>>

\* Nothing is marked for a handle that a destroy has already unregistered.
MarkRuntimeOpenedForHost(t) ==
  LET h == job[t].of IN
  /\ job[t].at = "mark" /\ CanLock(t)
  /\ IF Live(h)
     THEN /\ starting' = IF starting = h THEN Nobody ELSE starting
          /\ runtime' = h /\ once' = TRUE
          /\ handle' = [handle EXCEPT ![h] = "opened"]
          /\ frame' = Resized(frame)
     ELSE UNCHANGED <<registryVars, handle, frame>>
  /\ job' = [job EXCEPT ![t].at = "report"]
  /\ UNCHANGED <<startup, worker, gpu, size, worldVars, call, sink, media,
                 target, layer, published, told>>

ClearRuntimeOwnerIfMatching(t) ==
  LET h == job[t].of IN
  /\ job[t].at = "clear" /\ CanLock(t)
  /\ IF Live(h) /\ runtime = h
     THEN /\ runtime' = Nobody /\ once' = FALSE
          /\ handle' = IF handle[h] = "opened" THEN [handle EXCEPT ![h] = "created"]
                       ELSE handle
     ELSE UNCHANGED <<runtime, once, handle>>
  /\ starting' = IF Live(h) /\ starting = h THEN Nobody ELSE starting
  /\ job' = [job EXCEPT ![t].at = "fail"]
  /\ UNCHANGED <<startup, worker, gpu, size, worldVars, call, sink, media, shown>>

\* The last step: the startup state, then the thread ends or the call returns.
Report_Mutant(t) ==
  /\ job[t].at \in {"report", "fail"}
  /\ startup' = [startup EXCEPT ![job[t].of] = "succeeded"]
  /\ job' = [job EXCEPT ![t] = Away]
  /\ call' = IF t = Host THEN Quiet ELSE call
  /\ UNCHANGED <<registryVars, handle, worker, gpu, size, worldVars, sink, media, shown>>

Report(t) ==
  /\ job[t].at \in {"report", "fail"}
  /\ startup' = [startup EXCEPT ![job[t].of] =
                   IF job[t].at = "report" THEN "succeeded" ELSE "failed"]
  /\ job' = [job EXCEPT ![t] = Away]
  /\ call' = IF t = Host THEN Quiet ELSE call
  /\ UNCHANGED <<registryVars, handle, worker, gpu, size, worldVars, sink, media, shown>>

OpenGameCore(t) ==
  \/ LoadWorld(t) \/ StartApplication(t) \/ ReadSurface(t) \/ StartHostEngineLoop(t)
  \/ MarkRuntimeOpenedForHost(t) \/ ClearRuntimeOwnerIfMatching(t) \/ Report(t)

----------------------------------------------------------------------------
(* PushRuntimeSpdlogToStartupQueue, on a decoder thread of the world. *)

LogLine ==
  /\ sink = Silent /\ world # Nobody
  /\ sink' = [sink EXCEPT !.at = "line"]
  /\ UNCHANGED <<registryVars, handleVars, worldVars, job, call, media, shown>>

LogTarget ==
  IF starting # Nobody THEN starting ELSE runtime

\* A line that cannot have the registry at once is dropped.
TryLock_Mutant ==
  /\ sink.at = "line" /\ CanLock(Nobody)
  /\ sink' = IF LogTarget # Nobody THEN [at |-> "push", target |-> LogTarget] ELSE Silent
  /\ UNCHANGED <<registryVars, handleVars, worldVars, job, call, media, shown>>

TryLock ==
  /\ sink.at = "line"
  /\ sink' = IF CanLock(Nobody) /\ LogTarget # Nobody /\ Live(LogTarget)
             THEN [at |-> "push", target |-> LogTarget] ELSE Silent
  /\ UNCHANGED <<registryVars, handleVars, worldVars, job, call, media, shown>>

\* The target's logs and diagnostics are written after the registry is let go.
PushStartupLog ==
  /\ sink.at = "push"
  /\ sink' = Silent
  /\ UNCHANGED <<registryVars, handleVars, worldVars, job, call, media, shown>>

----------------------------------------------------------------------------
HostCall ==
  \/ \E h \in Handles :
       \/ engine_create(h) \/ engine_destroy(h)
       \/ engine_open_game(h) \/ engine_open_game_async(h)
       \/ engine_tick(h) \/ engine_pause(h) \/ engine_resume(h)
       \/ \E r \in BOOLEAN : SetRenderer(h, r)
       \/ \E s \in Sizes : engine_set_surface_size(h, s)
       \/ engine_media_open(h)
  \/ engine_media_destroy
  \/ engine_get_frame_desc \/ engine_read_frame_rgba
  \/ engine_set_render_target_iosurface \/ engine_set_render_target_surface

HostGoesOn ==
  \/ JoinStartupWorker \/ Cleanup \/ Delete \/ JoinStaleWorker
  \/ JoinMovie \/ Run \/ JoinDecoder \/ engine_get_frame_rendered_flag
  \/ OpenGameCore(Host)

Worker(w) == RunOpenGameAsync(w) \/ OpenGameCore(w)

Sink == TryLock \/ PushStartupLog

Next == HostCall \/ HostGoesOn \/ (\E w \in Workers : Worker(w)) \/ LogLine \/ Sink

Spec == Init /\ [][Next]_vars

\* A call goes on, StartApplication ends, a mutex that is free again and
\* again is had in the end, a decoder finishes its line, and a decoder being
\* joined starts no other line for ever.
FairSpec ==
  /\ Spec
  /\ WF_vars(HostGoesOn)
  /\ SF_vars(JoinDecoder) /\ SF_vars(Cleanup)
  /\ \A w \in Workers : SF_vars(Worker(w))
  /\ WF_vars(Sink)

----------------------------------------------------------------------------

\* Nobody writes to a handle that has been deleted: neither its startup
\* thread, nor a decoder that picked it before the registry was let go, nor
\* the media handle opened on it (engine_destroy joins all before delete).
HandleMemorySafe ==
  \A h \in Handles : handle[h] = "freed" =>
    /\ ~Starting(h)
    /\ sink.target # h
    /\ media # h

\* The runtime belongs to a registered handle that is opened or paused, its
\* script world is that handle's and its GPU path the one that handle asked for,
\* and no other handle is; the path is off while a world starts; and between
\* calls the process never refuses every game for a runtime that is gone.
RuntimeIntact ==
  /\ runtime # Nobody => world = runtime /\ fast = gpu[runtime]
  /\ (\E t \in Threads : job[t].at = "launch") => ~fast
  /\ \A h \in Handles : handle[h] \in {"opened", "paused"} <=> runtime = h
  /\ once => runtime # Nobody \/ (call.at \in {"join", "cleanup"} /\ call.clean)

\* What a host that polls engine_get_startup_state relies on: succeeded means
\* that the handle has the runtime, running that a start is under way.
StartupTruthful ==
  \A h \in Handles : Live(h) =>
    /\ startup[h] = "succeeded" => runtime = h
    /\ startup[h] = "running" <=> Starting(h)
    /\ startup[h] \in {"idle", "failed"} => runtime # h

\* What the shell shows follows the engine: no picture that a tick has published
\* is newer than the last one it was told of, so a skipped update never leaves
\* one behind (engine_api.h: "1: a new frame was rendered").  Only the pictures
\* after fallback frames may be: Fallback is more than any of them.
NoPictureMissed == call.at = "idle" => published <= told

\* The pixels a frame keeps are those of its serial, by which the player caches
\* them, whatever was captured, read or resized in between.
SerialNamesPicture ==
  (target = "pbuffer" /\ frame.pic \in Pictures) => frame.pic = frame.serial

\* The frames of a game are reported and named truly.
FramesTruthful == NoPictureMissed /\ SerialNamesPicture

\* Every call returns and every asynchronous start ends: no call waits for a
\* thread that waits for the registry the call holds.
CallsReturn ==
  /\ (call.at # "idle") ~> (call.at = "idle")
  /\ \A w \in Workers : (job[w].at # "gone") ~> (job[w].at = "gone")
=============================================================================
