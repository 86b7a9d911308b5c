------------------------- MODULE LegacyEngineProofs -------------------------
(***************************************************************************)
(* Proofs about LegacyEngine, for any number of handles, startup threads,  *)
(* surface sizes and pictures, and a host that keeps to its discipline:    *)
(* the four invariants of the backend.  The first three rest on Lifecycle, *)
(* which says who holds a handle while a thread still works for it, the    *)
(* fourth on Lifecycle and Pictured, which says what a tick, and a host    *)
(* that reads between ticks, leave behind for the next tick.               *)
(***************************************************************************)
EXTENDS LegacyEngine, TLAPS

----------------------------------------------------------------------------
(* The inductive invariant of the handles and of the runtime. *)

Stages == {"gone", "begin", "init", "clear", "launch", "loop", "surface", "mark",
           "report", "fail"}

CallStages == {"idle", "open", "join", "cleanup", "delete", "join stale", "poll",
               "run", "join decoder"}

Jobs == [at : Stages, of : Handles \cup {Nobody}, gpu : BOOLEAN, size : Sizes]

Calls == [at : CallStages, of : Handles \cup {Nobody}, who : Workers \cup {Nobody},
          clean : BOOLEAN]

Sinks == [at : {"idle", "line", "push"}, target : Handles \cup {Nobody}]

TypeOK ==
  /\ handle \in [Handles -> {"freed", "created", "opened", "paused", "dying"}]
  /\ startup \in [Handles -> {"idle", "running", "succeeded", "failed"}]
  /\ worker \in [Handles -> Workers \cup {Nobody}]
  /\ gpu \in [Handles -> BOOLEAN]
  /\ size \in [Handles -> Sizes]
  /\ runtime \in Handles \cup {Nobody}
  /\ starting \in Handles \cup {Nobody}
  /\ world \in Handles \cup {Nobody}
  /\ media \in Handles \cup {Nobody}
  /\ once \in BOOLEAN /\ fast \in BOOLEAN /\ terminated \in BOOLEAN
  /\ hostSize \in Sizes
  /\ job \in [Threads -> Jobs] /\ call \in Calls /\ sink \in Sinks

Active(t) == job[t].at # "gone"

\* A destroy whose cleanup is still to come.
CleanDestroy == call.at \in {"join", "cleanup"} /\ call.clean

\* A handle is dying while the destroy that took it off the registry goes on.
DyingIsDestroyed ==
  \A h \in Handles :
    handle[h] = "dying" <=> call.at \in {"join", "cleanup", "delete"} /\ call.of = h

\* What names a handle names a registered one.
OwnersLive ==
  \A h \in Handles :
    /\ runtime = h \/ starting = h \/ media = h => Live(h)
    /\ starting = h => startup[h] # "idle"
    /\ handle[h] = "freed" => startup[h] = "idle"

\* One handle at a time has a session, and a cleanup is that one's.
OneStarted ==
  \A g, h \in Handles : startup[g] # "idle" /\ startup[h] # "idle" => g = h

CleanupIsOfTheSession ==
  /\ call.at = "cleanup" => call.clean
  /\ CleanDestroy => /\ runtime = Nobody /\ starting = Nobody
                     /\ \A g \in Handles \ {call.of} : startup[g] = "idle"

\* A startup thread works for a handle that the registry holds and whose startup
\* is running, or for the one a destroy is joining it for.
JobHeld(t) ==
  /\ job[t].of \in Handles
  /\ \/ /\ Live(job[t].of) /\ startup[job[t].of] = "running"
        /\ IF t = Host THEN call.at = "open" ELSE worker[job[t].of] = t
     \/ /\ handle[job[t].of] = "dying"
        /\ t \in Workers /\ call.at = "join" /\ call.who = t /\ call.clean

\* What a thread has set up of the runtime it starts.
JobSetUp(t) ==
  /\ job[t].at # "report" => runtime = Nobody
  /\ job[t].at = "report" /\ Live(job[t].of) => runtime = job[t].of
  /\ job[t].at \in {"launch", "loop", "surface", "mark"} => world = job[t].of
  /\ job[t].at = "launch" => ~fast /\ job[t].gpu = gpu[job[t].of]
  /\ job[t].at \in {"loop", "surface", "mark"} => fast = gpu[job[t].of]

JobsHeld ==
  /\ \A t \in Threads : Active(t) => JobHeld(t) /\ JobSetUp(t)
  /\ \A t, u \in Threads : Active(t) /\ Active(u) => t = u

\* The log sink writes to a handle with a session, or to one whose cleanup joins
\* the decoder first.
SinkHeld ==
  \A h \in Handles : sink.target = h =>
    \/ Live(h) /\ startup[h] # "idle"
    \/ CleanDestroy /\ call.of = h

Lifecycle ==
  /\ TypeOK /\ DyingIsDestroyed /\ OwnersLive /\ OneStarted
  /\ CleanupIsOfTheSession /\ JobsHeld /\ SinkHeld
  /\ RuntimeIntact /\ StartupTruthful

----------------------------------------------------------------------------
(* The inductive invariant of the frames. *)

Frames == [serial : 0..MaxSerial, ready : BOOLEAN, sized : BOOLEAN, pic : 0..Fallback,
           rendered : BOOLEAN]

Hosts == [composed : 0..MaxSerial, cpu : 0..MaxSerial, gpu : 0..MaxSerial]

Targets == {"pbuffer", "iosurface", "window"}

FrameTypeOK ==
  /\ frame \in Frames /\ target \in Targets /\ layer \in Hosts
  /\ published \in 0..MaxSerial
  /\ told \in 0..Fallback

\* No runtime, no frame; and no picture once the cleanup is done.
FramesAreOfTheRuntime ==
  /\ runtime = Nobody => /\ frame = NoFrame /\ target = "pbuffer"
                         /\ published = NoPicture /\ told = NoPicture
                         /\ CleanDestroy \/ layer = NoHost
  /\ call.at \in {"run", "join decoder", "poll"} =>
       runtime = call.of /\ runtime # Nobody /\ ~terminated

\* The GPU picture is the latest one, and a window or an IOSurface leaves none.
Sound(host, on) ==
  /\ host.cpu <= host.composed
  /\ host.gpu \in {NoPicture, host.composed}
  /\ on # "pbuffer" => host.cpu = NoPicture /\ host.gpu = NoPicture

LayerSound == Sound(layer, target)

Named(f, on) == f.pic \in Pictures => on = "pbuffer" /\ f.pic = f.serial

PixelsNamed == Named(frame, target)

\* What the next tick compares its picture with, once m has been told.
Known(m) ==
  /\ target # "iosurface" => frame.serial <= m
  /\ layer.cpu <= m

\* The tick has rendered, and its caller has not asked yet.
ToldNext == call.at = "poll" /\ frame.rendered

PicturesTold ==
  /\ call.at \in {"run", "join decoder"} /\ target = "iosurface" =>
       frame.serial < MaxSerial
  /\ ToldNext => (published # NoPicture => Known(published))
  /\ ~ToldNext => /\ published <= told
                  /\ runtime # Nobody /\ ~terminated => Known(told)

Pictured ==
  /\ FrameTypeOK /\ FramesAreOfTheRuntime /\ LayerSound /\ PixelsNamed /\ PicturesTold

----------------------------------------------------------------------------
(* The handles and the runtime. *)

\* What a free thread looks like.
LEMMA AwayTyped ==
  /\ Away \in Jobs
  /\ (CHOOSE s \in Sizes : TRUE) \in Sizes
  /\ Away.at = "gone" /\ Away.of = Nobody
<1>1. (CHOOSE s \in Sizes : TRUE) \in Sizes
  BY LegacyEngineAssumption
<1> QED
  BY <1>1 DEF Away, Jobs, Stages

\* Before the first call nothing is held.
LEMMA LifecycleInitial == Init => Lifecycle
<1> SUFFICES ASSUME Init PROVE Lifecycle
  OBVIOUS
<1>1. TypeOK
  BY AwayTyped DEF Init, TypeOK, Quiet, Silent, Jobs, Calls, Sinks, CallStages
<1>2. \A t \in Threads : ~Active(t)
  BY AwayTyped DEF Init, Active
<1>3. JobsHeld /\ SinkHeld
  BY <1>2, LegacyEngineAssumption DEF Init, JobsHeld, SinkHeld, Silent
<1>4. RuntimeIntact /\ StartupTruthful
  BY <1>2, LegacyEngineAssumption
  DEF Init, RuntimeIntact, StartupTruthful, Active, Starting, Quiet, Live
<1> QED
  BY <1>1, <1>3, <1>4, LegacyEngineAssumption
  DEF Init, Lifecycle, DyingIsDestroyed, OwnersLive, OneStarted, CleanupIsOfTheSession,
      CleanDestroy, Quiet

\* A call that takes no part in a start, a destroy or an ownership.
Busy == {"open", "join", "cleanup", "delete"}

\* A step that leaves handles, threads and owners alone preserves their
\* invariant.
LEMMA CallStep ==
  ASSUME Lifecycle, TypeOK',
         UNCHANGED <<handle, startup, worker, gpu, runtime, starting, once, world, fast,
                     job, sink>>,
         media' \in {media, Nobody},
         call' = call \/ (call.at \notin Busy /\ call'.at \notin Busy)
  PROVE  Lifecycle'
<1> USE DEF Lifecycle, Busy
<1>1. CleanDestroy' <=> CleanDestroy
  BY DEF CleanDestroy
<1>2. \A h \in Handles : Live(h)' <=> Live(h)
  BY DEF Live
<1>3. DyingIsDestroyed'
  BY DEF DyingIsDestroyed
<1>4. OwnersLive' /\ OneStarted'
  BY LegacyEngineAssumption DEF OwnersLive, OneStarted, Live
<1>5. CleanupIsOfTheSession'
  BY <1>1 DEF CleanupIsOfTheSession, CleanDestroy
<1>6. JobsHeld'
  BY DEF JobsHeld, JobHeld, JobSetUp, Active, Live
<1>7. SinkHeld'
  BY <1>1 DEF SinkHeld, CleanDestroy, Live
<1>8. RuntimeIntact' /\ StartupTruthful'
  BY DEF RuntimeIntact, StartupTruthful, Live, Starting
<1> QED
  BY <1>3, <1>4, <1>5, <1>6, <1>7, <1>8

\* A thread that goes on, a call that goes on and a line that goes on are typed.
LEMMA GoesOnTyped ==
  ASSUME TypeOK
  PROVE  /\ \A t \in Threads, at \in Stages : [job EXCEPT ![t].at = at] \in [Threads -> Jobs]
         /\ \A at \in CallStages : [call EXCEPT !.at = at] \in Calls
         /\ \A at \in CallStages, h \in Handles : [Quiet EXCEPT !.at = at, !.of = h] \in Calls
         /\ Quiet \in Calls /\ Silent \in Sinks
         /\ \A at \in Stages, h \in Handles : [Away EXCEPT !.at = at, !.of = h] \in Jobs
  BY AwayTyped DEF TypeOK, Jobs, Calls, Sinks, CallStages, Quiet, Silent

\* What an asynchronous start leaves: a refusal, or a thread of its own.
LEMMA AsyncStarts ==
  ASSUME NEW h \in Handles, engine_open_game_async(h)
  PROVE  \/ /\ runtime = h
            /\ startup' = [startup EXCEPT ![h] = "succeeded"]
            /\ UNCHANGED <<starting, worker, job, call>>
         \/ /\ MayStart(h)
            /\ startup' = [startup EXCEPT ![h] = "failed"]
            /\ UNCHANGED <<starting, worker, job, call>>
         \/ /\ MayStart(h)
            /\ starting' = h
            /\ startup' = [startup EXCEPT ![h] = "running"]
            /\ call' = [Quiet EXCEPT !.at = "join stale", !.of = h, !.who = worker[h]]
            /\ \E w \in FreeWorkers :
                 /\ worker' = [worker EXCEPT ![h] = w]
                 /\ job' = [job EXCEPT ![w] = [Away EXCEPT !.at = "begin", !.of = h]]
<1>1. FreeWorkers # {} => (CHOOSE w \in FreeWorkers : TRUE) \in FreeWorkers
  OBVIOUS
<1>2. CASE /\ starting # h /\ runtime = h
           /\ startup' = [startup EXCEPT ![h] = "succeeded"]
           /\ UNCHANGED <<starting, worker, job, call>>
  BY <1>2
<1>3. CASE /\ MayStart(h) /\ worker[h] = Nobody
           /\ startup' = [startup EXCEPT ![h] = "failed"]
           /\ UNCHANGED <<starting, worker, job, call>>
  BY <1>3
<1>4. CASE /\ MayStart(h)
           /\ FreeWorkers # {}
           /\ LET w == CHOOSE w \in FreeWorkers : TRUE IN
                /\ starting' = h
                /\ startup' = [startup EXCEPT ![h] = "running"]
                /\ worker' = [worker EXCEPT ![h] = w]
                /\ job' = [job EXCEPT ![w] = [Away EXCEPT !.at = "begin", !.of = h]]
                /\ call' = [Quiet EXCEPT !.at = "join stale", !.of = h, !.who = worker[h]]
  BY <1>1, <1>4
<1> QED
  BY <1>2, <1>3, <1>4 DEF engine_open_game_async

\* The calls of the host keep the state well typed.
LEMMA TypeHostCall == ASSUME TypeOK, HostCall PROVE TypeOK'
<1> USE DEF handleVars, registryVars, worldVars, threadVars
<1>1. ASSUME NEW h \in Handles, engine_create(h) PROVE TypeOK'
  BY <1>1 DEF TypeOK, engine_create
<1>2. ASSUME NEW h \in Handles, engine_destroy(h) PROVE TypeOK'
  <2>1. call' \in Calls
    BY <1>2 DEF TypeOK, engine_destroy, Calls, CallStages, NeedsSessionCleanup
  <2> QED
    BY <1>2, <2>1 DEF TypeOK, engine_destroy
<1>3. ASSUME NEW h \in Handles, engine_open_game(h) PROVE TypeOK'
  <2>1. "init" \in Stages /\ "open" \in CallStages
    BY DEF Stages, CallStages
  <2>2. [Away EXCEPT !.at = "init", !.of = h] \in Jobs
    BY <2>1, GoesOnTyped
  <2>3. [Quiet EXCEPT !.at = "open", !.of = h] \in Calls
    BY <2>1, GoesOnTyped
  <2>4. job' \in [Threads -> Jobs] /\ call' \in Calls
    BY <1>3, <2>2, <2>3 DEF TypeOK, engine_open_game
  <2> QED
    BY <1>3, <2>4 DEF TypeOK, engine_open_game
<1>4. ASSUME NEW h \in Handles, engine_open_game_async(h) PROVE TypeOK'
  <2>1. "begin" \in Stages
    BY DEF Stages
  <2>2. FreeWorkers \subseteq Workers /\ FreeWorkers \subseteq Threads
    BY DEF FreeWorkers, Threads
  <2>3. [Quiet EXCEPT !.at = "join stale", !.of = h, !.who = worker[h]] \in Calls
    BY DEF TypeOK, Calls, CallStages, Quiet
  <2>4. [Away EXCEPT !.at = "begin", !.of = h] \in Jobs
    BY <2>1, GoesOnTyped
  <2>5. UNCHANGED <<runtime, once, handle, gpu, size, world, fast, hostSize, terminated,
                    sink, media>>
    BY <1>4 DEF engine_open_game_async
  <2> DEFINE Launched ==
        /\ starting' = h
        /\ startup' = [startup EXCEPT ![h] = "running"]
        /\ call' = [Quiet EXCEPT !.at = "join stale", !.of = h, !.who = worker[h]]
        /\ \E w \in FreeWorkers :
             /\ worker' = [worker EXCEPT ![h] = w]
             /\ job' = [job EXCEPT ![w] = [Away EXCEPT !.at = "begin", !.of = h]]
  <2>6. CASE Launched
    <3>1. job' \in [Threads -> Jobs] /\ worker' \in [Handles -> Workers \cup {Nobody}]
      BY <2>2, <2>4, <2>6 DEF TypeOK
    <3> QED
      BY <2>3, <2>5, <2>6, <3>1 DEF TypeOK
  <2>7. CASE UNCHANGED <<starting, worker, job, call>>
    <3>1. startup' \in [Handles -> {"idle", "running", "succeeded", "failed"}]
      BY <1>4, AsyncStarts DEF TypeOK
    <3> QED
      BY <2>5, <2>7, <3>1 DEF TypeOK
  <2> QED
    BY <1>4, <2>6, <2>7, AsyncStarts
<1>5. ASSUME NEW h \in Handles, engine_tick(h) PROVE TypeOK'
  <2>1. "poll" \in CallStages /\ "run" \in CallStages
    BY DEF CallStages
  <2> QED
    <3>1. \E at \in CallStages : call' = [Quiet EXCEPT !.at = at, !.of = h]
      BY <1>5, <2>1 DEF engine_tick
    <3>2. call' \in Calls
      BY <3>1, GoesOnTyped
    <3> QED
      BY <1>5, <3>2 DEF TypeOK, engine_tick
<1>6. ASSUME NEW h \in Handles, engine_pause(h) \/ engine_resume(h) PROVE TypeOK'
  BY <1>6 DEF TypeOK, engine_pause, engine_resume
<1>7. ASSUME NEW h \in Handles, NEW r \in BOOLEAN, SetRenderer(h, r) PROVE TypeOK'
  BY <1>7 DEF TypeOK, SetRenderer
<1>8. ASSUME NEW h \in Handles, NEW s \in Sizes, engine_set_surface_size(h, s)
      PROVE TypeOK'
  BY <1>8 DEF TypeOK, engine_set_surface_size
<1>9. ASSUME NEW h \in Handles, engine_media_open(h) PROVE TypeOK'
  BY <1>9 DEF TypeOK, engine_media_open
<1>10. CASE engine_media_destroy \/ engine_get_frame_desc \/ engine_read_frame_rgba
  BY <1>10 DEF TypeOK, engine_media_destroy, engine_get_frame_desc, engine_read_frame_rgba
<1>11. CASE engine_set_render_target_iosurface \/ engine_set_render_target_surface
  BY <1>11 DEF TypeOK, engine_set_render_target_iosurface,
               engine_set_render_target_surface, SetRenderTarget
<1> QED
  BY <1>1, <1>2, <1>3, <1>4, <1>5, <1>6, <1>7, <1>8, <1>9, <1>10, <1>11 DEF HostCall

\* The steps of a startup thread keep the state well typed.
LEMMA TypeJob ==
  ASSUME TypeOK, JobsHeld, NEW t \in Threads, OpenGameCore(t) \/ RunOpenGameAsync(t)
  PROVE  TypeOK'
<1> USE DEF handleVars, registryVars, worldVars, threadVars
<1>0. /\ job[t].of \in Handles \cup {Nobody}
      /\ job[t].at # "gone" => job[t].of \in Handles
      /\ job[t].gpu \in BOOLEAN /\ job[t].size \in Sizes
  BY DEF TypeOK, Jobs, JobsHeld, JobHeld, Active
<1>1. job' \in [Threads -> Jobs]
  <2>1. CASE LoadWorld(t)
    BY <2>1, <1>0 DEF LoadWorld, TypeOK, Jobs, Stages
  <2>2. CASE ReadSurface(t)
    <3>1. size[job[t].of] \in Sizes
      BY <2>2, <1>0 DEF ReadSurface, TypeOK
    <3>2. [job[t] EXCEPT !.at = "surface", !.size = size[job[t].of]] \in Jobs
      BY <1>0, <3>1 DEF TypeOK, Jobs, Stages
    <3>3. job' = [job EXCEPT ![t] = [job[t] EXCEPT !.at = "surface", !.size = size[job[t].of]]]
      BY <2>2 DEF ReadSurface, TypeOK
    <3> QED
      BY <3>2, <3>3 DEF TypeOK
  <2>3. CASE Report(t)
    BY <2>3, AwayTyped DEF Report, TypeOK
  <2>4. CASE \/ RunOpenGameAsync(t) \/ StartApplication(t) \/ StartHostEngineLoop(t)
             \/ MarkRuntimeOpenedForHost(t) \/ ClearRuntimeOwnerIfMatching(t)
    <3>1. \E at \in Stages : job' = [job EXCEPT ![t].at = at]
      BY <2>4 DEF RunOpenGameAsync, StartApplication, StartHostEngineLoop,
                  MarkRuntimeOpenedForHost, ClearRuntimeOwnerIfMatching, Stages
    <3> QED
      BY <3>1, GoesOnTyped
  <2> QED
    BY <2>1, <2>2, <2>3, <2>4 DEF OpenGameCore
<1>2. CASE RunOpenGameAsync(t)
  BY <1>1, <1>2 DEF TypeOK, RunOpenGameAsync
<1>3. CASE LoadWorld(t)
  BY <1>0, <1>1, <1>3 DEF TypeOK, LoadWorld
<1>4. CASE StartApplication(t)
  BY <1>0, <1>1, <1>4 DEF TypeOK, StartApplication
<1>5. CASE ReadSurface(t) \/ StartHostEngineLoop(t)
  BY <1>0, <1>1, <1>5 DEF TypeOK, ReadSurface, StartHostEngineLoop
<1>6. CASE MarkRuntimeOpenedForHost(t)
  BY <1>0, <1>1, <1>6 DEF TypeOK, MarkRuntimeOpenedForHost
<1>7. CASE ClearRuntimeOwnerIfMatching(t)
  BY <1>0, <1>1, <1>7 DEF TypeOK, ClearRuntimeOwnerIfMatching
<1>8. CASE Report(t)
  BY <1>1, <1>8, GoesOnTyped DEF TypeOK, Report
<1> QED
  BY <1>2, <1>3, <1>4, <1>5, <1>6, <1>7, <1>8 DEF OpenGameCore

\* Every step keeps the state well typed.
LEMMA TypeStep == ASSUME TypeOK, JobsHeld, Next PROVE TypeOK'
<1> USE DEF handleVars, registryVars, worldVars, threadVars
<1>0. {"cleanup", "delete", "poll", "join decoder"} \subseteq CallStages
  BY DEF CallStages
<1>1. CASE HostCall
  BY <1>1, TypeHostCall
<1>2. CASE JoinStartupWorker \/ Cleanup \/ JoinStaleWorker
  BY <1>0, <1>2, GoesOnTyped DEF JoinStartupWorker, Cleanup, JoinStaleWorker, TypeOK
<1>3. CASE Delete
  BY <1>3, AwayTyped, GoesOnTyped DEF Delete, TypeOK
<1>4. CASE JoinMovie \/ Run \/ JoinDecoder \/ engine_get_frame_rendered_flag
  BY <1>0, <1>4, GoesOnTyped DEF JoinMovie, Run, JoinDecoder, RunEnds,
                                 engine_get_frame_rendered_flag, TypeOK
<1>5. CASE OpenGameCore(Host) \/ \E w \in Workers : Worker(w)
  BY <1>5, TypeJob DEF Worker, Threads
<1>6. CASE LogLine \/ TryLock \/ PushStartupLog
  <2>1. sink' \in Sinks
    <3>1. CASE LogLine
      <4>1. sink' = [Silent EXCEPT !.at = "line"]
        BY <3>1 DEF LogLine
      <4> QED
        BY <4>1 DEF Silent, Sinks
    <3>2. CASE TryLock
      <4>1. sink' = Silent \/ sink' = [at |-> "push", target |-> LogTarget]
        BY <3>2 DEF TryLock
      <4>2. LogTarget \in Handles \cup {Nobody}
        BY DEF LogTarget, TypeOK
      <4> QED
        BY <4>1, <4>2 DEF Silent, Sinks
    <3>3. CASE PushStartupLog
      BY <3>3, GoesOnTyped DEF PushStartupLog
    <3> QED
      BY <1>6, <3>1, <3>2, <3>3
  <2> QED
    BY <1>6, <2>1 DEF LogLine, TryLock, PushStartupLog, TypeOK
<1> QED
  BY <1>1, <1>2, <1>3, <1>4, <1>5, <1>6 DEF Next, HostGoesOn, Sink


\* A created handle is nobody's yet.
LEMMA CreateStep ==
  ASSUME Lifecycle, NEW h \in Handles, engine_create(h)
  PROVE  Lifecycle'
<1>1. TypeOK'
  BY TypeHostCall DEF Lifecycle, HostCall
<1>2. /\ UNCHANGED <<startup, worker, gpu, runtime, starting, once, world, fast, job, call,
                     sink, media>>
      /\ handle' = [handle EXCEPT ![h] = "created"]
      /\ handle[h] = "freed" /\ call.at = "idle"
  BY DEF engine_create, registryVars, worldVars, threadVars
<1>3. \A g \in Handles : handle'[g] = IF g = h THEN "created" ELSE handle[g]
  BY <1>2 DEF Lifecycle, TypeOK
<1>4. DyingIsDestroyed'
  BY <1>2, <1>3 DEF Lifecycle, DyingIsDestroyed
<1>5. OwnersLive' /\ OneStarted'
  BY <1>2, <1>3 DEF Lifecycle, OwnersLive, OneStarted, Live
<1>6. CleanupIsOfTheSession'
  BY <1>2 DEF Lifecycle, CleanupIsOfTheSession, CleanDestroy
<1>7. JobsHeld'
  BY <1>2, <1>3 DEF Lifecycle, JobsHeld, JobHeld, JobSetUp, Active, Live
<1>8. SinkHeld'
  BY <1>2, <1>3 DEF Lifecycle, SinkHeld, CleanDestroy, Live
<1>9. RuntimeIntact'
  BY <1>2, <1>3 DEF Lifecycle, RuntimeIntact, OwnersLive, Live
<1>10. StartupTruthful'
  BY <1>2, <1>3 DEF Lifecycle, StartupTruthful, OwnersLive, JobsHeld, JobHeld, Active,
                    Starting, Live
<1> QED
  BY <1>1, <1>4, <1>5, <1>6, <1>7, <1>8, <1>9, <1>10 DEF Lifecycle

\* engine_destroy takes a handle from the registry, with all that was its own.
LEMMA DestroyStep ==
  ASSUME Disciplined, Lifecycle, NEW h \in Handles, engine_destroy(h)
  PROVE  Lifecycle'
<1>1. TypeOK'
  BY TypeHostCall DEF Lifecycle, HostCall
<1>2. /\ UNCHANGED <<gpu, once, world, fast, job, sink, media>>
      /\ call' = [at |-> "join", of |-> h, who |-> worker[h],
                  clean |-> NeedsSessionCleanup(h)]
      /\ runtime' = (IF runtime = h THEN Nobody ELSE runtime)
      /\ starting' = (IF starting = h THEN Nobody ELSE starting)
      /\ call.at = "idle" /\ Live(h) /\ media # h
  BY DEF engine_destroy, worldVars, MayDestroy
<1>3. /\ \A g \in Handles : handle'[g] = IF g = h THEN "dying" ELSE handle[g]
      /\ \A g \in Handles : startup'[g] = IF g = h THEN "idle" ELSE startup[g]
      /\ \A g \in Handles : worker'[g] = IF g = h THEN Nobody ELSE worker[g]
  BY DEF Lifecycle, TypeOK, engine_destroy
<1>4. runtime = h => startup[h] # "idle"
  BY DEF Lifecycle, StartupTruthful, OwnersLive
<1>5. NeedsSessionCleanup(h) <=> startup[h] # "idle"
  BY <1>4 DEF Lifecycle, NeedsSessionCleanup, OwnersLive
<1>6. \A g \in Handles : startup[g] # "idle" /\ startup[h] # "idle" => g = h
  BY DEF Lifecycle, OneStarted
<1>7. DyingIsDestroyed'
  BY <1>2, <1>3 DEF Lifecycle, DyingIsDestroyed
<1>8. OwnersLive' /\ OneStarted'
  BY <1>2, <1>3, LegacyEngineAssumption DEF Lifecycle, OwnersLive, OneStarted, Live
<1>9. CleanupIsOfTheSession'
  <2>1. \A g \in Handles : runtime = g \/ starting = g => startup[g] # "idle"
    BY <1>2 DEF Lifecycle, StartupTruthful, OwnersLive
  <2> QED
    BY <1>2, <1>3, <1>5, <1>6, <2>1
    DEF Lifecycle, TypeOK, CleanupIsOfTheSession, CleanDestroy
<1>10. JobsHeld'
  <2>1. ASSUME NEW t \in Threads, Active(t) PROVE JobHeld(t)' /\ JobSetUp(t)'
    <3>1. /\ JobHeld(t) /\ JobSetUp(t)
          /\ t # Host /\ worker[job[t].of] = t /\ Live(job[t].of)
          /\ startup[job[t].of] = "running"
      BY <2>1, <1>2 DEF Lifecycle, JobsHeld, JobHeld
    <3>2. t \in Workers
      BY <3>1 DEF Threads
    <3>3. JobHeld(t)'
      BY <1>2, <1>3, <1>5, <3>1, <3>2 DEF JobHeld, Live
    <3>4. JobSetUp(t)'
      BY <1>2, <1>3, <3>1, LegacyEngineAssumption DEF JobSetUp, JobHeld, Live
    <3> QED
      BY <3>3, <3>4
  <2> QED
    BY <1>2, <2>1 DEF Lifecycle, JobsHeld, Active
<1>11. SinkHeld'
  BY <1>2, <1>3, <1>5 DEF Lifecycle, SinkHeld, CleanDestroy, Live
<1>12. RuntimeIntact'
  BY <1>2, <1>3, <1>4, <1>5, LegacyEngineAssumption DEF Lifecycle, RuntimeIntact, Live
<1>13. StartupTruthful'
  BY <1>2, <1>3, LegacyEngineAssumption DEF Lifecycle, StartupTruthful, Starting, Live
<1> QED
  BY <1>1, <1>7, <1>8, <1>9, <1>10, <1>11, <1>12, <1>13 DEF Lifecycle


\* A join that has ended leaves nobody who works for the handle.
LEMMA JoinStep ==
  ASSUME Lifecycle, JoinStartupWorker
  PROVE  Lifecycle'
<1>1. TypeOK'
  BY TypeStep DEF Lifecycle, Next, HostGoesOn
<1>2. UNCHANGED <<handle, startup, worker, gpu, runtime, starting, once, world, fast, job,
                  sink, media>>
  BY DEF JoinStartupWorker, registryVars, handleVars, worldVars
<1>3. /\ call.at = "join" /\ call'.of = call.of /\ call'.who = call.who
      /\ call'.clean = call.clean
      /\ call'.at = IF call.clean THEN "cleanup" ELSE "delete"
  BY DEF Lifecycle, TypeOK, Calls, JoinStartupWorker
<1>4. CleanDestroy' <=> CleanDestroy
  BY <1>3 DEF CleanDestroy
<1>5. DyingIsDestroyed'
  BY <1>2, <1>3 DEF Lifecycle, DyingIsDestroyed
<1>6. OwnersLive' /\ OneStarted'
  BY <1>2 DEF Lifecycle, OwnersLive, OneStarted, Live
<1>7. CleanupIsOfTheSession'
  BY <1>2, <1>3, <1>4 DEF Lifecycle, CleanupIsOfTheSession
<1>8. JobsHeld'
  <2>1. ASSUME NEW t \in Threads, Active(t) PROVE JobHeld(t)' /\ JobSetUp(t)'
    <3>1. JobHeld(t) /\ JobSetUp(t)
      BY <2>1 DEF Lifecycle, JobsHeld
    <3>2. ~(call.who = t /\ t \in Workers)
      BY <2>1, LegacyEngineAssumption DEF JoinStartupWorker, Ended, Active
    <3>3. t # Host
      BY <1>3, <3>1, <3>2 DEF JobHeld
    <3> QED
      BY <1>2, <3>1, <3>2, <3>3 DEF JobHeld, JobSetUp, Live
  <2> QED
    BY <1>2, <2>1 DEF Lifecycle, JobsHeld, Active
<1>9. SinkHeld'
  BY <1>2, <1>3, <1>4 DEF Lifecycle, SinkHeld, Live
<1>10. RuntimeIntact'
  BY <1>2, <1>3 DEF Lifecycle, RuntimeIntact
<1>11. StartupTruthful'
  BY <1>2 DEF Lifecycle, StartupTruthful, Starting, Live
<1> QED
  BY <1>1, <1>5, <1>6, <1>7, <1>8, <1>9, <1>10, <1>11 DEF Lifecycle

\* The cleanup finds no decoder in the sink, and no thread at all.
LEMMA CleanupStep ==
  ASSUME Lifecycle, Cleanup
  PROVE  Lifecycle'
<1>1. TypeOK'
  BY TypeStep DEF Lifecycle, Next, HostGoesOn
<1>2. /\ UNCHANGED <<handle, startup, worker, gpu, runtime, starting, fast, job, sink, media>>
      /\ world' = Nobody /\ once' = FALSE
      /\ sink.target = Nobody
  BY DEF Cleanup, handleVars, Silent
<1>3. /\ call.at = "cleanup" /\ call'.of = call.of /\ call'.who = call.who
      /\ call'.at = "delete" /\ call.clean /\ CleanDestroy
  BY DEF Lifecycle, TypeOK, Calls, Cleanup, CleanupIsOfTheSession, CleanDestroy
<1>4. DyingIsDestroyed'
  BY <1>2, <1>3 DEF Lifecycle, DyingIsDestroyed
<1>5. OwnersLive' /\ OneStarted'
  BY <1>2 DEF Lifecycle, OwnersLive, OneStarted, Live
<1>6. CleanupIsOfTheSession'
  BY <1>3 DEF CleanupIsOfTheSession, CleanDestroy
<1>7. \A t \in Threads : ~Active(t)
  <2> SUFFICES ASSUME NEW t \in Threads, Active(t) PROVE FALSE
    OBVIOUS
  <2>1. /\ Live(job[t].of) /\ startup[job[t].of] = "running"
        /\ job[t].of \in Handles
    BY <1>3 DEF Lifecycle, JobsHeld, JobHeld
  <2>2. job[t].of # call.of
    BY <1>3, <2>1 DEF Lifecycle, DyingIsDestroyed, Live
  <2> QED
    BY <1>3, <2>1, <2>2 DEF Lifecycle, CleanupIsOfTheSession
<1>8. JobsHeld'
  BY <1>2, <1>7 DEF JobsHeld, Active
<1>9. SinkHeld'
  BY <1>2, LegacyEngineAssumption DEF SinkHeld
<1>10. RuntimeIntact'
  BY <1>2, <1>3, <1>7 DEF Lifecycle, RuntimeIntact, CleanupIsOfTheSession, Active
<1>11. StartupTruthful'
  BY <1>2 DEF Lifecycle, StartupTruthful, Starting, Live
<1> QED
  BY <1>1, <1>4, <1>5, <1>6, <1>8, <1>9, <1>10, <1>11 DEF Lifecycle

\* A deleted handle has the fields of a new one, and nobody who knows it.
LEMMA DeleteStep ==
  ASSUME Lifecycle, Delete
  PROVE  Lifecycle'
<1>1. TypeOK'
  BY TypeStep DEF Lifecycle, Next, HostGoesOn
<1>2. /\ UNCHANGED <<worker, runtime, starting, once, world, fast, job, sink, media>>
      /\ call.at = "delete" /\ call' = Quiet
  BY DEF Delete, registryVars, worldVars
<1>3. /\ \A g \in Handles : handle'[g] = IF g = call.of THEN "freed" ELSE handle[g]
      /\ \A g \in Handles : startup'[g] = IF g = call.of THEN "idle" ELSE startup[g]
      /\ \A g \in Handles : gpu'[g] = IF g = call.of THEN TRUE ELSE gpu[g]
  BY DEF Lifecycle, TypeOK, Delete
<1>4. \A g \in Handles : g = call.of => handle[g] = "dying" /\ ~Live(g)
  BY <1>2 DEF Lifecycle, DyingIsDestroyed, Live
<1>5. \A g \in Handles : g = call.of => runtime # g /\ starting # g /\ media # g
  BY <1>4 DEF Lifecycle, OwnersLive
<1>6. ~CleanDestroy /\ ~CleanDestroy'
  BY <1>2 DEF CleanDestroy, Quiet
<1>7. DyingIsDestroyed'
  BY <1>2, <1>3 DEF Lifecycle, DyingIsDestroyed, Quiet
<1>8. OwnersLive' /\ OneStarted'
  BY <1>2, <1>3, <1>5 DEF Lifecycle, OwnersLive, OneStarted, Live
<1>9. CleanupIsOfTheSession'
  BY <1>2, <1>6 DEF CleanupIsOfTheSession, Quiet
<1>10. \A t \in Threads : Active(t) => job[t].of # call.of
  BY <1>2, <1>4 DEF Lifecycle, JobsHeld, JobHeld
<1>11. JobsHeld'
  <2>1. ASSUME NEW t \in Threads, Active(t) PROVE JobHeld(t)' /\ JobSetUp(t)'
    <3>1. JobHeld(t) /\ JobSetUp(t) /\ job[t].of # call.of /\ t # Host
      BY <1>2, <1>10, <2>1 DEF Lifecycle, JobsHeld, JobHeld
    <3> QED
      BY <1>2, <1>3, <3>1 DEF JobHeld, JobSetUp, Live
  <2> QED
    BY <1>2, <2>1 DEF Lifecycle, JobsHeld, Active
<1>12. SinkHeld'
  BY <1>2, <1>3, <1>4, <1>6 DEF Lifecycle, SinkHeld, Live
<1>13. RuntimeIntact'
  BY <1>2, <1>3, <1>4, <1>5 DEF Lifecycle, TypeOK, RuntimeIntact, Live
<1>14. StartupTruthful'
  BY <1>2, <1>3 DEF Lifecycle, StartupTruthful, Starting, Live
<1> QED
  BY <1>1, <1>7, <1>8, <1>9, <1>11, <1>12, <1>13, <1>14 DEF Lifecycle


\* Whoever may start finds no session and no thread at work.
LEMMA NobodyAtWork ==
  ASSUME Disciplined, Lifecycle, NEW h \in Handles,
         call.at = "idle", Live(h), MayOpen(h), MayStart(h)
  PROVE  /\ runtime = Nobody /\ once = FALSE
         /\ \A t \in Threads : ~Active(t)
         /\ \A g \in Handles \ {h} : startup[g] = "idle"
<1>1. /\ runtime = Nobody /\ once = FALSE
      /\ \A g \in Handles \ {h} : startup[g] = "idle"
  BY DEF MayOpen, MayStart, Lifecycle, TypeOK
<1>2. ASSUME NEW t \in Threads, Active(t) PROVE FALSE
  <2>1. Live(job[t].of) /\ startup[job[t].of] = "running" /\ job[t].of \in Handles
    BY <1>2 DEF Lifecycle, JobsHeld, JobHeld
  <2> QED
    BY <1>1, <2>1 DEF MayOpen
<1> QED
  BY <1>1, <1>2

\* A start that begins makes its handle the only one with a session, and its
\* thread the only one at work.
LEMMA StartBegins ==
  ASSUME Lifecycle, TypeOK', NEW h \in Handles, NEW t \in Threads, NEW stage \in {"begin", "init"},
         Live(h), call.at = "idle",
         runtime = Nobody, once = FALSE, \A u \in Threads : ~Active(u),
         \A g \in Handles \ {h} : startup[g] = "idle",
         UNCHANGED <<handle, gpu, runtime, once, world, fast, sink, media>>,
         starting' = h,
         startup' = [startup EXCEPT ![h] = "running"],
         job' = [job EXCEPT ![t] = [Away EXCEPT !.at = stage, !.of = h]],
         t = Host => call'.at = "open",
         t # Host => worker' = [worker EXCEPT ![h] = t] /\ call'.at = "join stale"
  PROVE  Lifecycle'
<1>1. \A g \in Handles : startup'[g] = IF g = h THEN "running" ELSE startup[g]
  BY DEF Lifecycle, TypeOK
<1>0. /\ job \in [Threads -> Jobs] /\ worker \in [Handles -> Workers \cup {Nobody}]
      /\ startup \in [Handles -> {"idle", "running", "succeeded", "failed"}]
      /\ startup' \in [Handles -> {"idle", "running", "succeeded", "failed"}]
  BY DEF Lifecycle, TypeOK
<1>2. /\ \A u \in Threads : u # t => ~Active(u)'
      /\ job'[t] = [Away EXCEPT !.at = stage, !.of = h]
  BY <1>0 DEF Active
<1>3. job'[t].at = stage /\ job'[t].of = h
  BY <1>2 DEF Away
<1>4. t # Host => worker'[h] = t
  BY <1>0
<1>5. ~CleanDestroy' /\ ~CleanDestroy /\ call'.at \in {"open", "join stale"}
  BY DEF CleanDestroy
<1>6. DyingIsDestroyed'
  BY <1>5 DEF Lifecycle, DyingIsDestroyed
<1>7. OwnersLive' /\ OneStarted'
  <2>1. \A g \in Handles : g # h => starting' # g /\ startup'[g] = "idle"
    BY <1>1
  <2>2. startup'[h] = "running" /\ handle[h] # "freed"
    BY <1>1 DEF Live
  <2> QED
    BY <2>1, <2>2 DEF Lifecycle, OwnersLive, OneStarted, Live
<1>8. CleanupIsOfTheSession'
  BY <1>5 DEF CleanupIsOfTheSession
<1>9. JobsHeld'
  <2>1. JobHeld(t)'
    BY <1>1, <1>3, <1>4 DEF JobHeld, Live
  <2>2. JobSetUp(t)'
    BY <1>3 DEF JobSetUp
  <2> QED
    BY <1>2, <2>1, <2>2 DEF JobsHeld
<1>10. SinkHeld'
  <2>1. \A g \in Handles : sink.target = g => Live(g) /\ startup[g] # "idle"
    BY <1>5 DEF Lifecycle, SinkHeld
  <2>2. \A g \in Handles : startup[g] # "idle" => startup'[g] # "idle"
    BY <1>0, <1>1
  <2> QED
    BY <2>1, <2>2 DEF SinkHeld, Live
<1>11. RuntimeIntact'
  <2>1. \A u \in Threads : job'[u].at # "launch"
    BY <1>2, <1>3 DEF Active
  <2> QED
    BY <2>1 DEF Lifecycle, RuntimeIntact
<1>12. StartupTruthful'
  <2>1. \A g \in Handles : Starting(g)' <=> g = h
    BY <1>2, <1>3 DEF Starting, Active
  <2>2. \A g \in Handles : runtime' # g
    BY LegacyEngineAssumption
  <2>3. \A g \in Handles : startup'[g] = IF g = h THEN "running" ELSE "idle"
    BY <1>1
  <2>4. ASSUME NEW g \in Handles
        PROVE  /\ startup'[g] # "succeeded" /\ runtime' # g
               /\ startup'[g] = "running" <=> Starting(g)'
    <3>1. CASE g = h
      BY <1>0, <2>1, <2>2, <2>3, <3>1
    <3>2. CASE g # h
      BY <1>0, <2>1, <2>2, <2>3, <3>2
    <3> QED
      BY <3>1, <3>2
  <2> QED
    BY <2>4 DEF StartupTruthful
<1> QED
  BY <1>6, <1>7, <1>8, <1>9, <1>10, <1>11, <1>12 DEF Lifecycle

\* A second open of the game that runs, in either way, changes no owner.
LEMMA OpenAgain ==
  ASSUME Disciplined, Lifecycle, TypeOK', NEW h \in Handles,
         call.at = "idle", Live(h), MayOpen(h), runtime = h,
         UNCHANGED <<worker, gpu, runtime, starting, once, world, fast, job, call, sink,
                     media>>,
         \/ handle' = [handle EXCEPT ![h] = "opened"] /\ startup' = startup
         \/ handle' = handle /\ startup' = [startup EXCEPT ![h] = "succeeded"]
  PROVE  Lifecycle'
<1>1. startup[h] = "succeeded"
  <2>1. startup[h] \in {"idle", "running", "succeeded", "failed"}
    BY DEF Lifecycle, TypeOK
  <2> QED
    BY <2>1 DEF Lifecycle, StartupTruthful, MayOpen
<1>2. handle[h] \in {"opened", "paused"}
  BY DEF Lifecycle, RuntimeIntact
<1>3. \A g \in Handles : startup'[g] = startup[g]
  BY <1>1 DEF Lifecycle, TypeOK
<1>4. /\ \A g \in Handles : g # h => handle'[g] = handle[g]
      /\ handle'[h] \in {"opened", "paused"}
  BY <1>2 DEF Lifecycle, TypeOK
<1>5. DyingIsDestroyed'
  BY <1>2, <1>4 DEF Lifecycle, DyingIsDestroyed
<1>6. OwnersLive' /\ OneStarted'
  BY <1>2, <1>3, <1>4 DEF Lifecycle, OwnersLive, OneStarted, Live
<1>7. CleanupIsOfTheSession'
  BY <1>3 DEF Lifecycle, CleanupIsOfTheSession, CleanDestroy
<1>8. JobsHeld'
  <2>1. \A t \in Threads : Active(t) => JobHeld(t)' /\ JobSetUp(t)'
    BY <1>2, <1>3, <1>4 DEF Lifecycle, JobsHeld, JobHeld, JobSetUp, Live
  <2> QED
    BY <2>1 DEF Lifecycle, JobsHeld, Active
<1>9. SinkHeld'
  BY <1>2, <1>3, <1>4 DEF Lifecycle, SinkHeld, CleanDestroy, Live
<1>10. RuntimeIntact'
  BY <1>2, <1>4 DEF Lifecycle, RuntimeIntact
<1>11. StartupTruthful'
  BY <1>2, <1>3, <1>4 DEF Lifecycle, StartupTruthful, Starting, Live
<1> QED
  BY <1>5, <1>6, <1>7, <1>8, <1>9, <1>10, <1>11 DEF Lifecycle

\* A synchronous open runs the start on the host's thread, with the registry held.
LEMMA OpenStep ==
  ASSUME Disciplined, Lifecycle, NEW h \in Handles, engine_open_game(h)
  PROVE  Lifecycle'
<1>1. TypeOK'
  BY TypeHostCall DEF Lifecycle, HostCall
<1>2. /\ UNCHANGED <<worker, gpu, world, fast, sink, media>>
      /\ call.at = "idle" /\ Live(h) /\ MayOpen(h)
  BY DEF engine_open_game
<1>3. CASE /\ runtime = h
           /\ handle' = [handle EXCEPT ![h] = "opened"]
           /\ UNCHANGED <<registryVars, startup, terminated, call, job>>
  BY <1>1, <1>2, <1>3, OpenAgain DEF registryVars
<1>4. CASE /\ MayStart(h)
           /\ starting' = h
           /\ startup' = [startup EXCEPT ![h] = "running"]
           /\ job' = [job EXCEPT ![Host] = [Away EXCEPT !.at = "init", !.of = h]]
           /\ call' = [Quiet EXCEPT !.at = "open", !.of = h]
           /\ UNCHANGED <<runtime, once, handle>>
  <2>1. call'.at = "open" /\ Host \in Threads
    BY <1>4 DEF Quiet, Threads
  <2> QED
    BY <1>1, <1>2, <1>4, <2>1, NobodyAtWork, StartBegins
<1> QED
  BY <1>3, <1>4 DEF engine_open_game

\* An asynchronous open starts a thread, or answers at once.
LEMMA OpenAsyncStep ==
  ASSUME Disciplined, Lifecycle, NEW h \in Handles, engine_open_game_async(h)
  PROVE  Lifecycle'
<1>1. TypeOK'
  BY TypeHostCall DEF Lifecycle, HostCall
<1>2. /\ UNCHANGED <<runtime, once, handle, gpu, world, fast, sink, media>>
      /\ call.at = "idle" /\ Live(h) /\ MayOpen(h)
  BY DEF engine_open_game_async, worldVars
<1>3. CASE /\ runtime = h
           /\ startup' = [startup EXCEPT ![h] = "succeeded"]
           /\ UNCHANGED <<starting, worker, job, call>>
  BY <1>1, <1>2, <1>3, OpenAgain
<1>4. CASE /\ MayStart(h)
           /\ startup' = [startup EXCEPT ![h] = "failed"]
           /\ UNCHANGED <<starting, worker, job, call>>
  <2>1. /\ runtime = Nobody /\ once = FALSE
        /\ \A t \in Threads : ~Active(t)
        /\ \A g \in Handles \ {h} : startup[g] = "idle"
    BY <1>2, <1>4, NobodyAtWork
  <2>2. \A g \in Handles : startup'[g] = IF g = h THEN "failed" ELSE startup[g]
    BY <1>4 DEF Lifecycle, TypeOK
  <2>3. \A g \in Handles : Live(g)' <=> Live(g)
    BY <1>2 DEF Live
  <2>4. DyingIsDestroyed' /\ CleanupIsOfTheSession'
    BY <1>2, <1>4 DEF Lifecycle, DyingIsDestroyed, CleanupIsOfTheSession, CleanDestroy
  <2>5. OwnersLive' /\ OneStarted'
    BY <1>2, <1>4, <2>1, <2>2, <2>3 DEF Lifecycle, OwnersLive, OneStarted, Live
  <2>6. JobsHeld'
    BY <1>4, <2>1 DEF JobsHeld, Active
  <2>7. SinkHeld'
    BY <1>2, <1>4, <2>2, <2>3 DEF Lifecycle, SinkHeld, CleanDestroy
  <2>8. RuntimeIntact'
    BY <1>2, <1>4 DEF Lifecycle, RuntimeIntact
  <2>9. StartupTruthful'
    BY <1>2, <1>4, <2>1, <2>2, <2>3, LegacyEngineAssumption
    DEF Lifecycle, StartupTruthful, Starting, Active
  <2> QED
    BY <1>1, <2>4, <2>5, <2>6, <2>7, <2>8, <2>9 DEF Lifecycle
<1>5. CASE /\ MayStart(h)
           /\ starting' = h
           /\ startup' = [startup EXCEPT ![h] = "running"]
           /\ call' = [Quiet EXCEPT !.at = "join stale", !.of = h, !.who = worker[h]]
           /\ \E w \in FreeWorkers :
                /\ worker' = [worker EXCEPT ![h] = w]
                /\ job' = [job EXCEPT ![w] = [Away EXCEPT !.at = "begin", !.of = h]]
  <2>1. PICK w \in FreeWorkers :
          /\ worker' = [worker EXCEPT ![h] = w]
          /\ job' = [job EXCEPT ![w] = [Away EXCEPT !.at = "begin", !.of = h]]
    BY <1>5
  <2>2. w \in Threads /\ w # Host /\ call'.at = "join stale"
    BY <1>5, LegacyEngineAssumption DEF FreeWorkers, Threads, Quiet
  <2> QED
    BY <1>1, <1>2, <1>5, <2>1, <2>2, NobodyAtWork, StartBegins
<1> QED
  BY <1>3, <1>4, <1>5, AsyncStarts


\* A pause or a resume of the handle in charge.
LEMMA PauseStep ==
  ASSUME Lifecycle, NEW h \in Handles, engine_pause(h) \/ engine_resume(h)
  PROVE  Lifecycle'
<1>1. TypeOK'
  BY TypeHostCall DEF Lifecycle, HostCall
<1>2. /\ UNCHANGED <<startup, worker, gpu, runtime, starting, once, world, fast, job, call,
                     sink, media>>
      /\ runtime = h /\ handle[h] \in {"opened", "paused"}
  BY DEF engine_pause, engine_resume, registryVars, worldVars, threadVars
<1>3. /\ \A g \in Handles : g # h => handle'[g] = handle[g]
      /\ handle'[h] \in {"opened", "paused"}
  BY DEF engine_pause, engine_resume, Lifecycle, TypeOK
<1>4. DyingIsDestroyed'
  BY <1>2, <1>3 DEF Lifecycle, DyingIsDestroyed
<1>5. OwnersLive' /\ OneStarted'
  BY <1>2, <1>3 DEF Lifecycle, OwnersLive, OneStarted, Live
<1>6. CleanupIsOfTheSession'
  BY <1>2 DEF Lifecycle, CleanupIsOfTheSession, CleanDestroy
<1>7. JobsHeld'
  <2>1. \A t \in Threads : Active(t) => JobHeld(t)' /\ JobSetUp(t)'
    BY <1>2, <1>3 DEF Lifecycle, JobsHeld, JobHeld, JobSetUp, Live
  <2> QED
    BY <1>2, <2>1 DEF Lifecycle, JobsHeld, Active
<1>8. SinkHeld'
  BY <1>2, <1>3 DEF Lifecycle, SinkHeld, CleanDestroy, Live
<1>9. RuntimeIntact'
  BY <1>2, <1>3 DEF Lifecycle, RuntimeIntact
<1>10. StartupTruthful'
  BY <1>2, <1>3 DEF Lifecycle, StartupTruthful, Starting, Live
<1> QED
  BY <1>1, <1>4, <1>5, <1>6, <1>7, <1>8, <1>9, <1>10 DEF Lifecycle

\* The renderer is switched for the handle in charge, outside of startups.
LEMMA RendererStep ==
  ASSUME Disciplined, Lifecycle, NEW h \in Handles, NEW r \in BOOLEAN, SetRenderer(h, r)
  PROVE  Lifecycle'
<1>1. TypeOK'
  BY TypeHostCall DEF Lifecycle, HostCall
<1>2. /\ UNCHANGED <<handle, startup, worker, runtime, starting, once, world, job, call,
                     sink, media>>
      /\ fast' = r /\ runtime \in {Nobody, h}
      /\ \A g \in Handles : ~Starting(g)
  BY DEF SetRenderer, MaySetRenderer, registryVars, threadVars
<1>3. gpu'[h] = r
  BY DEF SetRenderer, Lifecycle, TypeOK
<1>4. \A t \in Threads : ~Active(t)
  BY <1>2 DEF Lifecycle, JobsHeld, JobHeld, Starting, Active
<1>5. DyingIsDestroyed' /\ CleanupIsOfTheSession'
  BY <1>2 DEF Lifecycle, DyingIsDestroyed, CleanupIsOfTheSession, CleanDestroy
<1>6. OwnersLive' /\ OneStarted'
  BY <1>2 DEF Lifecycle, OwnersLive, OneStarted, Live
<1>7. JobsHeld'
  BY <1>2, <1>4 DEF JobsHeld, Active
<1>8. SinkHeld'
  BY <1>2 DEF Lifecycle, SinkHeld, CleanDestroy, Live
<1>9. RuntimeIntact'
  BY <1>2, <1>3, <1>4 DEF Lifecycle, RuntimeIntact, Active
<1>10. StartupTruthful'
  BY <1>2 DEF Lifecycle, StartupTruthful, Starting, Live
<1> QED
  BY <1>1, <1>5, <1>6, <1>7, <1>8, <1>9, <1>10 DEF Lifecycle

\* A media handle is opened on a registered engine.
LEMMA MediaStep ==
  ASSUME Lifecycle, NEW h \in Handles, engine_media_open(h)
  PROVE  Lifecycle'
<1>1. TypeOK'
  BY TypeHostCall DEF Lifecycle, HostCall
<1>2. /\ UNCHANGED <<handle, startup, worker, gpu, runtime, starting, once, world, fast, job,
                     call, sink>>
      /\ media' = h /\ Live(h)
  BY DEF engine_media_open, registryVars, handleVars, worldVars, threadVars
<1>3. OwnersLive'
  BY <1>2 DEF Lifecycle, OwnersLive, Live
<1>4. DyingIsDestroyed' /\ CleanupIsOfTheSession' /\ OneStarted'
  BY <1>2 DEF Lifecycle, DyingIsDestroyed, CleanupIsOfTheSession, CleanDestroy, OneStarted
<1>5. JobsHeld'
  BY <1>2 DEF Lifecycle, JobsHeld, JobHeld, JobSetUp, Active, Live
<1>6. SinkHeld'
  BY <1>2 DEF Lifecycle, SinkHeld, CleanDestroy, Live
<1>7. RuntimeIntact' /\ StartupTruthful'
  BY <1>2 DEF Lifecycle, RuntimeIntact, StartupTruthful, Starting, Live
<1> QED
  BY <1>1, <1>3, <1>4, <1>5, <1>6, <1>7 DEF Lifecycle

\* A line of a decoder thread is written to a handle that has a session.
LEMMA SinkStep ==
  ASSUME Lifecycle, LogLine \/ TryLock \/ PushStartupLog
  PROVE  Lifecycle'
<1>1. TypeOK'
  BY TypeStep DEF Lifecycle, Next, Sink
<1>2. UNCHANGED <<handle, startup, worker, gpu, runtime, starting, once, world, fast, job,
                  call, media>>
  BY DEF LogLine, TryLock, PushStartupLog, registryVars, handleVars, worldVars
<1>3. \/ sink'.target \in {Nobody, sink.target}
      \/ sink'.target = LogTarget /\ LogTarget # Nobody
  BY DEF LogLine, TryLock, PushStartupLog, Silent, Lifecycle, TypeOK, Sinks
<1>4. LogTarget # Nobody => LogTarget \in Handles /\ Live(LogTarget) /\ startup[LogTarget] # "idle"
  <2>1. \A h \in Handles : runtime = h => Live(h) /\ startup[h] # "idle"
    BY DEF Lifecycle, OwnersLive, StartupTruthful
  <2>2. \A h \in Handles : starting = h => Live(h) /\ startup[h] # "idle"
    BY DEF Lifecycle, OwnersLive
  <2> QED
    BY <2>1, <2>2 DEF LogTarget, Lifecycle, TypeOK
<1>5. SinkHeld'
  <2> SUFFICES ASSUME NEW h \in Handles, sink'.target = h
               PROVE  \/ Live(h)' /\ startup'[h] # "idle"
                      \/ CleanDestroy' /\ call'.of = h
    BY DEF SinkHeld
  <2>1. CASE sink'.target = sink.target
    BY <1>2, <2>1 DEF Lifecycle, SinkHeld, CleanDestroy, Live
  <2>2. CASE sink'.target = LogTarget /\ LogTarget # Nobody
    BY <1>2, <1>4, <2>2 DEF Live
  <2> QED
    BY <1>3, <2>1, <2>2, LegacyEngineAssumption
<1>6. DyingIsDestroyed' /\ CleanupIsOfTheSession' /\ OneStarted'
  BY <1>2 DEF Lifecycle, DyingIsDestroyed, CleanupIsOfTheSession, CleanDestroy, OneStarted
<1>7. OwnersLive'
  BY <1>2 DEF Lifecycle, OwnersLive, Live
<1>8. JobsHeld'
  BY <1>2 DEF Lifecycle, JobsHeld, JobHeld, JobSetUp, Active, Live
<1>9. RuntimeIntact' /\ StartupTruthful'
  BY <1>2 DEF Lifecycle, RuntimeIntact, StartupTruthful, Starting, Live
<1> QED
  BY <1>1, <1>5, <1>6, <1>7, <1>8, <1>9 DEF Lifecycle


\* A thread that goes on with its start, and has set up what its stage says,
\* disturbs nobody: it is the only one at work, and there is no runtime yet.
LEMMA JobGoesOn ==
  ASSUME Lifecycle, TypeOK', NEW t \in Threads, Active(t),
         job[t].at # "report", job'[t].at \notin {"gone", "report"},
         job'[t].of = job[t].of,
         \A u \in Threads : u # t => job'[u] = job[u],
         UNCHANGED <<handle, startup, worker, gpu, runtime, once, call, sink, media>>,
         starting' \in {starting, Nobody},
         JobSetUp(t)'
  PROVE  Lifecycle'
<1>1. /\ JobHeld(t) /\ JobSetUp(t) /\ runtime = Nobody
      /\ \A u \in Threads : u # t => ~Active(u) /\ ~Active(u)'
  BY DEF Lifecycle, JobsHeld, JobSetUp, Active
<1>2. JobsHeld'
  BY <1>1 DEF JobsHeld, JobHeld, Live
<1>3. DyingIsDestroyed' /\ CleanupIsOfTheSession' /\ OneStarted'
  BY DEF Lifecycle, DyingIsDestroyed, CleanupIsOfTheSession, CleanDestroy, OneStarted
<1>4. OwnersLive'
  BY LegacyEngineAssumption DEF Lifecycle, OwnersLive, Live
<1>5. SinkHeld'
  BY DEF Lifecycle, SinkHeld, CleanDestroy, Live
<1>6. RuntimeIntact'
  <2>1. (\E u \in Threads : job'[u].at = "launch") => ~fast'
    BY <1>1 DEF JobSetUp, Active
  <2> QED
    BY <1>1, <2>1 DEF Lifecycle, RuntimeIntact
<1>7. StartupTruthful'
  <2>1. \A h \in Handles : Starting(h)' <=> Starting(h)
    BY <1>1 DEF Starting, Active
  <2> QED
    BY <2>1 DEF Lifecycle, StartupTruthful, Live
<1> QED
  BY <1>2, <1>3, <1>4, <1>5, <1>6, <1>7 DEF Lifecycle

\* What a thread does up to its report: the world of the handle it starts, and
\* the GPU path it read when it loaded that world.
LEMMA SetUpStep ==
  ASSUME Lifecycle, NEW t \in Threads,
         \/ RunOpenGameAsync(t) \/ LoadWorld(t) \/ StartApplication(t)
         \/ ReadSurface(t) \/ StartHostEngineLoop(t)
  PROVE  Lifecycle'
<1>1. TypeOK'
  BY TypeJob DEF Lifecycle, OpenGameCore
<1>2. Active(t) /\ job[t].at # "report"
  BY DEF RunOpenGameAsync, LoadWorld, StartApplication, ReadSurface, StartHostEngineLoop,
         Active
<1>3. UNCHANGED <<handle, startup, worker, gpu, runtime, starting, once, call, sink, media>>
  BY DEF RunOpenGameAsync, LoadWorld, StartApplication, ReadSurface, StartHostEngineLoop,
         registryVars, handleVars, worldVars
<1>4. job \in [Threads -> Jobs] /\ job[t] \in Jobs
  BY DEF Lifecycle, TypeOK
<1>5. \A u \in Threads : u # t => job'[u] = job[u]
  BY <1>4 DEF RunOpenGameAsync, LoadWorld, StartApplication, ReadSurface,
              StartHostEngineLoop
<1>6. JobSetUp(t) /\ JobHeld(t)
  BY <1>2 DEF Lifecycle, JobsHeld
<1>7. runtime = Nobody
  BY <1>2, <1>6 DEF JobSetUp
<1>8. /\ job'[t].at \notin {"gone", "report"} /\ job'[t].of = job[t].of
      /\ JobSetUp(t)'
  <2>1. CASE RunOpenGameAsync(t)
    BY <1>3, <1>4, <1>7, <2>1 DEF RunOpenGameAsync, Jobs, JobSetUp
  <2>2. CASE LoadWorld(t)
    <3>1. CASE job' = [job EXCEPT ![t].at = "clear"]
      BY <1>3, <1>4, <1>7, <3>1 DEF Jobs, JobSetUp
    <3>2. CASE /\ job' = [job EXCEPT ![t].at = "launch", ![t].gpu = gpu[job[t].of]]
               /\ world' = job[t].of
               /\ fast' = FALSE
      <4>1. job'[t] = [job[t] EXCEPT !.at = "launch", !.gpu = gpu[job[t].of]]
        BY <1>4, <3>2
      <4>2. job'[t].at = "launch" /\ job'[t].of = job[t].of /\ job'[t].gpu = gpu[job[t].of]
        BY <1>4, <4>1 DEF Jobs
      <4> QED
        BY <1>3, <1>7, <3>2, <4>2 DEF JobSetUp
    <3> QED
      BY <2>2, <3>1, <3>2 DEF LoadWorld
  <2>3. CASE StartApplication(t)
    <3>1. job'[t].at \in {"loop", "clear"} /\ job'[t].of = job[t].of
      BY <1>4, <2>3 DEF StartApplication, Jobs
    <3>2. world' = world /\ fast' = gpu[job[t].of] /\ world = job[t].of
      BY <1>6, <2>3 DEF StartApplication, JobSetUp
    <3> QED
      BY <1>3, <1>7, <3>1, <3>2 DEF JobSetUp
  <2>4. CASE ReadSurface(t)
    <3>1. job'[t] = [job[t] EXCEPT !.at = "surface", !.size = size[job[t].of]]
      BY <1>4, <2>4 DEF ReadSurface
    <3>2. job'[t].at = "surface" /\ job'[t].of = job[t].of
      BY <1>4, <3>1 DEF Jobs
    <3>3. UNCHANGED <<world, fast>> /\ job[t].at = "loop"
      BY <2>4 DEF ReadSurface, worldVars
    <3> QED
      BY <1>3, <1>6, <1>7, <3>2, <3>3 DEF JobSetUp
  <2>5. CASE StartHostEngineLoop(t)
    <3>1. job'[t].at = "mark" /\ job'[t].of = job[t].of
      BY <1>4, <2>5 DEF StartHostEngineLoop, Jobs
    <3>2. UNCHANGED <<world, fast>> /\ job[t].at = "surface"
      BY <2>5 DEF StartHostEngineLoop
    <3> QED
      BY <1>3, <1>6, <1>7, <3>1, <3>2 DEF JobSetUp
  <2> QED
    BY <2>1, <2>2, <2>3, <2>4, <2>5
<1> QED
  BY <1>1, <1>2, <1>3, <1>5, <1>8, JobGoesOn

\* A start that has come through makes its handle the owner of the runtime,
\* unless a destroy has taken it off the registry.
LEMMA MarkStep ==
  ASSUME Lifecycle, NEW t \in Threads, MarkRuntimeOpenedForHost(t)
  PROVE  Lifecycle'
<1> DEFINE h == job[t].of
<1>1. TypeOK'
  BY TypeJob DEF Lifecycle, OpenGameCore
<1>2. /\ Active(t) /\ job[t].at = "mark"
      /\ UNCHANGED <<startup, worker, gpu, world, fast, call, sink, media>>
  BY DEF MarkRuntimeOpenedForHost, Active, worldVars
<1>3. /\ JobHeld(t) /\ runtime = Nobody /\ world = h /\ fast = gpu[h] /\ h \in Handles
      /\ \A u \in Threads : u # t => ~Active(u)
  BY <1>2 DEF Lifecycle, JobsHeld, JobHeld, JobSetUp
<1>4. job \in [Threads -> Jobs] /\ job[t] \in Jobs
  BY DEF Lifecycle, TypeOK
<1>5. /\ job'[t].at = "report" /\ job'[t].of = h
      /\ \A u \in Threads : u # t => job'[u] = job[u]
  BY <1>4 DEF MarkRuntimeOpenedForHost, Jobs
<1>6. \A g \in Handles : Starting(g)' <=> Starting(g)
  BY <1>2, <1>3, <1>5 DEF Starting, Active
<1>7. \A u \in Threads : u # t => ~Active(u)'
  BY <1>3, <1>5 DEF Active
<1>8. CASE Live(h)
  <2>1. /\ starting' \in {starting, Nobody}
        /\ runtime' = h /\ once' = TRUE
        /\ \A g \in Handles : handle'[g] = IF g = h THEN "opened" ELSE handle[g]
    BY <1>3, <1>8 DEF MarkRuntimeOpenedForHost, Lifecycle, TypeOK
  <2>2. startup[h] = "running" /\ handle[h] # "dying"
    BY <1>3, <1>8 DEF JobHeld, Live
  <2>3. \A g \in Handles : Live(g)' <=> Live(g)
    BY <1>8, <2>1 DEF Live
  <2>4. ~CleanDestroy /\ ~CleanDestroy'
    <3>1. CleanDestroy => call.of # h
      BY <1>3, <2>2 DEF Lifecycle, CleanDestroy, DyingIsDestroyed
    <3> QED
      BY <1>2, <1>3, <2>2, <3>1 DEF Lifecycle, CleanupIsOfTheSession, CleanDestroy
  <2>5. DyingIsDestroyed'
    BY <1>2, <2>1, <2>2 DEF Lifecycle, DyingIsDestroyed
  <2>6. OwnersLive'
    BY <1>2, <1>8, <2>1, LegacyEngineAssumption DEF Lifecycle, OwnersLive, Live
  <2>7. OneStarted' /\ CleanupIsOfTheSession'
    BY <1>2, <2>4 DEF Lifecycle, OneStarted, CleanupIsOfTheSession, CleanDestroy
  <2>8. JobHeld(t)'
    BY <1>2, <1>3, <1>5, <2>1, <2>2 DEF JobHeld, Live
  <2>9. JobSetUp(t)'
    BY <1>5, <2>1 DEF JobSetUp
  <2>10. JobsHeld'
    BY <1>7, <2>8, <2>9 DEF JobsHeld
  <2>11. SinkHeld'
    BY <1>2, <2>1, <2>4 DEF Lifecycle, SinkHeld, Live
  <2>12. RuntimeIntact'
    <3>1. \A u \in Threads : job'[u].at # "launch"
      BY <1>5, <1>7 DEF Active
    <3>2. \A g \in Handles : handle[g] \notin {"opened", "paused"}
      BY <1>3, LegacyEngineAssumption DEF Lifecycle, RuntimeIntact
    <3> QED
      BY <1>2, <1>3, <2>1, <3>1, <3>2, LegacyEngineAssumption DEF RuntimeIntact
  <2>13. StartupTruthful'
    <3>1. \A g \in Handles \ {h} : startup[g] = "idle"
      BY <1>3, <2>2 DEF Lifecycle, OneStarted
    <3> QED
      BY <1>2, <1>3, <1>6, <2>1, <2>2, <2>3, <3>1 DEF Lifecycle, StartupTruthful
  <2> QED
    BY <1>1, <2>5, <2>6, <2>7, <2>10, <2>11, <2>12, <2>13 DEF Lifecycle
<1>9. CASE ~Live(h)
  <2>1. UNCHANGED <<runtime, starting, once, handle>>
    BY <1>9 DEF MarkRuntimeOpenedForHost, registryVars
  <2>2. JobsHeld'
    BY <1>2, <1>3, <1>5, <1>7, <1>9, <2>1 DEF JobsHeld, JobHeld, JobSetUp, Live
  <2>3. DyingIsDestroyed' /\ CleanupIsOfTheSession' /\ OneStarted'
    BY <1>2, <2>1 DEF Lifecycle, DyingIsDestroyed, CleanupIsOfTheSession, CleanDestroy,
                      OneStarted
  <2>4. OwnersLive' /\ SinkHeld'
    BY <1>2, <2>1 DEF Lifecycle, OwnersLive, SinkHeld, CleanDestroy, Live
  <2>5. RuntimeIntact'
    <3>1. \A u \in Threads : job'[u].at # "launch"
      BY <1>5, <1>7 DEF Active
    <3> QED
      BY <1>2, <2>1, <3>1 DEF Lifecycle, RuntimeIntact
  <2>6. StartupTruthful'
    BY <1>2, <1>6, <2>1 DEF Lifecycle, StartupTruthful, Live
  <2> QED
    BY <1>1, <2>2, <2>3, <2>4, <2>5, <2>6 DEF Lifecycle
<1> QED
  BY <1>8, <1>9


\* A start that has failed had not been marked: there is nothing to clear but the
\* start itself.
LEMMA ClearStep ==
  ASSUME Lifecycle, NEW t \in Threads, ClearRuntimeOwnerIfMatching(t)
  PROVE  Lifecycle'
<1>1. TypeOK'
  BY TypeJob DEF Lifecycle, OpenGameCore
<1>2. /\ Active(t) /\ job[t].at = "clear"
      /\ UNCHANGED <<startup, worker, gpu, world, fast, call, sink, media>>
      /\ starting' \in {starting, Nobody}
  BY DEF ClearRuntimeOwnerIfMatching, Active, worldVars
<1>3. runtime = Nobody /\ runtime # job[t].of
  BY <1>2, LegacyEngineAssumption DEF Lifecycle, JobsHeld, JobHeld, JobSetUp
<1>4. UNCHANGED <<runtime, once, handle>>
  BY <1>3 DEF ClearRuntimeOwnerIfMatching
<1>5. job \in [Threads -> Jobs] /\ job[t] \in Jobs
  BY DEF Lifecycle, TypeOK
<1>6. /\ job'[t].at = "fail" /\ job'[t].of = job[t].of
      /\ \A u \in Threads : u # t => job'[u] = job[u]
  BY <1>5 DEF ClearRuntimeOwnerIfMatching, Jobs
<1>7. JobSetUp(t)'
  BY <1>3, <1>4, <1>6 DEF JobSetUp
<1> QED
  BY <1>1, <1>2, <1>4, <1>6, <1>7, JobGoesOn

\* The last step of a start says what has become of it.
LEMMA ReportStep ==
  ASSUME Lifecycle, NEW t \in Threads, Report(t)
  PROVE  Lifecycle'
<1> DEFINE h == job[t].of
<1>1. TypeOK'
  BY TypeJob DEF Lifecycle, OpenGameCore
<1>2. /\ Active(t) /\ job[t].at \in {"report", "fail"}
      /\ UNCHANGED <<handle, worker, gpu, runtime, starting, once, world, fast, sink, media>>
  BY DEF Report, Active, registryVars, worldVars
<1>3. JobHeld(t) /\ JobSetUp(t) /\ h \in Handles
  BY <1>2 DEF Lifecycle, JobsHeld, JobHeld
<1>4. /\ startup'[h] = IF job[t].at = "report" THEN "succeeded" ELSE "failed"
      /\ \A g \in Handles : g # h => startup'[g] = startup[g]
  BY <1>3 DEF Report, Lifecycle, TypeOK
<1>5. \A u \in Threads : ~Active(u)'
  <2>1. \A u \in Threads : u # t => ~Active(u)
    BY <1>2 DEF Lifecycle, JobsHeld
  <2> QED
    BY <2>1, AwayTyped DEF Report, Lifecycle, TypeOK, Active
<1>6. \/ call' = call
      \/ call.at = "open" /\ call'.at = "idle"
  BY <1>3, LegacyEngineAssumption DEF Report, Quiet, JobHeld, Lifecycle, DyingIsDestroyed
<1>7. CleanDestroy' <=> CleanDestroy
  BY <1>6 DEF CleanDestroy
<1>8. DyingIsDestroyed'
  BY <1>2, <1>6 DEF Lifecycle, DyingIsDestroyed
<1>9. \A g \in Handles \ {h} : startup[g] = "idle"
  <2>1. CASE startup[h] = "running"
    BY <1>3, <2>1 DEF Lifecycle, OneStarted
  <2>2. CASE handle[h] = "dying" /\ call.at = "join" /\ call.clean
    BY <1>3, <2>2 DEF Lifecycle, DyingIsDestroyed, CleanupIsOfTheSession, CleanDestroy
  <2> QED
    BY <1>3, <2>1, <2>2 DEF JobHeld
<1>10. OwnersLive'
  BY <1>2, <1>3, <1>4 DEF Lifecycle, OwnersLive, JobHeld, Live
<1>11. OneStarted'
  BY <1>4, <1>9 DEF OneStarted
<1>12. CleanupIsOfTheSession'
  <2>1. CASE ~CleanDestroy
    BY <1>6, <1>7, <2>1 DEF Lifecycle, CleanupIsOfTheSession
  <2>2. CASE CleanDestroy
    <3>1. call' = call
      BY <1>6, <2>2 DEF CleanDestroy
    <3>2. h = call.of
      BY <1>3, <2>2 DEF Lifecycle, CleanDestroy, JobHeld, Live, DyingIsDestroyed,
                        CleanupIsOfTheSession
    <3> QED
      BY <1>2, <1>4, <2>2, <3>1, <3>2 DEF Lifecycle, CleanupIsOfTheSession, CleanDestroy
  <2> QED
    BY <2>1, <2>2
<1>13. JobsHeld'
  BY <1>5 DEF JobsHeld
<1>14. SinkHeld'
  <2>1. \A g \in Handles : startup[g] # "idle" => startup'[g] # "idle"
    BY <1>4
  <2>2. CleanDestroy => call' = call
    BY <1>6 DEF CleanDestroy
  <2> QED
    BY <1>2, <1>7, <2>1, <2>2 DEF Lifecycle, SinkHeld, Live
<1>15. RuntimeIntact'
  <2>1. call.at \in {"join", "cleanup"} => call' = call
    BY <1>6
  <2>2. \A u \in Threads : job'[u].at # "launch"
    BY <1>5 DEF Active
  <2> QED
    BY <1>2, <2>1, <2>2 DEF Lifecycle, RuntimeIntact
<1>16. StartupTruthful'
  <2>1. \A g \in Handles : ~Starting(g)'
    BY <1>5 DEF Starting, Active
  <2>2. ASSUME NEW g \in Handles, Live(g)
        PROVE  /\ startup'[g] = "succeeded" => runtime = g
               /\ startup'[g] # "running"
               /\ startup'[g] \in {"idle", "failed"} => runtime # g
    <3>1. CASE g = h
      <4>1. job[t].at = "report" => runtime = h
        BY <2>2, <3>1, <1>3 DEF JobSetUp
      <4>2. job[t].at = "fail" => runtime # h
        BY <1>3, LegacyEngineAssumption DEF JobSetUp
      <4> QED
        BY <1>2, <1>4, <3>1, <4>1, <4>2
    <3>2. CASE g # h
      <4>1. startup'[g] = "idle"
        BY <1>4, <1>9, <3>2
      <4>2. runtime # g
        BY <1>9, <2>2, <3>2 DEF Lifecycle, StartupTruthful
      <4> QED
        BY <4>1, <4>2
    <3> QED
      BY <3>1, <3>2
  <2> QED
    BY <1>2, <2>1, <2>2 DEF StartupTruthful, Live
<1> QED
  BY <1>1, <1>8, <1>10, <1>11, <1>12, <1>13, <1>14, <1>15, <1>16 DEF Lifecycle

\* Every step of a disciplined host, of a startup thread and of the log sink
\* preserves the invariant.
LEMMA LifecycleInductive == ASSUME Disciplined, Lifecycle, [Next]_vars PROVE Lifecycle'
<1> USE DEF registryVars, handleVars, worldVars, threadVars
<1>1. ASSUME UNCHANGED vars PROVE Lifecycle'
  <2>1. UNCHANGED <<handle, startup, worker, gpu, size, runtime, starting, once, world, fast,
                    hostSize, terminated, job, call, sink, media>>
    BY <1>1 DEF vars
  <2>2. TypeOK'
    BY <2>1 DEF Lifecycle, TypeOK
  <2> QED
    BY <2>1, <2>2, CallStep
<1>2. ASSUME Next PROVE Lifecycle'
  <2>0. TypeOK'
    BY <1>2, TypeStep DEF Lifecycle
  <2>1. ASSUME NEW h \in Handles,
               \/ engine_create(h) \/ engine_destroy(h)
               \/ engine_open_game(h) \/ engine_open_game_async(h)
               \/ engine_pause(h) \/ engine_resume(h)
               \/ engine_media_open(h)
               \/ \E r \in BOOLEAN : SetRenderer(h, r)
        PROVE  Lifecycle'
    BY <2>1, CreateStep, DestroyStep, OpenStep, OpenAsyncStep, PauseStep, MediaStep,
       RendererStep
  <2>2. ASSUME NEW h \in Handles, NEW s \in Sizes, engine_set_surface_size(h, s)
        PROVE  Lifecycle'
    BY <2>0, <2>2, CallStep DEF engine_set_surface_size
  <2>3. ASSUME NEW h \in Handles, engine_tick(h) PROVE Lifecycle'
    <3>1. call.at = "idle" /\ call'.at \in {"poll", "run"}
      BY <2>3 DEF engine_tick, Quiet
    <3> QED
      BY <2>0, <2>3, <3>1, CallStep DEF engine_tick, Busy
  <2>4. CASE engine_media_destroy
    BY <2>0, <2>4, CallStep DEF engine_media_destroy
  <2>5. CASE engine_get_frame_desc \/ engine_read_frame_rgba
    BY <2>0, <2>5, CallStep DEF engine_get_frame_desc, engine_read_frame_rgba
  <2>6. CASE engine_set_render_target_iosurface \/ engine_set_render_target_surface
    BY <2>0, <2>6, CallStep DEF engine_set_render_target_iosurface,
                               engine_set_render_target_surface, SetRenderTarget
  <2>7. CASE JoinStartupWorker \/ Cleanup \/ Delete
    BY <2>7, JoinStep, CleanupStep, DeleteStep
  <2>8. CASE JoinStaleWorker \/ JoinMovie \/ Run \/ JoinDecoder
             \/ engine_get_frame_rendered_flag
    <3>1. call.at \in {"join stale", "run", "join decoder", "poll"}
      BY <2>8 DEF JoinStaleWorker, JoinMovie, Run, JoinDecoder, engine_get_frame_rendered_flag
    <3>2. call'.at \in {"idle", "join decoder", "poll"}
      <4>1. call \in Calls
        BY DEF Lifecycle, TypeOK
      <4>2. \/ call' = Quiet
            \/ call' = [call EXCEPT !.at = "join decoder"]
            \/ call' = [call EXCEPT !.at = "poll"]
        <5>1. CASE JoinStaleWorker \/ engine_get_frame_rendered_flag
          BY <5>1 DEF JoinStaleWorker, engine_get_frame_rendered_flag
        <5>2. CASE JoinMovie
          BY <5>2 DEF JoinMovie
        <5>3. CASE Run \/ JoinDecoder
          <6>1. RunEnds
            BY <5>3 DEF Run, JoinDecoder
          <6>2. call' = Quiet \/ call' = [call EXCEPT !.at = "poll"]
            BY <6>1 DEF RunEnds
          <6> QED
            BY <6>2
        <5> QED
          BY <2>8, <5>1, <5>2, <5>3
      <4>3. [call EXCEPT !.at = "join decoder"].at = "join decoder"
        BY <4>1 DEF Calls
      <4>4. [call EXCEPT !.at = "poll"].at = "poll"
        BY <4>1 DEF Calls
      <4>5. Quiet.at = "idle"
        BY DEF Quiet
      <4>6. call'.at = "idle" \/ call'.at = "join decoder" \/ call'.at = "poll"
        BY <4>2, <4>3, <4>4, <4>5, Zenon
      <4> QED
        BY <4>6
    <3>3. UNCHANGED <<handle, startup, worker, gpu, runtime, starting, once, world, fast,
                      job, sink, media>>
      BY <2>8 DEF JoinStaleWorker, JoinMovie, Run, JoinDecoder, engine_get_frame_rendered_flag
    <3> QED
      BY <2>0, <3>1, <3>2, <3>3, CallStep DEF Busy
  <2>9. ASSUME NEW t \in Threads, OpenGameCore(t) \/ RunOpenGameAsync(t) PROVE Lifecycle'
    BY <2>9, SetUpStep, MarkStep, ClearStep, ReportStep DEF OpenGameCore
  <2>10. CASE LogLine \/ TryLock \/ PushStartupLog
    BY <2>10, SinkStep
  <2> QED
    BY <1>2, <2>1, <2>2, <2>3, <2>4, <2>5, <2>6, <2>7, <2>8, <2>9, <2>10
    DEF Next, HostCall, HostGoesOn, Worker, Sink, Threads
<1> QED
  BY <1>1, <1>2

\* For a disciplined host the invariant holds throughout.
THEOREM LifecycleInvariant == ASSUME Disciplined PROVE Spec => []Lifecycle
<1>1. ASSUME Lifecycle, [Next]_vars PROVE Lifecycle'
  BY <1>1, LifecycleInductive
<1> QED
  BY <1>1, LifecycleInitial, PTL DEF Spec

\* Nobody writes to a handle that has been deleted: neither its startup thread,
\* nor a decoder in the log sink, nor the media handle opened on it.
THEOREM MemorySafety == ASSUME Disciplined PROVE Spec => []HandleMemorySafe
<1>1. Lifecycle => HandleMemorySafe
  BY DEF Lifecycle, HandleMemorySafe, DyingIsDestroyed, OwnersLive, JobsHeld, JobHeld, Active,
         Starting, SinkHeld, CleanDestroy, Live
<1> QED
  BY <1>1, LifecycleInvariant, PTL

\* The runtime, its world and its GPU path belong to the one handle that is opened
\* or paused, and the process does not refuse games for a runtime that is gone.
THEOREM RuntimeOwnership == ASSUME Disciplined PROVE Spec => []RuntimeIntact
<1>1. Lifecycle => RuntimeIntact
  BY DEF Lifecycle
<1> QED
  BY <1>1, LifecycleInvariant, PTL

\* What engine_get_startup_state answers is what has become of the start.
THEOREM StartupTruth == ASSUME Disciplined PROVE Spec => []StartupTruthful
<1>1. Lifecycle => StartupTruthful
  BY DEF Lifecycle
<1> QED
  BY <1>1, LifecycleInvariant, PTL


----------------------------------------------------------------------------
(* The frames: what LegacyFrames makes of a frame. *)

\* What the script world composes is a later picture, or none, and leaves the
\* layer as sound as it was.
LEMMA CompositionSound ==
  ASSUME NEW host \in Hosts, NEW on \in Targets, NEW g \in BOOLEAN, Sound(host, on),
         NEW new \in Compositions(host, on, g)
  PROVE  new \in Hosts /\ Sound(new, on)
<1> USE LegacyFramesAssumption
<1> DEFINE n == host.composed + 1
<1>1. host.composed \in 0..MaxSerial /\ host.cpu \in 0..MaxSerial /\ host.gpu \in 0..MaxSerial
  BY DEF Hosts
<1>2. CASE new = host
  BY <1>2
<1>3. CASE n <= MaxSerial /\ on # "pbuffer" /\ new = [host EXCEPT !.composed = n]
  <2>1. new.composed = n /\ new.cpu = host.cpu /\ new.gpu = host.gpu /\ new \in Hosts
    BY <1>1, <1>3 DEF Hosts
  <2> QED
    BY <1>1, <1>3, <2>1 DEF Sound, NoPicture
<1>4. CASE /\ n <= MaxSerial /\ on = "pbuffer"
           /\ \/ new = [composed |-> n, cpu |-> n, gpu |-> NoPicture]
              \/ new = [composed |-> n, cpu |-> host.cpu, gpu |-> n]
              \/ new = [composed |-> n, cpu |-> n, gpu |-> n]
  <2>1. new \in Hosts
    BY <1>1, <1>4 DEF Hosts, NoPicture
  <2>2. new.cpu <= new.composed
    BY <1>1, <1>4 DEF Sound, NoPicture
  <2>3. new.gpu \in {NoPicture, new.composed}
    BY <1>4
  <2> QED
    BY <1>4, <2>1, <2>2, <2>3 DEF Sound
<1> QED
  BY <1>1, <1>2, <1>3, <1>4 DEF Compositions

\* A frame is marked by whether its serial has moved.
LEMMA MarkedFrame ==
  ASSUME NEW a \in Frames, NEW b \in Frames, NEW c, c = Marked(a, b)
  PROVE  /\ c \in Frames /\ c.serial = a.serial /\ c.pic = a.pic
         /\ (c.rendered <=> a.serial # b.serial)
<1>1. (a.serial # b.serial) \in BOOLEAN
  OBVIOUS
<1> QED
  BY <1>1 DEF Marked, Frames

\* The frames LegacyFrames makes of frames are frames.
LEMMA FrameOps ==
  ASSUME NEW a \in Frames, NEW b \in Frames, NEW host \in Hosts
  PROVE  /\ Marked(a, b) \in Frames
         /\ [a EXCEPT !.serial = host.composed, !.ready = host.composed # 0] \in Frames
         /\ CaptureGpuFrame(a, host) \in Frames
         /\ CopyHostFrame(a, host) \in Frames
         /\ LaidOut(a) \in Frames /\ [a EXCEPT !.pic = Fallback] \in Frames
         /\ [a EXCEPT !.pic = Fallback, !.rendered = FALSE] \in Frames
         /\ a.serial < MaxSerial => Counted(a) \in Frames
<1> USE LegacyFramesAssumption
<1>1. /\ host.composed \in 0..MaxSerial /\ host.cpu \in 0..MaxSerial
      /\ host.gpu \in 0..MaxSerial
  BY DEF Hosts
<1>2. /\ a.serial \in 0..MaxSerial /\ a.pic \in 0..Fallback
      /\ a.ready \in BOOLEAN /\ a.sized \in BOOLEAN /\ a.rendered \in BOOLEAN
  BY DEF Frames
<1>3. Fallback \in 0..Fallback /\ 0..MaxSerial \subseteq 0..Fallback /\ 0 \in 0..Fallback
  BY DEF Fallback
<1>4. (host.composed # 0) \in BOOLEAN
  OBVIOUS
<1>5. Marked(a, b) \in Frames
  BY MarkedFrame
<1>6. [a EXCEPT !.serial = host.composed, !.ready = host.composed # 0] \in Frames
  BY <1>1, <1>4 DEF Frames
<1>7. CaptureGpuFrame(a, host) \in Frames
  BY <1>1, <1>3 DEF CaptureGpuFrame, Frames, NoPicture
<1>8. CopyHostFrame(a, host) \in Frames
  BY <1>1, <1>3 DEF CopyHostFrame, Frames
<1>9. LaidOut(a) \in Frames /\ [a EXCEPT !.pic = Fallback] \in Frames
  BY <1>3 DEF LaidOut, Frames
<1>10. [a EXCEPT !.pic = Fallback, !.rendered = FALSE] \in Frames
  BY <1>3 DEF Frames
<1>11. a.serial < MaxSerial => a.serial + 1 \in 0..MaxSerial
  BY <1>2
<1>12. a.serial < MaxSerial => Counted(a) \in Frames
  BY <1>11 DEF Counted, Frames
<1> QED
  BY <1>5, <1>6, <1>7, <1>8, <1>9, <1>10, <1>12

\* The frames a tick may publish, field by field.
LEMMA PublishCases ==
  ASSUME NEW f \in Frames, NEW host \in Hosts, NEW on \in Targets, NEW g \in BOOLEAN,
         NEW new \in Publish(f, host, on, g)
  PROVE  \/ /\ on = "window"
            /\ new.serial = host.composed /\ new.pic = f.pic
            /\ new.ready = (host.composed # 0) /\ new.sized = f.sized
            /\ (new.rendered <=> new.serial # f.serial)
         \/ /\ on = "iosurface" /\ new = Counted(f)
         \/ /\ on = "pbuffer" /\ CanCaptureGpuFrame(host, g)
            /\ new.serial = host.gpu /\ new.pic = NoPicture
            /\ new.ready = TRUE /\ new.sized = TRUE
            /\ (new.rendered <=> new.serial # f.serial)
         \/ /\ on = "pbuffer" /\ ~CanCaptureGpuFrame(host, g) /\ host.cpu # NoPicture
            /\ new.serial = host.cpu /\ new.pic = host.cpu
            /\ new.ready = TRUE /\ new.sized = TRUE
            /\ (new.rendered <=> new.serial # f.serial)
         \/ /\ on = "pbuffer" /\ ~CanCaptureGpuFrame(host, g) /\ host.cpu = NoPicture
            /\ new.pic = Fallback
            /\ \/ f.serial < MaxSerial /\ new.serial = f.serial + 1 /\ new.rendered = TRUE
               \/ new.serial = f.serial /\ new.rendered = FALSE
            /\ new \in ReadBack(f)
<1>1. CASE on = "window"
  <2>1. new = Marked([f EXCEPT !.serial = host.composed, !.ready = host.composed # 0], f)
    BY <1>1 DEF Publish
  <2> QED
    BY <1>1, <2>1 DEF Marked, Frames
<1>2. CASE on = "iosurface"
  BY <1>2 DEF Publish
<1>3. CASE on = "pbuffer" /\ CanCaptureGpuFrame(host, g)
  <2>1. new = Marked(CaptureGpuFrame(f, host), f)
    BY <1>3 DEF Publish
  <2> QED
    BY <1>3, <2>1 DEF Marked, CaptureGpuFrame, Frames
<1>4. CASE on = "pbuffer" /\ ~CanCaptureGpuFrame(host, g) /\ CanCopyHostFrame(host)
  <2>1. new = Marked(CopyHostFrame(f, host), f)
    BY <1>4 DEF Publish
  <2> QED
    BY <1>4, <2>1 DEF Marked, CopyHostFrame, CanCopyHostFrame, Frames
<1>5. CASE on = "pbuffer" /\ ~CanCaptureGpuFrame(host, g) /\ ~CanCopyHostFrame(host)
  <2>1. new \in ReadBack(f)
    BY <1>5 DEF Publish
  <2>2. \/ f.serial < MaxSerial /\ new = Counted(LaidOut(f))
        \/ new = [f EXCEPT !.pic = Fallback, !.rendered = FALSE]
    BY <2>1 DEF ReadBack, ReadCurrentFrameRgba
  <2>3. CASE f.serial < MaxSerial /\ new = Counted(LaidOut(f))
    BY <1>5, <2>1, <2>3 DEF Counted, LaidOut, CanCopyHostFrame, Frames
  <2>4. CASE new = [f EXCEPT !.pic = Fallback, !.rendered = FALSE]
    BY <1>5, <2>1, <2>4 DEF CanCopyHostFrame, Frames
  <2> QED
    BY <2>2, <2>3, <2>4
<1> QED
  BY <1>1, <1>2, <1>3, <1>4, <1>5 DEF Targets


\* What a tick publishes has the pixels of its serial, and a serial that names no
\* later picture than the one it shows; when it moves no serial, the picture is no
\* later than the frame it found.
LEMMA PublishSound ==
  ASSUME NEW f \in Frames, NEW host \in Hosts, NEW on \in Targets, NEW g \in BOOLEAN,
         Sound(host, on), Named(f, on),
         on = "iosurface" => f.serial < MaxSerial,
         NEW new \in Publish(f, host, on, g),
         NEW p, p = Published(new, host, on, g)
  PROVE  /\ new \in Frames /\ Named(new, on) /\ p \in 0..MaxSerial
         /\ new.rendered /\ p # NoPicture =>
              (on # "iosurface" => new.serial <= p) /\ host.cpu <= p
         /\ ~new.rendered =>
              /\ on # "iosurface" /\ new.serial = f.serial
              /\ p <= f.serial /\ host.cpu <= f.serial
<1> USE LegacyFramesAssumption DEF NoPicture
<1>1. /\ host.composed \in 0..MaxSerial /\ host.cpu \in 0..MaxSerial
      /\ host.gpu \in 0..MaxSerial
  BY DEF Hosts
<1>2. /\ f.serial \in 0..MaxSerial /\ f.pic \in 0..Fallback
      /\ f.ready \in BOOLEAN /\ f.sized \in BOOLEAN /\ f.rendered \in BOOLEAN
  BY DEF Frames
<1>3. Fallback \in Nat /\ Fallback > MaxSerial
  BY DEF Fallback
<1>4. CASE on = "window"
  <2> DEFINE e == [f EXCEPT !.serial = host.composed, !.ready = host.composed # 0]
  <2>1. new = Marked(e, f)
    BY <1>4 DEF Publish
  <2>2. e \in Frames /\ e.serial = host.composed /\ e.pic = f.pic
    <3>1. e.serial = host.composed /\ e.pic = f.pic
      BY DEF Frames
    <3> QED
      BY <3>1, FrameOps
  <2> HIDE DEF e
  <2>3. /\ new \in Frames /\ new.serial = host.composed /\ new.pic = f.pic
        /\ (new.rendered <=> new.serial # f.serial)
    <3>1. /\ new \in Frames /\ new.serial = e.serial /\ new.pic = e.pic
          /\ (new.rendered <=> e.serial # f.serial)
      BY <2>1, <2>2, MarkedFrame
    <3> QED
      BY <2>2, <3>1
  <2>4. p = host.composed /\ host.cpu = 0
    BY <1>4 DEF Published, Sound
  <2> QED
    BY <1>1, <1>2, <1>4, <2>3, <2>4 DEF Named
<1>5. CASE on = "iosurface"
  <2>1. new = Counted(f)
    BY <1>5, PublishCases
  <2>2. new \in Frames /\ new.pic = f.pic /\ new.rendered = TRUE
    <3>1. new.pic = f.pic /\ new.rendered = TRUE
      BY <2>1 DEF Counted, Frames
    <3> QED
      BY <1>5, <2>1, <3>1, FrameOps
  <2>3. p = host.composed /\ host.cpu = 0
    BY <1>5 DEF Published, Sound
  <2> QED
    BY <1>1, <1>2, <1>5, <2>2, <2>3 DEF Named
<1>6. CASE on = "pbuffer" /\ CanCaptureGpuFrame(host, g)
  <2>1. new = Marked(CaptureGpuFrame(f, host), f)
    BY <1>6 DEF Publish
  <2>2. new \in Frames
    BY <2>1, FrameOps
  <2>3. new.serial = host.gpu /\ new.pic = 0 /\ (new.rendered <=> new.serial # f.serial)
    BY <1>6, PublishCases
  <2>4. p = host.gpu /\ host.gpu = host.composed
    BY <1>6 DEF Published, Sound, CanCaptureGpuFrame
  <2>5. new.pic \notin Pictures /\ host.cpu <= p
    BY <1>1, <2>3, <2>4 DEF Sound, Pictures
  <2> QED
    BY <1>1, <1>2, <1>6, <2>2, <2>3, <2>4, <2>5 DEF Named
<1>7. CASE on = "pbuffer" /\ ~CanCaptureGpuFrame(host, g) /\ host.cpu # 0
  <2>1. new = Marked(CopyHostFrame(f, host), f)
    BY <1>7 DEF Publish, CanCopyHostFrame
  <2> DEFINE e == CopyHostFrame(f, host)
  <2>2. e \in Frames /\ e.serial = host.cpu /\ e.pic = host.cpu
    <3>1. e.serial = host.cpu /\ e.pic = host.cpu
      BY DEF CopyHostFrame, Frames
    <3> QED
      BY <3>1, FrameOps
  <2> HIDE DEF e
  <2>3. /\ new \in Frames /\ new.serial = host.cpu /\ new.pic = host.cpu
        /\ (new.rendered <=> new.serial # f.serial)
    <3>1. new = Marked(e, f)
      BY <2>1 DEF e
    <3>2. /\ new \in Frames /\ new.serial = e.serial /\ new.pic = e.pic
          /\ (new.rendered <=> e.serial # f.serial)
      BY <2>2, <3>1, MarkedFrame
    <3> QED
      BY <2>2, <3>2
  <2>4. p = host.cpu
    BY <1>1, <1>7, <2>3 DEF Published, Pictures
  <2> QED
    BY <1>1, <1>2, <1>7, <2>3, <2>4 DEF Named
<1>8. CASE on = "pbuffer" /\ ~CanCaptureGpuFrame(host, g) /\ host.cpu = 0
  <2>1. /\ new.pic = Fallback
        /\ \/ f.serial < MaxSerial /\ new.serial = f.serial + 1 /\ new.rendered = TRUE
           \/ new.serial = f.serial /\ new.rendered = FALSE
        /\ new \in ReadBack(f)
    BY <1>8, PublishCases
  <2>2. \/ f.serial < MaxSerial /\ new = Counted(LaidOut(f))
        \/ new = [f EXCEPT !.pic = Fallback, !.rendered = FALSE]
    BY <2>1 DEF ReadBack, ReadCurrentFrameRgba
  <2>3. new \in Frames
    <3>1. LaidOut(f).serial = f.serial
      BY DEF LaidOut, Frames
    <3> QED
      <4>1. CASE f.serial < MaxSerial /\ new = Counted(LaidOut(f))
        <5>1. LaidOut(f) \in Frames
          BY FrameOps
        <5> QED
          BY <3>1, <4>1, <5>1, FrameOps
      <4>2. CASE new = [f EXCEPT !.pic = Fallback, !.rendered = FALSE]
        BY <4>2, FrameOps
      <4> QED
        BY <2>2, <4>1, <4>2
  <2>4. new.pic \notin Pictures
    BY <1>3, <2>1 DEF Pictures
  <2>5. p = 0
    BY <1>8, <2>4 DEF Published
  <2> QED
    BY <1>1, <1>2, <1>8, <2>1, <2>3, <2>4, <2>5 DEF Named
<1> QED
  BY <1>4, <1>5, <1>6, <1>7, <1>8 DEF Targets

\* A host that reads between ticks leaves the frame as it is, or takes the latest
\* CPU picture, or makes up pixels.
LEMMA ReadSound ==
  ASSUME NEW f \in Frames, NEW host \in Hosts, NEW on \in Targets,
         Sound(host, on), Named(f, on),
         NEW new \in {Described(f, host), Read(f, host)}
  PROVE  /\ new \in Frames /\ Named(new, on) /\ new.rendered = f.rendered
         /\ new.serial = f.serial \/ (new.serial = host.cpu /\ on = "pbuffer")
<1> USE LegacyFramesAssumption DEF NoPicture
<1>1. /\ host.composed \in 0..MaxSerial /\ host.cpu \in 0..MaxSerial
      /\ host.gpu \in 0..MaxSerial
  BY DEF Hosts
<1>2. Fallback \in 0..Fallback /\ Fallback \notin Pictures /\ 0..MaxSerial \subseteq 0..Fallback
  BY DEF Fallback, Pictures
<1>3. ASSUME NEW a \in Frames, Named(a, on), CanCopyHostFrame(host)
      PROVE  /\ CopyHostFrame(a, host) \in Frames /\ Named(CopyHostFrame(a, host), on)
             /\ CopyHostFrame(a, host).rendered = a.rendered
             /\ CopyHostFrame(a, host).serial = host.cpu /\ on = "pbuffer"
  <2>1. /\ CopyHostFrame(a, host) \in Frames
        /\ CopyHostFrame(a, host).rendered = a.rendered
        /\ CopyHostFrame(a, host).serial = host.cpu
        /\ CopyHostFrame(a, host).pic = host.cpu
    BY <1>1, <1>2 DEF CopyHostFrame, Frames
  <2>2. on = "pbuffer"
    BY <1>3 DEF CanCopyHostFrame, Sound
  <2> QED
    BY <2>1, <2>2 DEF Named
<1>4. ASSUME NEW a \in Frames, Named(a, on)
      PROVE  /\ Described(a, host) \in Frames /\ Named(Described(a, host), on)
             /\ Described(a, host).rendered = a.rendered
             /\ \/ Described(a, host).serial = a.serial
                \/ Described(a, host).serial = host.cpu /\ on = "pbuffer"
  BY <1>3, <1>4 DEF Described
<1>5. ASSUME NEW a \in Frames, Named(a, on)
      PROVE  /\ WithSize(a) \in Frames /\ Named(WithSize(a), on)
             /\ WithSize(a).rendered = a.rendered /\ WithSize(a).serial = a.serial
  <2>1. CASE WithSize(a) = [LaidOut(a) EXCEPT !.ready = TRUE]
    <3>1. /\ WithSize(a) \in Frames /\ WithSize(a).pic = Fallback
          /\ WithSize(a).rendered = a.rendered /\ WithSize(a).serial = a.serial
      BY <1>2, <2>1 DEF LaidOut, Frames
    <3> QED
      BY <1>2, <3>1 DEF Named
  <2> QED
    BY <1>5, <2>1 DEF WithSize
<1>6. ASSUME NEW a \in Frames, Named(a, on)
      PROVE  /\ WithPixels(a, host) \in Frames /\ Named(WithPixels(a, host), on)
             /\ WithPixels(a, host).rendered = a.rendered
             /\ \/ WithPixels(a, host).serial = a.serial
                \/ WithPixels(a, host).serial = host.cpu /\ on = "pbuffer"
  <2>1. CASE WithPixels(a, host) = [a EXCEPT !.pic = Fallback]
    <3>1. /\ WithPixels(a, host) \in Frames /\ WithPixels(a, host).pic = Fallback
          /\ WithPixels(a, host).rendered = a.rendered
          /\ WithPixels(a, host).serial = a.serial
      BY <1>2, <2>1 DEF Frames
    <3> QED
      BY <1>2, <3>1 DEF Named
  <2> QED
    BY <1>3, <1>6, <2>1 DEF WithPixels
<1>7. CASE new = Described(f, host)
  BY <1>4, <1>7
<1>8. CASE new = Read(f, host)
  <2> DEFINE a == Described(f, host)
             b == WithSize(a)
  <2>1. /\ a \in Frames /\ Named(a, on) /\ a.rendered = f.rendered
        /\ a.serial = f.serial \/ (a.serial = host.cpu /\ on = "pbuffer")
    BY <1>4
  <2>2. b \in Frames /\ Named(b, on) /\ b.rendered = a.rendered /\ b.serial = a.serial
    BY <1>5, <2>1
  <2>3. new = WithPixels(b, host)
    BY <1>8 DEF Read
  <2> HIDE DEF a, b
  <2> QED
    BY <1>6, <2>1, <2>2, <2>3
<1> QED
  BY <1>7, <1>8


----------------------------------------------------------------------------
(* The frames: the steps of the backend. *)

Ticking == {"run", "join decoder", "poll"}

\* Before the first call there is no frame.
LEMMA PicturedInitial == Init => Pictured
<1> SUFFICES ASSUME Init PROVE Pictured
  OBVIOUS
<1> USE LegacyFramesAssumption DEF Init, NoFrame, NoHost, NoPicture
<1>1. FrameTypeOK
  BY DEF FrameTypeOK, Frames, Hosts, Targets, Fallback
<1>2. LayerSound /\ PixelsNamed
  BY DEF LayerSound, Sound, PixelsNamed, Named, Pictures
<1>3. FramesAreOfTheRuntime /\ PicturesTold
  BY DEF FramesAreOfTheRuntime, PicturesTold, ToldNext, Quiet
<1> QED
  BY <1>1, <1>2, <1>3 DEF Pictured

\* A step that leaves the frames, and the runtime they are of, as they are.
LEMMA FramesStay ==
  ASSUME Pictured,
         UNCHANGED <<runtime, frame, target, layer, published, told>>,
         call' = call \/ (call.at \notin Ticking /\ call'.at \notin Ticking),
         terminated' = terminated \/ runtime = Nobody,
         CleanDestroy => CleanDestroy'
  PROVE  Pictured'
<1>1. FrameTypeOK' /\ LayerSound' /\ PixelsNamed'
  BY DEF Pictured, FrameTypeOK, LayerSound, PixelsNamed
<1>2. call'.at \in Ticking \/ call.at \in Ticking => call' = call /\ runtime # Nobody
  BY DEF Pictured, FramesAreOfTheRuntime, Ticking
<1>3. runtime # Nobody => terminated' = terminated
  OBVIOUS
<1>4. FramesAreOfTheRuntime'
  <2>1. runtime = Nobody => /\ frame = NoFrame /\ target = "pbuffer"
                            /\ published = NoPicture /\ told = NoPicture
                            /\ CleanDestroy \/ layer = NoHost
    BY DEF Pictured, FramesAreOfTheRuntime
  <2>2. call'.at \in Ticking => runtime' = call'.of /\ runtime' # Nobody /\ ~terminated'
    BY <1>2, <1>3 DEF Pictured, FramesAreOfTheRuntime, Ticking
  <2> QED
    BY <2>1, <2>2 DEF FramesAreOfTheRuntime, Ticking
<1>5. PicturesTold'
  <2>1. CASE call.at \in Ticking \/ call'.at \in Ticking
    <3>1. UNCHANGED <<call, terminated>>
      BY <1>2, <1>3, <2>1
    <3> QED
      BY <3>1 DEF Pictured, PicturesTold, Known, ToldNext
  <2>2. CASE call.at \notin Ticking /\ call'.at \notin Ticking
    <3>1. ~ToldNext /\ ~ToldNext' /\ (Known(told)' <=> Known(told))
      BY <2>2 DEF ToldNext, Ticking, Known
    <3>2. /\ published <= told
          /\ runtime # Nobody /\ ~terminated => Known(told)
      BY <3>1 DEF Pictured, PicturesTold
    <3> QED
      BY <1>3, <2>2, <3>1, <3>2 DEF PicturesTold, Ticking
  <2> QED
    BY <2>1, <2>2
<1> QED
  BY <1>1, <1>4, <1>5 DEF Pictured

\* engine_destroy takes the frame away with the runtime.
LEMMA PicturedDestroy ==
  ASSUME Lifecycle, Pictured, NEW h \in Handles, engine_destroy(h)
  PROVE  Pictured'
<1> USE LegacyFramesAssumption
<1>1. /\ call.at = "idle" /\ call'.at = "join" /\ call'.clean = NeedsSessionCleanup(h)
      /\ UNCHANGED <<terminated, layer>>
      /\ runtime' = (IF runtime = h THEN Nobody ELSE runtime)
  BY DEF engine_destroy, worldVars
<1>2. CASE runtime = h
  <2>1. /\ runtime' = Nobody /\ CleanDestroy'
        /\ frame' = NoFrame /\ target' = "pbuffer"
        /\ published' = NoPicture /\ told' = NoPicture
    BY <1>1, <1>2 DEF engine_destroy, CleanDestroy, NeedsSessionCleanup
  <2>2. FrameTypeOK'
    BY <1>1, <2>1 DEF Pictured, FrameTypeOK, Frames, Targets, NoFrame, NoPicture, Fallback
  <2>3. LayerSound' /\ PixelsNamed'
    BY <1>1, <2>1 DEF Pictured, LayerSound, Sound, PixelsNamed, Named, NoFrame, NoPicture,
                      Pictures
  <2>4. FramesAreOfTheRuntime' /\ PicturesTold'
    BY <1>1, <2>1 DEF FramesAreOfTheRuntime, PicturesTold, ToldNext, NoPicture
  <2> QED
    BY <2>2, <2>3, <2>4 DEF Pictured
<1>3. CASE runtime # h
  <2>1. UNCHANGED <<runtime, frame, target, published, told>>
    BY <1>1, <1>3 DEF engine_destroy, frameVars
  <2>2. ~CleanDestroy
    BY <1>1 DEF CleanDestroy
  <2> QED
    BY <1>1, <2>1, <2>2, FramesStay DEF Ticking
<1> QED
  BY <1>2, <1>3

\* The cleanup takes the host window layer away, with nothing left to show it.
LEMMA PicturedCleanup ==
  ASSUME Lifecycle, Pictured, Cleanup
  PROVE  Pictured'
<1> USE LegacyFramesAssumption
<1>1. /\ UNCHANGED <<runtime, frame, target, published, told>>
      /\ layer' = NoHost /\ call.at = "cleanup"
  BY DEF Cleanup, frameVars
<1>2. runtime = Nobody
  BY <1>1 DEF Lifecycle, CleanupIsOfTheSession, CleanDestroy
<1>3. call'.at = "delete"
  BY DEF Cleanup, Lifecycle, TypeOK, Calls
<1>4. FrameTypeOK' /\ LayerSound' /\ PixelsNamed'
  BY <1>1 DEF Pictured, FrameTypeOK, LayerSound, Sound, PixelsNamed, NoHost, Hosts, NoPicture
<1>5. FramesAreOfTheRuntime' /\ PicturesTold'
  BY <1>1, <1>2, <1>3 DEF Pictured, FramesAreOfTheRuntime, PicturesTold, ToldNext
<1> QED
  BY <1>4, <1>5 DEF Pictured

\* A game that has just been opened has no frame yet, and nothing composed.
LEMMA PicturedMark ==
  ASSUME Lifecycle, Lifecycle', Pictured, NEW t \in Threads, MarkRuntimeOpenedForHost(t)
  PROVE  Pictured'
<1> USE LegacyFramesAssumption
<1>1. /\ UNCHANGED <<terminated, call, target, layer, published, told>>
      /\ job[t].at = "mark"
  BY DEF MarkRuntimeOpenedForHost, worldVars
<1>2. runtime = Nobody /\ job[t].of # Nobody
  BY <1>1, LegacyEngineAssumption DEF Lifecycle, JobsHeld, JobHeld, JobSetUp, Active
<1>3. CASE Live(job[t].of)
  <2>1. /\ runtime' # Nobody /\ frame' = Resized(frame) /\ frame = NoFrame
        /\ target = "pbuffer" /\ published = NoPicture /\ told = NoPicture
    BY <1>2, <1>3 DEF MarkRuntimeOpenedForHost, Pictured, FramesAreOfTheRuntime
  <2>2. layer = NoHost
    BY <1>1, <1>2, <2>1
    DEF Lifecycle, CleanupIsOfTheSession, CleanDestroy, Pictured, FramesAreOfTheRuntime
  <2>3. frame' = NoFrame
    BY <2>1 DEF Resized, NoFrame
  <2>4. call.at \notin Ticking
    BY <1>2 DEF Pictured, FramesAreOfTheRuntime, Ticking
  <2>5. FrameTypeOK' /\ LayerSound' /\ PixelsNamed'
    BY <1>1, <2>1, <2>3 DEF Pictured, FrameTypeOK, LayerSound, PixelsNamed
  <2>6. FramesAreOfTheRuntime'
    BY <1>1, <2>1, <2>4 DEF FramesAreOfTheRuntime, Ticking
  <2>7. PicturesTold'
    <3>1. frame'.serial = 0 /\ layer'.cpu = 0 /\ told' = 0 /\ published' = 0
      BY <1>1, <2>1, <2>2, <2>3 DEF NoFrame, NoHost, NoPicture
    <3>2. Known(told)'
      BY <3>1 DEF Known
    <3>3. call'.at \notin {"run", "join decoder", "poll"}
      BY <1>1, <2>4 DEF Ticking
    <3>4. published' <= told'
      BY <3>1
    <3> QED
      BY <3>2, <3>3, <3>4 DEF PicturesTold, ToldNext
  <2> QED
    BY <2>5, <2>6, <2>7 DEF Pictured
<1>4. CASE ~Live(job[t].of)
  <2>1. UNCHANGED <<runtime, frame>>
    BY <1>4 DEF MarkRuntimeOpenedForHost, registryVars
  <2> QED
    BY <1>1, <2>1, FramesStay DEF CleanDestroy
<1> QED
  BY <1>3, <1>4

\* Before the first picture a target may be attached, or taken away.
LEMMA Retarget ==
  ASSUME Pictured, frame.serial = 0, layer.composed = 0, NEW on \in Targets
  PROVE  Sound(layer, on) /\ Named(frame, on)
  BY LegacyFramesAssumption
  DEF Pictured, FrameTypeOK, LayerSound, Sound, PixelsNamed, Named, Pictures, NoPicture, Hosts

\* A tick begins with what the ticks before it have told.
LEMMA PicturedTick ==
  ASSUME Disciplined, Lifecycle, Pictured, NEW h \in Handles, engine_tick(h)
  PROVE  Pictured'
<1> USE LegacyFramesAssumption
<1>1. /\ UNCHANGED <<runtime, terminated, layer, published, told>>
      /\ call.at = "idle" /\ runtime = h /\ ~terminated /\ runtime # Nobody
      /\ call'.at \in {"poll", "run"} /\ call'.of = h
  BY LegacyEngineAssumption DEF engine_tick, registryVars, worldVars, Quiet
<1>2. /\ target' \in Targets
      /\ \/ target' = target
         \/ target # "iosurface" /\ frame.serial = 0 /\ layer.composed = 0 /\ target' # "iosurface"
  BY DEF engine_tick, NativeWindow, MaySetTarget, Targets, Pictured, FrameTypeOK
<1>3. Sound(layer, target') /\ Named(frame, target')
  BY <1>2, Retarget DEF Pictured, LayerSound, PixelsNamed
<1>4. /\ frame' \in Frames /\ frame'.serial = frame.serial /\ frame'.pic = frame.pic
      /\ \/ call'.at = "poll" /\ ~frame'.rendered
         \/ call'.at = "run" /\ (target = "iosurface" => frame.serial < MaxSerial)
  BY DEF engine_tick, Pictured, FrameTypeOK, Frames, Quiet
<1>5. published <= told /\ Known(told)
  BY <1>1 DEF Pictured, PicturesTold, ToldNext
<1>6. FrameTypeOK' /\ LayerSound' /\ PixelsNamed'
  BY <1>1, <1>2, <1>3, <1>4 DEF Pictured, FrameTypeOK, LayerSound, PixelsNamed, Named
<1>7. FramesAreOfTheRuntime'
  BY <1>1 DEF FramesAreOfTheRuntime
<1>8. PicturesTold'
  <2>1. Known(told)'
    BY <1>1, <1>2, <1>4, <1>5 DEF Known, Pictured, FrameTypeOK
  <2> QED
    BY <1>1, <1>2, <1>4, <1>5, <2>1 DEF PicturesTold, ToldNext
<1> QED
  BY <1>6, <1>7, <1>8 DEF Pictured


\* The end of a tick publishes what it has composed, and leaves the serial and the
\* CPU picture known once the tick is told; or it ends the title.
LEMMA PicturedRun ==
  ASSUME Lifecycle, Pictured, Run \/ JoinDecoder
  PROVE  Pictured'
<1> USE LegacyFramesAssumption
<1>1. /\ UNCHANGED <<runtime, target, told>> /\ RunEnds
      /\ call.at \in {"run", "join decoder"}
  BY DEF Run, JoinDecoder, registryVars
<1>2. PICK new \in Compositions(layer, target, fast) :
        /\ layer' = new
        /\ \/ /\ terminated' = TRUE /\ call' = Quiet
              /\ UNCHANGED <<frame, published>>
           \/ /\ frame' \in Publish(frame, new, target, gpu[call.of])
              /\ published' = Published(frame', new, target, gpu[call.of])
              /\ call' = [call EXCEPT !.at = "poll"]
              /\ UNCHANGED terminated
  BY <1>1 DEF RunEnds
<1>3. /\ frame \in Frames /\ target \in Targets /\ layer \in Hosts /\ fast \in BOOLEAN
      /\ Sound(layer, target) /\ Named(frame, target)
      /\ told \in 0..Fallback /\ published \in 0..MaxSerial
  BY DEF Pictured, FrameTypeOK, LayerSound, PixelsNamed, Lifecycle, TypeOK
<1>4. new \in Hosts /\ Sound(new, target)
  BY <1>3, CompositionSound
<1>5. runtime = call.of /\ runtime \in Handles /\ gpu[call.of] \in BOOLEAN /\ ~terminated
  BY <1>1 DEF Pictured, FramesAreOfTheRuntime, Lifecycle, TypeOK
<1>6. /\ published <= told /\ Known(told)
      /\ target = "iosurface" => frame.serial < MaxSerial
  BY <1>1, <1>5, LegacyEngineAssumption DEF Pictured, PicturesTold, ToldNext
<1>7. CASE /\ terminated' = TRUE /\ call' = Quiet
           /\ UNCHANGED <<frame, published>>
  <2>1. FrameTypeOK' /\ LayerSound' /\ PixelsNamed'
    BY <1>1, <1>2, <1>3, <1>4, <1>7 DEF FrameTypeOK, LayerSound, PixelsNamed
  <2>2. call'.at = "idle"
    BY <1>7 DEF Quiet
  <2>3. FramesAreOfTheRuntime'
    BY <1>1, <1>5, <2>2, LegacyEngineAssumption DEF FramesAreOfTheRuntime
  <2>4. PicturesTold'
    BY <1>1, <1>6, <1>7, <2>2 DEF PicturesTold, ToldNext
  <2> QED
    BY <2>1, <2>3, <2>4 DEF Pictured
<1>8. CASE /\ frame' \in Publish(frame, new, target, gpu[call.of])
           /\ published' = Published(frame', new, target, gpu[call.of])
           /\ call' = [call EXCEPT !.at = "poll"]
           /\ UNCHANGED terminated
  <2>1. /\ frame' \in Frames /\ Named(frame', target) /\ published' \in 0..MaxSerial
        /\ frame'.rendered /\ published' # NoPicture =>
             (target # "iosurface" => frame'.serial <= published') /\ new.cpu <= published'
        /\ ~frame'.rendered =>
             /\ target # "iosurface" /\ frame'.serial = frame.serial
             /\ published' <= frame.serial /\ new.cpu <= frame.serial
    BY <1>3, <1>4, <1>5, <1>6, <1>8, PublishSound
  <2>2. call'.at = "poll" /\ call'.of = call.of
    BY <1>8 DEF Lifecycle, TypeOK, Calls
  <2>3. FrameTypeOK' /\ LayerSound' /\ PixelsNamed'
    BY <1>1, <1>2, <1>3, <1>4, <2>1 DEF FrameTypeOK, LayerSound, PixelsNamed
  <2>4. FramesAreOfTheRuntime'
    BY <1>1, <1>5, <1>8, <2>2, LegacyEngineAssumption DEF FramesAreOfTheRuntime
  <2>5. ASSUME frame'.rendered PROVE PicturesTold'
    <3>1. ToldNext' /\ call'.at \notin {"run", "join decoder"}
      BY <2>2, <2>5 DEF ToldNext
    <3>2. published' # NoPicture => Known(published)'
      BY <1>1, <1>2, <2>1, <2>5 DEF Known
    <3> QED
      BY <3>1, <3>2 DEF PicturesTold
  <2>6. ASSUME ~frame'.rendered PROVE PicturesTold'
    <3>1. /\ frame.serial <= told /\ frame.serial \in Nat /\ told \in Nat
          /\ published' \in Nat /\ new.cpu \in Nat
      BY <1>3, <1>4, <1>6, <2>1, <2>6 DEF Known, Frames, Hosts, Fallback
    <3>2. published' <= told /\ new.cpu <= told /\ frame'.serial <= told
      BY <2>1, <2>6, <3>1
    <3>3. Known(told)'
      BY <1>1, <1>2, <3>2 DEF Known
    <3>4. ~ToldNext' /\ call'.at \notin {"run", "join decoder"}
      BY <2>2, <2>6 DEF ToldNext
    <3>5. published' <= told'
      BY <1>1, <3>2
    <3> QED
      BY <3>3, <3>4, <3>5 DEF PicturesTold
  <2>7. PicturesTold'
    BY <2>5, <2>6, Zenon
  <2> QED
    BY <2>3, <2>4, <2>7 DEF Pictured
<1> QED
  BY <1>2, <1>7, <1>8

\* A caller that asks after a tick is told of its picture.
LEMMA PicturedPoll ==
  ASSUME Lifecycle, Pictured, engine_get_frame_rendered_flag
  PROVE  Pictured'
<1> USE LegacyFramesAssumption
<1>1. /\ UNCHANGED <<runtime, terminated, target, layer, published>>
      /\ call.at = "poll" /\ call'.at = "idle"
      /\ frame' = Polled(frame)
      /\ told' = IF ~frame.rendered THEN told
                 ELSE IF published = NoPicture THEN Fallback ELSE published
  BY DEF engine_get_frame_rendered_flag, registryVars, worldVars, Quiet
<1>2. /\ frame \in Frames /\ layer \in Hosts /\ published \in 0..MaxSerial /\ told \in 0..Fallback
      /\ Fallback = MaxSerial + 1
  BY DEF Pictured, FrameTypeOK, Fallback
<1>3. frame' \in Frames /\ frame'.serial = frame.serial /\ frame'.pic = frame.pic
  BY <1>1, <1>2 DEF Polled, Frames
<1>4. runtime # Nobody /\ ~terminated
  BY <1>1 DEF Pictured, FramesAreOfTheRuntime
<1>5. FrameTypeOK' /\ LayerSound' /\ PixelsNamed'
  BY <1>1, <1>2, <1>3 DEF Pictured, FrameTypeOK, LayerSound, PixelsNamed, Named
<1>6. FramesAreOfTheRuntime'
  BY <1>1, <1>4 DEF FramesAreOfTheRuntime
<1>7. /\ frame.serial \in 0..MaxSerial /\ layer.cpu \in 0..MaxSerial
  BY <1>2 DEF Frames, Hosts
<1>8. published' <= told' /\ Known(told)'
  <2>1. CASE ~frame.rendered
    BY <1>1, <1>3, <1>4, <2>1 DEF Pictured, PicturesTold, ToldNext, Known
  <2>2. CASE frame.rendered /\ published = NoPicture
    BY <1>1, <1>2, <1>3, <1>7, <2>2 DEF Known
  <2>3. CASE frame.rendered /\ published # NoPicture
    BY <1>1, <1>2, <1>3, <2>3 DEF Pictured, PicturesTold, ToldNext, Known
  <2> QED
    BY <2>1, <2>2, <2>3
<1>9. PicturesTold'
  BY <1>1, <1>8 DEF PicturesTold, ToldNext
<1> QED
  BY <1>5, <1>6, <1>9 DEF Pictured

\* A host that reads, resizes or retargets between ticks leaves the next tick as
\* much to compare with as it found.
LEMMA PicturedHost ==
  ASSUME Disciplined, Lifecycle, Pictured,
         \/ engine_get_frame_desc \/ engine_read_frame_rgba
         \/ engine_set_render_target_iosurface \/ engine_set_render_target_surface
         \/ \E h \in Handles, s \in Sizes : engine_set_surface_size(h, s)
  PROVE  Pictured'
<1> USE LegacyFramesAssumption
<1>1. /\ UNCHANGED <<runtime, terminated, layer, published, told, call>> /\ call.at = "idle"
  BY DEF engine_get_frame_desc, engine_read_frame_rgba, engine_set_render_target_iosurface,
         engine_set_render_target_surface, SetRenderTarget, engine_set_surface_size,
         registryVars, worldVars, threadVars
<1>2. /\ frame \in Frames /\ target \in Targets /\ layer \in Hosts
      /\ Sound(layer, target) /\ Named(frame, target)
      /\ published <= told
      /\ runtime # Nobody /\ ~terminated => Known(told)
  BY <1>1 DEF Pictured, FrameTypeOK, LayerSound, PixelsNamed, PicturesTold, ToldNext
<1>3. ASSUME runtime # Nobody, frame' \in Frames, target' \in Targets,
             Sound(layer, target'), Named(frame', target'),
             Known(told) => Known(told)'
      PROVE  Pictured'
  <2>1. FrameTypeOK' /\ LayerSound' /\ PixelsNamed'
    BY <1>1, <1>3 DEF Pictured, FrameTypeOK, LayerSound, PixelsNamed
  <2>2. FramesAreOfTheRuntime'
    BY <1>1, <1>3 DEF FramesAreOfTheRuntime
  <2>3. PicturesTold'
    BY <1>1, <1>2, <1>3 DEF PicturesTold, ToldNext
  <2> QED
    BY <2>1, <2>2, <2>3 DEF Pictured
<1>4. CASE engine_get_frame_desc \/ engine_read_frame_rgba
  <2>1. /\ frame' \in {Described(frame, layer), Read(frame, layer)}
        /\ target' = target /\ runtime # Nobody
    BY <1>4 DEF engine_get_frame_desc, engine_read_frame_rgba
  <2>2. /\ frame' \in Frames /\ Named(frame', target)
        /\ frame'.serial = frame.serial \/ frame'.serial = layer.cpu
    BY <1>2, <2>1, ReadSound
  <2>3. Known(told) => Known(told)'
    BY <1>1, <2>1, <2>2 DEF Known
  <2> QED
    BY <1>2, <1>3, <2>1, <2>2, <2>3
<1>5. CASE engine_set_render_target_iosurface \/ engine_set_render_target_surface
  <2>1. /\ frame' = frame /\ runtime # Nobody /\ target' \in Targets
        /\ frame.serial = 0 /\ layer.composed = 0
    BY <1>5 DEF engine_set_render_target_iosurface, engine_set_render_target_surface,
                SetRenderTarget, MaySetTarget, Targets
  <2>2. Sound(layer, target') /\ Named(frame, target')
    BY <2>1, Retarget
  <2>3. Known(told) => Known(told)'
    BY <1>1, <2>1 DEF Known, Pictured, FrameTypeOK
  <2> QED
    BY <1>2, <1>3, <2>1, <2>2, <2>3
<1>6. ASSUME NEW h \in Handles, NEW s \in Sizes, engine_set_surface_size(h, s)
      PROVE  Pictured'
  <2>1. target' = target /\ frame' = IF runtime = h THEN Resized(frame) ELSE frame
    BY <1>6 DEF engine_set_surface_size
  <2>2. CASE runtime = h
    <3>0. NoPicture \in 0..Fallback
      BY DEF NoPicture, Fallback
    <3>1. /\ frame' \in Frames /\ frame'.serial = frame.serial /\ frame'.pic = NoPicture
      BY <1>2, <2>1, <2>2, <3>0 DEF Resized, Frames
    <3>2. Named(frame', target) /\ (Known(told) => Known(told)')
      BY <1>1, <2>1, <3>1 DEF Named, Known, Pictures, NoPicture
    <3>3. runtime # Nobody
      BY <2>2, LegacyEngineAssumption
    <3> QED
      BY <1>2, <1>3, <2>1, <3>1, <3>2, <3>3
  <2>3. CASE runtime # h
    BY <1>1, <2>1, <2>3, FramesStay DEF CleanDestroy
  <2> QED
    BY <2>2, <2>3
<1> QED
  BY <1>4, <1>5, <1>6


\* Every step preserves what the ticks and the reads leave for the next tick.
LEMMA PicturedInductive ==
  ASSUME Disciplined, Lifecycle, Lifecycle', Pictured, [Next]_vars
  PROVE  Pictured'
<1> USE DEF registryVars, worldVars, threadVars, shown, frameVars
<1>1. CASE UNCHANGED vars
  <2>1. UNCHANGED <<runtime, frame, target, layer, published, told, call, terminated>>
    BY <1>1 DEF vars
  <2> QED
    BY <2>1, FramesStay DEF CleanDestroy
<1>2. ASSUME NEW h \in Handles,
             \/ engine_create(h) \/ engine_pause(h) \/ engine_resume(h) \/ engine_media_open(h)
             \/ \E r \in BOOLEAN : SetRenderer(h, r)
      PROVE  Pictured'
  <2>1. UNCHANGED <<runtime, frame, target, layer, published, told, call, terminated>>
    BY <1>2 DEF engine_create, engine_pause, engine_resume, engine_media_open, SetRenderer
  <2> QED
    BY <2>1, FramesStay DEF CleanDestroy
<1>3. ASSUME NEW h \in Handles, engine_open_game(h) \/ engine_open_game_async(h)
      PROVE  Pictured'
  <2>1. /\ UNCHANGED <<runtime, frame, target, layer, published, told>> /\ call.at = "idle"
        /\ terminated' = terminated \/ runtime = Nobody
    BY <1>3 DEF engine_open_game, engine_open_game_async, MayStart
  <2>2. call' = call \/ call'.at \in {"open", "join stale"}
    BY <1>3, AsyncStarts DEF engine_open_game, Quiet
  <2> QED
    BY <2>1, <2>2, FramesStay DEF CleanDestroy, Ticking
<1>4. CASE engine_media_destroy
  BY <1>4, FramesStay DEF engine_media_destroy, CleanDestroy
<1>5. CASE JoinStartupWorker \/ JoinStaleWorker \/ Delete
  <2>1. UNCHANGED <<runtime, frame, target, layer, published, told, terminated>>
    BY <1>5 DEF JoinStartupWorker, JoinStaleWorker, Delete
  <2>2. /\ call.at \in {"join", "join stale", "delete"}
        /\ call'.at \in {"cleanup", "delete", "idle"}
        /\ CleanDestroy => CleanDestroy'
    <3>1. call \in Calls
      BY DEF Lifecycle, TypeOK
    <3>2. ASSUME NEW at \in CallStages
          PROVE  LET c == [call EXCEPT !.at = at] IN c.at = at /\ c.clean = call.clean
      BY <3>1, <3>2 DEF Calls
    <3>3. CASE JoinStartupWorker
      <4>1. CASE call.clean
        <5>1. call.at = "join" /\ call' = [call EXCEPT !.at = "cleanup"]
          BY <3>3, <4>1 DEF JoinStartupWorker
        <5>2. call'.at = "cleanup" /\ call'.clean = call.clean
          BY <3>2, <5>1 DEF CallStages
        <5> QED
          BY <4>1, <5>1, <5>2 DEF CleanDestroy
      <4>2. CASE ~call.clean
        <5>1. call.at = "join" /\ call' = [call EXCEPT !.at = "delete"]
          BY <3>3, <4>2 DEF JoinStartupWorker
        <5>2. call'.at = "delete" /\ call'.clean = call.clean
          BY <3>2, <5>1 DEF CallStages
        <5> QED
          BY <4>2, <5>1, <5>2 DEF CleanDestroy
      <4> QED
        BY <4>1, <4>2
    <3>4. CASE JoinStaleWorker \/ Delete
      <4>1. call.at \in {"join stale", "delete"} /\ call'.at = "idle"
        <5>1. call.at \in {"join stale", "delete"} /\ call' = Quiet
          BY <3>4 DEF JoinStaleWorker, Delete
        <5>2. Quiet.at = "idle"
          BY DEF Quiet
        <5> QED
          BY <5>1, <5>2
      <4> QED
        BY <4>1 DEF CleanDestroy
    <3> QED
      BY <1>5, <3>3, <3>4
  <2> QED
    BY <2>1, <2>2, FramesStay DEF Ticking
<1>6. CASE JoinMovie
  <2>1. UNCHANGED <<runtime, frame, target, layer, published, told, terminated>>
    BY <1>6 DEF JoinMovie
  <2>2. call.at = "run" /\ call'.at = "join decoder" /\ call'.of = call.of
    BY <1>6 DEF JoinMovie, Lifecycle, TypeOK, Calls
  <2>3. FrameTypeOK' /\ LayerSound' /\ PixelsNamed'
    BY <2>1 DEF Pictured, FrameTypeOK, LayerSound, PixelsNamed
  <2>4. FramesAreOfTheRuntime'
    BY <2>1, <2>2 DEF Pictured, FramesAreOfTheRuntime
  <2>5. PicturesTold'
    BY <2>1, <2>2 DEF Pictured, PicturesTold, ToldNext, Known
  <2> QED
    BY <2>3, <2>4, <2>5 DEF Pictured
<1>7. ASSUME NEW t \in Threads,
             \/ RunOpenGameAsync(t) \/ LoadWorld(t) \/ StartApplication(t)
             \/ ReadSurface(t) \/ StartHostEngineLoop(t) \/ ClearRuntimeOwnerIfMatching(t)
      PROVE  Pictured'
  <2>1. UNCHANGED <<frame, target, layer, published, told, call>>
    BY <1>7 DEF RunOpenGameAsync, LoadWorld, StartApplication, ReadSurface,
                StartHostEngineLoop, ClearRuntimeOwnerIfMatching
  <2>2. Active(t) /\ job[t].at # "report"
    BY <1>7 DEF RunOpenGameAsync, LoadWorld, StartApplication, ReadSurface,
                StartHostEngineLoop, ClearRuntimeOwnerIfMatching, Active
  <2>3. runtime = Nobody /\ job[t].of # Nobody
    BY <2>2, LegacyEngineAssumption DEF Lifecycle, JobsHeld, JobHeld, JobSetUp
  <2>4. runtime' = runtime
    BY <1>7, <2>3 DEF RunOpenGameAsync, LoadWorld, StartApplication, ReadSurface,
                      StartHostEngineLoop, ClearRuntimeOwnerIfMatching
  <2> QED
    BY <2>1, <2>3, <2>4, FramesStay DEF CleanDestroy
<1>8. ASSUME NEW t \in Threads, Report(t) PROVE Pictured'
  <2>1. UNCHANGED <<runtime, frame, target, layer, published, told, terminated>>
    BY <1>8 DEF Report
  <2>2. t = Host => call.at = "open"
    BY <1>8, LegacyEngineAssumption
    DEF Report, Lifecycle, JobsHeld, JobHeld, Active
  <2>3. call' = call \/ (call.at = "open" /\ call'.at = "idle")
    BY <1>8, <2>2 DEF Report, Quiet
  <2> QED
    BY <2>1, <2>3, FramesStay DEF CleanDestroy, Ticking
<1>9. CASE LogLine \/ TryLock \/ PushStartupLog
  <2>1. UNCHANGED <<runtime, frame, target, layer, published, told, call, terminated>>
    BY <1>9 DEF LogLine, TryLock, PushStartupLog
  <2> QED
    BY <2>1, FramesStay DEF CleanDestroy
<1>10. ASSUME NEW h \in Handles, engine_destroy(h) \/ engine_tick(h) PROVE Pictured'
  BY <1>10, PicturedDestroy, PicturedTick
<1>11. CASE Cleanup \/ Run \/ JoinDecoder \/ engine_get_frame_rendered_flag
  BY <1>11, PicturedCleanup, PicturedRun, PicturedPoll
<1>12. ASSUME NEW t \in Threads, MarkRuntimeOpenedForHost(t) PROVE Pictured'
  BY <1>12, PicturedMark
<1>13. CASE \/ engine_get_frame_desc \/ engine_read_frame_rgba
            \/ engine_set_render_target_iosurface \/ engine_set_render_target_surface
            \/ \E h \in Handles, s \in Sizes : engine_set_surface_size(h, s)
  BY <1>13, PicturedHost
<1>14. ASSUME NEW t \in Threads, OpenGameCore(t) \/ RunOpenGameAsync(t) PROVE Pictured'
  BY <1>7, <1>8, <1>12, <1>14 DEF OpenGameCore
<1> QED
  BY <1>1, <1>2, <1>3, <1>4, <1>5, <1>6, <1>9, <1>10, <1>11, <1>13, <1>14
  DEF Next, HostCall, HostGoesOn, Worker, Sink, Threads

\* For a disciplined host no picture goes unannounced and no pixels are kept under
\* another picture's serial.
THEOREM FramesTruth == ASSUME Disciplined PROVE Spec => []FramesTruthful
<1>1. ASSUME Pictured PROVE FramesTruthful
  BY <1>1 DEF Pictured, PicturesTold, ToldNext, PixelsNamed, Named, FramesTruthful,
              NoPictureMissed, SerialNamesPicture
<1>2. Init => Lifecycle /\ Pictured
  BY LifecycleInitial, PicturedInitial
<1>3. ASSUME Lifecycle, Pictured, [Next]_vars PROVE Lifecycle' /\ Pictured'
  BY <1>3, LifecycleInductive, PicturedInductive
<1> QED
  BY <1>1, <1>2, <1>3, PTL DEF Spec
=============================================================================
