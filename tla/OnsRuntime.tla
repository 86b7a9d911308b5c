------------------------------- MODULE OnsRuntime -------------------------------
(***************************************************************************)
(* The ONScripter backend (bridge/onscripter_runtime): a Runtime starts    *)
(* the upstream interpreter on a thread of its own, hands it input through *)
(* a bounded queue, shares movies with it under media_mutex, reads the     *)
(* frames it publishes, and stops it with a QUIT event and a join. The     *)
(* interpreter is a process-wide object: the queue and the published frame *)
(* outlive a Runtime and are met by the next one.                          *)
(*                                                                         *)
(* Two locks are held across steps and are read off the program counters:  *)
(* the dispatcher's registry by a routed call of the host (every engine_*  *)
(* call of the interpreter needs it), media_mutex by the interpreter. The  *)
(* interpreter itself is external: its script waits for events, flushes,   *)
(* plays movies and ends in any order.                                     *)
(***************************************************************************)
EXTENDS Naturals, SequencesExt

CONSTANTS MaxHostEvents,  \* kMaxHostEvents (256)
          Inputs          \* what the host sends, of Keys and Pointer

Keys    == {"ctrlDown", "ctrlUp"}
Pointer == {"move", "down", "up"}
Quit    == "quit"
None    == "none"

ASSUME QueueAssumption == MaxHostEvents \in Nat \ {0, 1}
ASSUME InputAssumption == Inputs \subseteq Keys \cup Pointer

VARIABLES
  runtime,     \* a Runtime exists
  startup,     \* Impl::startup
  gameOpen,    \* Impl::game_open
  ended,       \* Impl::ended
  stop,        \* Impl::stop_requested
  hostCall,    \* the host call in progress
  input,       \* the event it sends, or none
  worker,      \* the asynchronous opening of the dispatcher
  script,      \* where the interpreter's thread is; "off": game_thread is not joinable
  queue,       \* g_host_events
  media,       \* the player of Impl::media, or "none"
  click,       \* Impl::media_click_to_skip
  loop,        \* Impl::media_loop
  skip,        \* Impl::media_skip_requested
  present,     \* g_present_surface is set
  published,   \* g_published_frame: of this Runtime's game, an older one's, or none
  ctrlHost,    \* history: the host has pressed Ctrl last
  ctrl         \* the interpreter's ctrl_pressed_status

flags == <<startup, gameOpen, ended, stop>>
movie == <<media, click, loop, skip>>
picture == <<present, published>>
ctrls == <<ctrlHost, ctrl>>
onsVars == <<runtime, flags, hostCall, input, worker, script, queue, movie, picture, ctrls>>

\* Calls the dispatcher routes under its registry; a synchronous opening is one.
RegistryHeld ==
  hostCall \in {"opening", "tick", "pause", "resume", "frame", "event", "skip", "push"}

\* The interpreter is inside play_video, stop_video or close_media.
MediaLocked == script \in {"playing", "updating", "closing"}

Joinable == script # "off"

OnsInit ==
  /\ runtime = FALSE
  /\ startup = "Idle" /\ gameOpen = FALSE /\ ended = FALSE /\ stop = FALSE
  /\ hostCall = "idle" /\ input = None /\ worker = "off" /\ script = "off"
  /\ queue = <<>>
  /\ media = "none" /\ click = FALSE /\ loop = FALSE /\ skip = FALSE
  /\ present = FALSE /\ published = "none"
  /\ ctrlHost = FALSE /\ ctrl = FALSE

-----------------------------------------------------------------------------
(* The queue. *)

IsMove(e) == e = "move"
IsQuit(e) == e = Quit

\* A full queue loses its first move, or its oldest event.
Evict(q) == LET i == SelectInSeq(q, IsMove) IN RemoveAt(q, IF i = 0 THEN 1 ELSE i)

\* PushRuntimeEvent: a move replaces the move before it.
Push(q, e) == IF IsMove(e) /\ q # <<>> /\ IsMove(Last(q)) THEN q
              ELSE Append(IF Len(q) >= MaxHostEvents THEN Evict(q) ELSE q, e)

\* ClearHostEvents.
Cleared(q) == <<>>

-----------------------------------------------------------------------------
(* Impl's helpers. *)

\* set_error.
SetError == startup' = "Failed" /\ gameOpen' = FALSE

\* close_media_locked.
CloseMedia == media' = "none" /\ click' = FALSE /\ loop' = FALSE /\ skip' = FALSE

\* update_media_locked: a movie that loops starts again.
Updated == IF media = "ended" /\ loop THEN "playing" ELSE media

\* Mutant: the catch of HostExit only records that the game has ended.
HostExits_StaysOpen(code) ==
  /\ ended' = TRUE
  /\ IF code = 0 \/ stop THEN UNCHANGED <<startup, gameOpen>> ELSE SetError
  /\ script' = "teardown"

\* run_game catches HostExit: an error unless the script, or shutdown, asked for it.
HostExits(code) ==
  /\ ended' = TRUE
  /\ IF code = 0 \/ stop THEN gameOpen' = FALSE /\ UNCHANGED startup ELSE SetError
  /\ script' = "teardown"

-----------------------------------------------------------------------------
(* Runtime::Runtime, initialize, open_game and shutdown. *)

Initialize ==
  /\ ~ runtime /\ hostCall = "idle"
  /\ runtime' = TRUE
  /\ startup' = "Idle" /\ gameOpen' = FALSE /\ ended' = FALSE /\ stop' = FALSE
  /\ published' = IF published = "none" THEN "none" ELSE "stale"
  /\ ctrlHost' = FALSE
  /\ UNCHANGED <<hostCall, input, worker, script, queue, movie, present, ctrl>>

\* The dispatcher lets one asynchronous opening in, and none after it.
MayOpen == runtime /\ hostCall = "idle" /\ worker = "off"

\* The previous session's thread is still joinable, or no script is found.
OpenRefused ==
  /\ MayOpen
  /\ SetError
  /\ worker' \in {"off", "done"}
  /\ UNCHANGED <<runtime, ended, stop, hostCall, input, script, queue, movie, picture, ctrls>>

\* Mutant: the frame that an earlier game has published stays.
OpenResetsFrame_Not == present' = FALSE /\ UNCHANGED published

OpenResetsFrame == present' = FALSE /\ published' = "none"

\* open_game starts the thread; its caller, the host or the worker, waits.
OpenStarts ==
  /\ MayOpen
  /\ ~ Joinable
  /\ startup' = "Running" /\ ended' = FALSE /\ stop' = FALSE
  /\ OpenResetsFrame
  /\ queue' = Cleared(queue)
  /\ script' = "starting"
  /\ ctrl' = FALSE
  /\ \/ hostCall' = "opening" /\ UNCHANGED worker
     \/ worker' = "opening" /\ UNCHANGED hostCall
  /\ UNCHANGED <<runtime, gameOpen, input, movie, ctrlHost>>

\* OpenGame polls until the startup has succeeded or failed.
Started == startup \in {"Succeeded", "Failed"}

OpenReturns ==
  /\ hostCall = "opening" /\ Started
  /\ hostCall' = "idle"
  /\ UNCHANGED <<runtime, flags, input, worker, script, queue, movie, picture, ctrls>>

WorkerReturns ==
  /\ worker = "opening" /\ Started
  /\ worker' = "done"
  /\ UNCHANGED <<runtime, flags, hostCall, input, script, queue, movie, picture, ctrls>>

\* The dispatcher has joined its worker and routes nothing more.
ShutdownBegins ==
  /\ runtime /\ hostCall = "idle" /\ worker # "opening"
  /\ stop' = TRUE
  /\ hostCall' = "stopping"
  /\ UNCHANGED <<runtime, startup, gameOpen, ended, input, worker, script, queue, movie,
                 picture, ctrls>>

\* The interpreter is woken, to be joined.
PushQuit ==
  /\ hostCall = "stopping"
  /\ \/ Joinable /\ queue' = Push(queue, Quit) /\ hostCall' = "joining"
     \/ ~ Joinable /\ hostCall' = "closing" /\ UNCHANGED queue
  /\ UNCHANGED <<runtime, flags, input, worker, script, movie, picture, ctrls>>

ShutdownJoined ==
  /\ hostCall = "joining" /\ script = "finished"
  /\ script' = "off"
  /\ hostCall' = "closing"
  /\ UNCHANGED <<runtime, flags, input, worker, queue, movie, picture, ctrls>>

\* The queue is emptied, the player and its engine are destroyed.
ShutdownEnds ==
  /\ hostCall = "closing"
  /\ queue' = Cleared(queue)
  /\ CloseMedia
  /\ gameOpen' = FALSE
  /\ runtime' = FALSE /\ worker' = "off" /\ hostCall' = "idle"
  /\ UNCHANGED <<startup, ended, stop, input, script, picture, ctrls>>

-----------------------------------------------------------------------------
(* The calls of the host, each under the registry. *)

Enter(call) ==
  /\ runtime /\ hostCall = "idle"
  /\ hostCall' = call
  /\ UNCHANGED <<runtime, flags, input, worker, script, queue, movie, picture, ctrls>>

\* Mutant: the host waits for media_mutex.
TryLock_Waits(body) == ~ MediaLocked /\ body

\* The host never waits for media_mutex: it does without.
TryLock(body) == IF MediaLocked THEN UNCHANGED media ELSE body

Tick ==
  /\ hostCall = "tick" /\ hostCall' = "idle"
  /\ TryLock(media' = Updated)
  /\ UNCHANGED <<runtime, flags, input, worker, script, queue, click, loop, skip, picture, ctrls>>

\* pause and resume, refused unless a game is open. A pause that finds the
\* mutex taken reports success and leaves the movie playing.
Suspend(call, from, to) ==
  /\ hostCall = call /\ hostCall' = "idle"
  /\ IF gameOpen /\ media = from THEN TryLock(media' = to) ELSE UNCHANGED media
  /\ UNCHANGED <<runtime, flags, input, worker, script, queue, click, loop, skip, picture, ctrls>>

\* ons is null before its construction and after its destruction.
Constructed == script \notin {"off", "finished"}

\* What read_frame copies out.
FrameServed == IF gameOpen /\ Constructed THEN published ELSE "none"

RefreshFrame ==
  /\ hostCall = "frame" /\ hostCall' = "idle"
  /\ UNCHANGED <<runtime, flags, input, worker, script, queue, movie, picture, ctrls>>

SendInput(e) ==
  /\ runtime /\ hostCall = "idle"
  /\ hostCall' = "event" /\ input' = e
  /\ UNCHANGED <<runtime, flags, worker, script, queue, movie, picture, ctrls>>

\* A release over a movie that may be skipped asks for that first.
Accept ==
  /\ hostCall = "event"
  /\ IF gameOpen
     THEN /\ hostCall' = IF input = "up" /\ media # "none" /\ click THEN "skip" ELSE "push"
          /\ UNCHANGED input
     ELSE hostCall' = "idle" /\ input' = None
  /\ UNCHANGED <<runtime, flags, worker, script, queue, movie, picture, ctrls>>

AskSkip ==
  /\ hostCall = "skip" /\ hostCall' = "push"
  /\ skip' = TRUE
  /\ UNCHANGED <<runtime, flags, input, worker, script, queue, media, click, loop, picture, ctrls>>

\* A press brings the cursor's position with it.
PushInput ==
  /\ hostCall = "push" /\ hostCall' = "idle" /\ input' = None
  /\ queue' = Push(IF input = "down" THEN Push(queue, "move") ELSE queue, input)
  /\ ctrlHost' = IF input \in Keys THEN input = "ctrlDown" ELSE ctrlHost
  /\ UNCHANGED <<runtime, flags, worker, script, movie, picture, ctrl>>

-----------------------------------------------------------------------------
(* The interpreter's thread: run_game until executeLabel. *)

\* The surface is copied, unless SDL refuses.
PublishFrame == published' \in {published, "fresh"}

\* The engine flushes during its initialisation too.
Flush ==
  /\ script \in {"starting", "script"}
  /\ PublishFrame
  /\ UNCHANGED <<runtime, flags, hostCall, input, worker, script, queue, movie, present, ctrls>>

\* An exception, or exit(-1) in an upstream error path.
StartupFails ==
  /\ script = "starting"
  /\ \/ SetError /\ script' = "teardown" /\ UNCHANGED ended
     \/ HostExits(1)
  /\ UNCHANGED <<runtime, stop, hostCall, input, worker, queue, movie, picture, ctrls>>

StartupSucceeds ==
  /\ script = "starting"
  /\ present' = TRUE
  /\ PublishFrame
  /\ startup' = "Succeeded"
  /\ script' = "started"
  /\ UNCHANGED <<runtime, gameOpen, ended, stop, hostCall, input, worker, queue, movie, ctrls>>

GameOpens ==
  /\ script = "started"
  /\ gameOpen' = TRUE
  /\ script' = "script"
  /\ UNCHANGED <<runtime, startup, ended, stop, hostCall, input, worker, queue, movie, picture,
                 ctrls>>

\* ~ONScripter frees the surface that is presented, and the frame with it.
Teardown ==
  /\ script = "teardown"
  /\ script' = "finished"
  /\ present' = FALSE
  /\ published' = IF present THEN "none" ELSE published
  /\ UNCHANGED <<runtime, flags, hostCall, input, worker, queue, movie, ctrls>>

-----------------------------------------------------------------------------
(* The interpreter's thread: the script. *)

\* The label returns, the script ends, or it fails.
ScriptEnds ==
  /\ script = "script"
  /\ \/ ended' = TRUE /\ gameOpen' = FALSE /\ UNCHANGED startup /\ script' = "teardown"
     \/ \E code \in {0, 1} : HostExits(code)
     \/ SetError /\ UNCHANGED ended /\ script' = "teardown"
  /\ UNCHANGED <<runtime, stop, hostCall, input, worker, queue, movie, picture, ctrls>>

\* aetherkiri_onscripter_wait_event, and the upstream handler of what it returns.
WaitEvent ==
  /\ script = "script"
  /\ queue # <<>>
  /\ queue' = Tail(queue)
  /\ ctrl' = IF Head(queue) \in Keys THEN Head(queue) = "ctrlDown" ELSE ctrl
  /\ IF Head(queue) = Quit THEN HostExits(0) ELSE UNCHANGED <<startup, gameOpen, ended, script>>
  /\ UNCHANGED <<runtime, stop, hostCall, input, worker, movie, picture, ctrlHost>>

\* A wait of no time (iOS) handles the key releases alone, ahead of what precedes them.
ZeroWait ==
  /\ script = "script"
  /\ script' = "draining"
  /\ UNCHANGED <<runtime, flags, hostCall, input, worker, queue, movie, picture, ctrls>>

IsRelease(e) == e = "ctrlUp"

\* poll_host_key_release, until there is none; the host may push meanwhile.
DrainReleases ==
  /\ script = "draining"
  /\ LET first == SelectInSeq(queue, IsRelease) IN
     \/ first # 0 /\ queue' = RemoveAt(queue, first) /\ ctrl' = FALSE /\ UNCHANGED script
     \/ first = 0 /\ script' = "script" /\ UNCHANGED <<queue, ctrl>>
  /\ UNCHANGED <<runtime, flags, hostCall, input, worker, movie, picture, ctrlHost>>

\* play_video and stop_video take media_mutex, then call the engine.
CallsMedia ==
  /\ script = "script"
  /\ script' \in {"playing", "closing"}
  /\ UNCHANGED <<runtime, flags, hostCall, input, worker, queue, movie, picture, ctrls>>

PlayVideo ==
  /\ script = "playing"
  /\ ~ RegistryHeld
  /\ \/ CloseMedia /\ script' = "script"
     \/ /\ media' = "playing" /\ skip' = FALSE
        /\ click' \in BOOLEAN /\ loop' \in BOOLEAN
        /\ script' \in {"movie", "script"}
  /\ UNCHANGED <<runtime, flags, hostCall, input, worker, queue, picture, ctrls>>

\* poll_movie_events reads the queue up to a QUIT.
PollMovieEvents ==
  LET quit == SelectInSeq(queue, IsQuit)
      seen == IF quit = 0 THEN queue ELSE SubSeq(queue, 1, quit) IN
  /\ queue' = SubSeq(queue, Len(seen) + 1, Len(queue))
  /\ skip' = (skip \/ (click /\ Contains(seen, "up")))
  /\ IF quit = 0 THEN script' = "polled" /\ UNCHANGED <<startup, gameOpen, ended>>
                 ELSE HostExits(0)

MovieLoop ==
  /\ script = "movie"
  /\ IF stop THEN script' = "closing" /\ UNCHANGED <<queue, skip, startup, gameOpen, ended>>
             ELSE PollMovieEvents
  /\ UNCHANGED <<runtime, stop, hostCall, input, worker, media, click, loop, picture, ctrls>>

MoviePolled ==
  /\ script = "polled"
  /\ script' = IF click /\ skip THEN "closing" ELSE "updating"
  /\ UNCHANGED <<runtime, flags, hostCall, input, worker, queue, movie, picture, ctrls>>

\* The player is asked how far it is: it has failed, ended, or goes on.
UpdateMovie ==
  /\ script = "updating"
  /\ ~ RegistryHeld
  /\ \/ CloseMedia /\ script' = "script"
     \/ /\ media' = Updated
        /\ script' = IF Updated = "ended" THEN "closing" ELSE "movie"
        /\ UNCHANGED <<click, loop, skip>>
  /\ UNCHANGED <<runtime, flags, hostCall, input, worker, queue, picture, ctrls>>

CloseVideo ==
  /\ script = "closing"
  /\ media = "none" \/ ~ RegistryHeld
  /\ CloseMedia
  /\ script' = "script"
  /\ UNCHANGED <<runtime, flags, hostCall, input, worker, queue, picture, ctrls>>

\* The player reaches the end of the movie.
MovieEnds ==
  /\ media = "playing"
  /\ media' = "ended"
  /\ UNCHANGED <<runtime, flags, hostCall, input, worker, script, queue, click, loop, skip, picture,
                 ctrls>>

-----------------------------------------------------------------------------

HostCalls == \/ Initialize \/ OpenRefused \/ OpenStarts \/ ShutdownBegins
             \/ \E call \in {"tick", "pause", "resume", "frame"} : Enter(call)
             \/ \E e \in Inputs : SendInput(e)

HostProceeds == \/ OpenReturns \/ PushQuit \/ ShutdownJoined \/ ShutdownEnds
                \/ Tick \/ Suspend("pause", "playing", "paused")
                \/ Suspend("resume", "paused", "playing")
                \/ RefreshFrame \/ Accept \/ AskSkip \/ PushInput

\* What the thread does whatever the script says.
ThreadProceeds == \/ StartupFails \/ StartupSucceeds \/ GameOpens \/ Teardown
                  \/ DrainReleases
                  \/ PlayVideo \/ MovieLoop \/ MoviePolled \/ UpdateMovie \/ CloseVideo

ScriptActs == Flush \/ ScriptEnds \/ WaitEvent \/ ZeroWait \/ CallsMedia

OnsNext == HostCalls \/ HostProceeds \/ WorkerReturns \/ ThreadProceeds \/ ScriptActs \/ MovieEnds

OnsSpec == OnsInit /\ [][OnsNext]_onsVars

\* Threads run once begun, and a script waits for events again and again.
OnsFairness ==
  /\ WF_onsVars(HostProceeds) /\ WF_onsVars(WorkerReturns)
  /\ WF_onsVars(ThreadProceeds) /\ SF_onsVars(WaitEvent)

OnsFairSpec == OnsSpec /\ OnsFairness

-----------------------------------------------------------------------------
(* Properties. *)

\* An interpreter that has finished, by whatever path, takes no more input and is
\* reported by the next tick.
EndIsReported ==
  script \in {"teardown", "finished"} => ~ gameOpen /\ (ended \/ startup = "Failed")

\* A Runtime that is gone leaves nothing that the next one would meet: neither
\* thread, player, surface nor unread input. A QUIT waits only for an interpreter
\* that is being stopped, so that one a shutdown has pushed for a thread already
\* finished never ends the next game; and the host is never shown a frame of an
\* earlier Runtime's game, not even after one that failed to start or when SDL
\* refuses to copy the new one.
NothingLeft ==
  /\ ~ runtime => script = "off" /\ media = "none" /\ ~ present /\ queue = <<>>
  /\ Contains(queue, Quit) /\ Joinable => stop
  /\ hostCall = "frame" => FrameServed # "stale"

\* Every call of the host returns, the opening of a game and the shutdown of a
\* Runtime included, whatever the interpreter is doing: neither thread waits for
\* a lock the other one holds, and no interpreter misses its QUIT.
CallsReturn == /\ hostCall # "idle" ~> hostCall = "idle"
               /\ worker = "opening" ~> worker # "opening"

=============================================================================
