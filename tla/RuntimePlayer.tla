---------------------------- MODULE RuntimePlayer ----------------------------
(***************************************************************************)
(* What AetherRuntimePlayer (bridge/godot_extension/src/                   *)
(* aether_runtime_player.cpp) does for the runtime beside showing its      *)
(* frames: it serves the runtime's platform requests and brings back their *)
(* answers, plays the movies the runtime asks for, and keeps the engine's  *)
(* frame output option in step with the frame effect.  Its media handle    *)
(* also plays the videos of the shell's library (main.gd), when no game    *)
(* runs.  One player node outlives the engines the shell creates in it,    *)
(* one game after another, and so does what the last game left open: the   *)
(* text dialog, the flags of its movie, the shell's own handlers.          *)
(*                                                                         *)
(* Everything runs on Godot's main thread; what interleaves is the shell,  *)
(* the user, the runtime and the decoder between two ticks.                *)
(***************************************************************************)
EXTENDS StandaloneMedia, Sequences

CONSTANTS
  MaxUses,     \* bound: platform requests of all runtimes, and videos
  MaxEngines,  \* bound: engines the shell creates, one after the other
  MaxFails,    \* bound: calls of the engine that fail
  MaxToggles,  \* bound: changes of the shell's display settings
  MaxPictures, \* bound: pictures the decoder has due
  Apart        \* bound: a behaviour changes settings or shows pictures, not both
               \* (no step reads the settings and the media)

ASSUME RuntimePlayerAssumption ==
  /\ {MaxUses, MaxEngines, MaxFails, MaxToggles, MaxPictures} \subseteq Nat
  /\ Apart \in BOOLEAN

VARIABLES
  handle,    \* handle_ is set
  engines,   \* engines created so far
  posted,    \* the engine's queue of platform requests
  requests,  \* requests posted so far
  game,      \* main.gd: game_running, a game runs in the engine
  waiting,   \* how many answers of each kind the game that runs waits for
  stray,     \* history: kinds of which that game got an answer it did not wait for
  left,      \* history: kinds of which something was open when that game was opened
  stage,     \* inside tick: idle, drain (drain_platform_requests), movie
  media,     \* media_
  texture,   \* media_texture_, media_frame_serial_
  pictures,  \* pictures decoded so far
  movie,     \* runtime_movie_active_ and runtime_movie_skippable_
  video,     \* main.gd: video_playing, active_video_state, video_texture
  videos,    \* videos opened so far
  dialog,    \* runtime_text_input_dialog_ is open
  shell,     \* requests the shell's own handler has still to answer
  effect,    \* frame_effect_enabled_, frame_effect_bypass_due_to_error_
  native,    \* frame_native_output_enabled_
  ready,     \* the frame effect finds the rendering device it needs
  raw,       \* frame_effect_raw_source_output_, what the player believes
  output,    \* the engine's frame output option
  fails, toggles

film == <<media, texture, pictures>>
session == <<handle, engines, game, left>>
watching == <<video, videos>>
playerVars == <<session, posted, requests, waiting, stray, stage, film, movie,
                watching, dialog, shell, effect, native, ready, raw, output, fails, toggles>>

settings == <<effect, native, ready, toggles>>
engine == <<session, posted, requests, waiting, stray, stage, dialog,
            shell, settings, raw, output, fails>>

\* The answers a runtime waits for; a malformed text request is answered too.
Kinds == {"text", "movie", "native"}
Requests == {"text", "malformed", "movie", "unplayable", "native"}
KindOf(r) == IF r = "malformed" THEN "text" ELSE IF r = "unplayable" THEN "movie" ELSE r

NoMovie == [active |-> FALSE, skippable |-> FALSE]

\* The state of the last poll is empty before the first one; hidden is set while
\* the application is not in front, resume when it was playing then.
NoVideo == [open |-> FALSE, polled |-> FALSE, serial |-> 0, status |-> "idle",
            view |-> NoPicture, hidden |-> FALSE, resume |-> FALSE]

NoneWaiting == [k \in Kinds |-> 0]

PlayerInit ==
  /\ handle = FALSE /\ engines = 0 /\ game = FALSE /\ left = {}
  /\ posted = <<>> /\ requests = 0 /\ waiting = NoneWaiting /\ stray = {}
  /\ stage = "idle" /\ media = Closed /\ movie = NoMovie
  /\ texture = NoTexture /\ pictures = 0 /\ video = NoVideo /\ videos = 0
  /\ dialog = FALSE /\ shell = 0
  /\ effect = [enabled |-> FALSE, bypass |-> FALSE] /\ native = FALSE
  /\ ready \in BOOLEAN
  /\ raw = FALSE /\ output = "surface" /\ fails = 0 /\ toggles = 0

-----------------------------------------------------------------------------
(* Answers. *)

\* submit_platform_response, of kind k: without a game there is nobody to tell.
Submit(k) ==
  IF ~game THEN UNCHANGED <<waiting, stray>>
  ELSE /\ waiting' = [waiting EXCEPT ![k] = 0]
       /\ stray' = IF waiting[k] = 0 THEN stray \cup {k} ELSE stray

-----------------------------------------------------------------------------
(* The frame output option (sync_frame_effect_source_mode). *)

Wanted(e, n, r) == n \/ (e.enabled /\ ~e.bypass /\ r)

\* Nothing is sent when the option is believed to be right already; a refused
\* option is believed to be off.
Sync(force, e, n, r) ==
  IF ~handle \/ (~force /\ Wanted(e, n, r) = raw)
  THEN raw' = Wanted(e, n, r) /\ UNCHANGED <<output, fails>>
  ELSE \/ /\ raw' = Wanted(e, n, r) /\ UNCHANGED fails
          /\ output' = IF Wanted(e, n, r) THEN "raw" ELSE "surface"
       \/ /\ fails < MaxFails /\ fails' = fails + 1
          /\ raw' = FALSE /\ UNCHANGED output

Idle == stage = "idle"

\* The settings pages are not open over a video.
Toggles ==
  /\ Idle /\ ~video.open /\ toggles < MaxToggles
  /\ Apart => pictures + videos = 0

\* set_frame_enhancement_enabled, _mode and _custom_chain: a new setting gives
\* a bypassed effect another chance.
SetFrameEnhancement ==
  /\ Toggles /\ toggles' = toggles + 1
  /\ \E on \in BOOLEAN : effect' = [enabled |-> on, bypass |-> FALSE]
  /\ Sync(FALSE, effect', native, ready)
  /\ UNCHANGED <<session, posted, requests, waiting, stray, stage, film,
                 movie, watching, dialog, shell, native, ready>>

SetFrameNativeOutput ==
  /\ Toggles /\ toggles' = toggles + 1
  /\ native' = ~native
  /\ Sync(FALSE, effect, native', ready)
  /\ UNCHANGED <<session, posted, requests, waiting, stray, stage, film,
                 movie, watching, dialog, shell, effect, ready>>

\* The rendering device is up.
DeviceReady ==
  /\ ~ready /\ ready' = TRUE /\ (Apart => pictures + videos = 0)
  /\ UNCHANGED <<session, posted, requests, waiting, stray, stage, film,
                 movie, watching, dialog, shell, effect, native, raw, output, fails, toggles>>

\* update_frame_texture: the option is tried again while the effect is not on,
\* and an effect that fails is bypassed until its settings change.
UpdateFrameTexture ==
  /\ Idle /\ game /\ effect.enabled /\ ~effect.bypass
  /\ \/ ~raw /\ UNCHANGED effect
     \/ raw /\ effect' = [effect EXCEPT !.bypass = TRUE]
  /\ Sync(FALSE, effect', native, ready)
  /\ UNCHANGED <<session, posted, requests, waiting, stray, stage, film,
                 movie, watching, dialog, shell, native, ready, toggles>>

-----------------------------------------------------------------------------
(* The engine. *)

\* initialize_engine: a new engine has the default output, whatever the last
\* one had; the option is sent even if it is believed to be right.
ForceNew_Mutant == FALSE
ForceNew == TRUE

InitializeEngine ==
  /\ Idle /\ ~handle /\ engines < MaxEngines
  /\ handle' = TRUE /\ engines' = engines + 1
  /\ \/ /\ ForceNew \/ Wanted(effect, native, ready) # raw
        /\ raw' = Wanted(effect, native, ready) /\ UNCHANGED fails
        /\ output' = IF raw' THEN "raw" ELSE "surface"
     \/ /\ ForceNew /\ fails < MaxFails /\ fails' = fails + 1
        /\ raw' = FALSE /\ output' = "surface"
     \/ /\ ~ForceNew /\ Wanted(effect, native, ready) = raw
        /\ output' = "surface" /\ UNCHANGED <<raw, fails>>
  /\ UNCHANGED <<game, left, posted, requests, waiting, stray, stage, film, movie,
                 watching, dialog, shell, settings>>

\* media_close
Close == media' = Closed /\ texture' = NoTexture

\* destroy_engine closes the media and forgets the engine, whether a game runs in it
\* or not; the movie's flags, the text dialog and what the shell still has to answer
\* stay.
DestroyEngine ==
  /\ Idle /\ handle /\ ~video.open
  /\ handle' = FALSE /\ game' = FALSE /\ Close
  /\ posted' = <<>> /\ waiting' = NoneWaiting /\ output' = "surface"
  /\ UNCHANGED <<engines, requests, stray, left, stage, pictures, movie, watching, dialog,
                 shell, settings, raw, fails>>

\* Somebody is about to answer a request of kind k, whichever game asked for it.
Outstanding(k) ==
  \/ k = "text" /\ dialog
  \/ k = "movie" /\ movie.active
  \/ k = "native" /\ shell > 0

StillOpen ==
  {k \in Kinds : Outstanding(k)} \cup {KindOf(posted[i]) : i \in DOMAIN posted}

\* _on_open_game: a new engine has no game yet, and one whose game failed takes the next.
OpenGame ==
  /\ Idle /\ handle /\ ~game /\ ~video.open
  /\ game' = TRUE /\ left' = StillOpen
  /\ waiting' = NoneWaiting /\ stray' = {}
  /\ UNCHANGED <<handle, engines, posted, requests, stage, film, movie, watching, dialog,
                 shell, settings, raw, output, fails>>

\* The startup or a tick of the game fails: the shell ticks it no more, and leaves the
\* engine as it is.
GameFails ==
  /\ Idle /\ game /\ game' = FALSE
  /\ fails < MaxFails /\ fails' = fails + 1
  /\ UNCHANGED <<handle, engines, left, posted, requests, waiting, stray, stage, film, movie,
                 watching, dialog, shell, settings, raw, output>>

\* The runtime asks for something.  It runs one movie and one text input at a
\* time: it waits for the answer before it asks for the next of the kind.
RuntimeAsks ==
  /\ game /\ requests + videos < MaxUses
  /\ \E r \in Requests :
       /\ waiting[KindOf(r)] = 0
       /\ posted' = Append(posted, r)
       /\ waiting' = [waiting EXCEPT ![KindOf(r)] = 1]
  /\ requests' = requests + 1
  /\ UNCHANGED <<session, stray, stage, film, movie, watching, dialog,
                 shell, settings, raw, output, fails>>

-----------------------------------------------------------------------------
(* tick *)

BeginTick ==
  /\ Idle /\ game /\ stage' = "drain"
  /\ UNCHANGED <<session, posted, requests, waiting, stray, film, movie,
                 watching, dialog, shell, settings, raw, output, fails>>

\* drain_platform_requests takes one request after the other.
Serve(r) ==
  /\ stage = "drain" /\ posted # <<>> /\ Head(posted) = r
  /\ posted' = Tail(posted)
  /\ UNCHANGED <<session, requests, stage, pictures, watching, settings, raw, output>>

\* show_runtime_text_input: a dialog still open is cancelled first.
ServeText ==
  /\ Serve("text")
  /\ dialog' = TRUE
  /\ IF dialog THEN Submit("text") ELSE UNCHANGED <<waiting, stray>>
  /\ UNCHANGED <<media, texture, movie, shell, fails>>

ServeMalformed ==
  /\ Serve("malformed")
  /\ Submit("text")
  /\ UNCHANGED <<media, texture, movie, dialog, shell, fails>>

Finished == movie' = NoMovie /\ Close /\ Submit("movie")

\* media_open closes what was open, and play starts; update_runtime_movie asks
\* for the movie's state at once and may find it broken.
ServeMovie ==
  /\ Serve("movie")
  /\ \/ /\ media' = Play(Opened) /\ texture' = NoTexture
        /\ UNCHANGED <<waiting, stray>>
        /\ \E s \in BOOLEAN : movie' = [active |-> TRUE, skippable |-> s]
     \/ Finished
  /\ UNCHANGED <<dialog, shell, fails>>

\* The movie cannot be opened or played: it is answered and closed.
ServeUnplayable ==
  /\ Serve("unplayable")
  /\ Close
  /\ Submit("movie")
  /\ UNCHANGED <<movie, dialog, shell, fails>>

\* call_native and purchase go to the shell's handler when one is connected,
\* otherwise they are answered as an absent module would.
ServeNative ==
  /\ Serve("native")
  /\ \/ shell' = shell + 1 /\ UNCHANGED <<waiting, stray>>
     \/ Submit("native") /\ UNCHANGED shell
  /\ UNCHANGED <<media, texture, movie, dialog, fails>>

EndDrain ==
  /\ stage = "drain" /\ posted = <<>> /\ stage' = "movie"
  /\ UNCHANGED <<session, posted, requests, waiting, stray, film, movie,
                 watching, dialog, shell, settings, raw, output, fails>>

\* update_runtime_movie: a movie that ended or broke is answered.
Over_Mutant == media.ended
Over == media.ended \/ media.broken

UpdateMovie ==
  /\ stage = "movie" /\ stage' = "idle"
  /\ IF movie.active /\ Over THEN Finished
     ELSE /\ media' = IF movie.active THEN UpdateFrame(media) ELSE media
          /\ UNCHANGED <<texture, movie, waiting, stray>>
  /\ UNCHANGED <<session, posted, requests, pictures, watching, dialog,
                 shell, settings, raw, output, fails>>

\* update_source_frame_texture: the movie's picture instead of the runtime's.
ShowMovie ==
  /\ Idle /\ game /\ movie.active
  /\ texture' = UpdateTexture(texture, media)
  /\ UNCHANGED <<media, pictures, watching, engine, movie>>

-----------------------------------------------------------------------------
(* The videos of the shell's library, while no game runs.                    *)

\* _open_video_player_after_iap: what was open is closed first, also when the
\* video does not open.
OpenVideo ==
  /\ Idle /\ handle /\ ~game /\ ~video.open /\ requests + videos < MaxUses
  /\ Apart => toggles = 0
  /\ videos' = videos + 1
  /\ \/ /\ media' = Play(Opened) /\ texture' = NoTexture
        /\ video' = [NoVideo EXCEPT !.open = TRUE]
     \/ Close /\ UNCHANGED video
  /\ UNCHANGED <<pictures, engine, movie>>

\* _process_video_playback: the texture is fetched when the polled serial is
\* another than that of the last poll.
ProcessVideo ==
  /\ video.open
  /\ media' = UpdateFrame(media)
  /\ LET serial == PolledSerial(media')
         fetch  == FrameReady(media') /\ ~(video.polled /\ video.serial = serial)
     IN /\ texture' = IF fetch THEN UpdateTexture(texture, media') ELSE texture
        /\ video' = [video EXCEPT !.polled = TRUE, !.serial = serial,
                       !.status = Status(media'),
                       !.view = IF fetch THEN texture'.picture ELSE @]
  /\ UNCHANGED <<pictures, videos, engine, movie>>

\* _toggle_video_playback goes by the last poll; from the end it plays again
\* from the start.
ToggleVideo ==
  /\ video.open /\ ~video.hidden
  /\ media' = IF video.status = "playing" THEN Pause(media)
              ELSE IF video.status = "ended" THEN Play(Seek(media)) ELSE Play(media)
  /\ UNCHANGED <<texture, pictures, watching, engine, movie>>

\* _notification: the application leaves the front and comes back.
AppPaused ==
  /\ video.open /\ ~video.hidden
  /\ media' = Pause(media)
  /\ video' = [video EXCEPT !.hidden = TRUE, !.resume = video.status = "playing"]
  /\ UNCHANGED <<texture, pictures, videos, engine, movie>>

AppResumed ==
  /\ video.open /\ video.hidden
  /\ media' = IF video.resume THEN Play(media) ELSE media
  /\ video' = [video EXCEPT !.hidden = FALSE, !.resume = FALSE]
  /\ UNCHANGED <<texture, pictures, videos, engine, movie>>

\* _close_video_player
CloseVideo ==
  /\ video.open /\ video' = NoVideo
  /\ Close
  /\ UNCHANGED <<pictures, videos, engine, movie>>

-----------------------------------------------------------------------------
(* The decoder, the user and the shell's handlers. *)

\* What it does during a tick can as well come before the tick, which looks at it
\* in its last step only.
MediaDecodes ==
  /\ Idle /\ Decoding(media) /\ pictures < MaxPictures /\ (Apart => toggles = 0)
  /\ pictures' = pictures + 1 /\ media' = Decoded(media, pictures')
  /\ UNCHANGED <<texture, watching, engine, movie>>

MediaEnds ==
  /\ Idle /\ Decoding(media) /\ media' \in {Ended(media), Broken(media)}
  /\ UNCHANGED <<texture, pictures, watching, engine, movie>>

\* send_pointer_event: a press skips a movie that may be skipped, and that the flags
\* of an earlier game still say is shown.
PressSkips ==
  /\ Idle /\ game /\ movie.active /\ movie.skippable
  /\ Finished
  /\ UNCHANGED <<session, posted, requests, stage, pictures, watching, dialog,
                 shell, settings, raw, output, fails>>

\* confirm_, cancel_ and submit_runtime_text_input.
CloseDialog_Mutant == UNCHANGED dialog
CloseDialog == dialog' = FALSE

UserAnswers ==
  /\ Idle /\ dialog
  /\ CloseDialog
  /\ Submit("text")
  /\ UNCHANGED <<session, posted, requests, stage, film, movie, watching,
                 shell, settings, raw, output, fails>>

ShellAnswers ==
  /\ Idle /\ shell > 0 /\ shell' = shell - 1
  /\ Submit("native")
  /\ UNCHANGED <<session, posted, requests, stage, film, movie, watching,
                 dialog, settings, raw, output, fails>>

Ticking ==
  \/ BeginTick \/ ServeText \/ ServeMalformed \/ ServeMovie \/ ServeUnplayable
  \/ ServeNative \/ EndDrain \/ UpdateMovie

PlayerNext ==
  \/ SetFrameEnhancement \/ SetFrameNativeOutput \/ DeviceReady \/ UpdateFrameTexture
  \/ InitializeEngine \/ DestroyEngine \/ OpenGame \/ GameFails \/ RuntimeAsks \/ Ticking
  \/ ShowMovie \/ OpenVideo \/ ProcessVideo \/ ToggleVideo \/ AppPaused
  \/ AppResumed \/ CloseVideo \/ MediaDecodes \/ MediaEnds \/ PressSkips
  \/ UserAnswers \/ ShellAnswers

PlayerSpec == PlayerInit /\ [][PlayerNext]_playerVars

\* The shell ticks; a movie ends; the user and the shell's handlers answer.
PlayerFairSpec ==
  /\ PlayerSpec
  /\ SF_playerVars(Ticking) /\ SF_playerVars(MediaEnds)
  /\ SF_playerVars(UserAnswers) /\ SF_playerVars(ShellAnswers)

-----------------------------------------------------------------------------
(* Properties. *)

\* "Returns the asynchronous result of a platform request to the active runtime
\* provider" (engine_api.h): a game gets an answer it did not wait for only of a kind
\* of which something was open when it was opened: what it asks for itself is answered
\* once, whatever the ends, the failures, the skips, the dialogs that are cancelled.
AnswersExpected == stray \subseteq left

\* A movie the player thinks is shown has a player: presses are swallowed, and the
\* picture taken over, for no longer than that; unless it is an earlier game's.
MovieHasMedia == (game /\ movie.active /\ "movie" \notin left) => media.open

\* "Completes a request previously emitted through host.platform_request"
\* (engine_runtime_provider.h): no game is told that a movie it did not ask for is over,
\* or gets what the shell's handler found for an earlier one.  Does not hold: see
\* DestroyEngine.  (The text dialog is left out: while it is open Godot keeps the
\* user's input from the shell, which then opens no other game.)
GamesOwnAnswers == stray \subseteq {"text"}

\* The player never believes the engine publishes its raw source, which the
\* frame effect then scales, when the engine does not: across failed options,
\* bypassed effects and a new engine with the default option.
BelievedRaw == (handle /\ raw) => output = "raw"

\* The screen of the video library shows the last picture taken from the
\* decoder, of the video that is open, whichever was open before it.
VideoShown == (video.open /\ ~media.broken) => video.view = media.rgba

\* What the player believes of its engine, its movie and its video is so.
BeliefsHold == MovieHasMedia /\ BelievedRaw /\ VideoShown

\* A runtime that waits for an answer gets it, unless its game fails or is closed.
EveryRequestAnswered ==
  \A k \in Kinds : (game /\ waiting[k] > 0) ~> (waiting[k] = 0 \/ ~game)

=============================================================================
