---------------------------- MODULE SiglusRuntime ----------------------------
(***************************************************************************)
(* The Siglus runtime provider (bridge/siglus_runtime/src/                 *)
(* siglus_runtime_provider.cpp), the frames it shares with the host        *)
(* (siglus_shared_frame.mm, absent outside Apple's systems) and its sound  *)
(* output (siglus_audio_output.cpp): one output for the process, fed by a  *)
(* pump thread that StartOutput begins and StopOutput joins.               *)
(*                                                                         *)
(* One runtime lives at a time, one after the other, as the shell has      *)
(* them.  Its calls come one at a time; the pump thread runs beside them.  *)
(* The engine itself (siglus_ak) is a library outside this repository:     *)
(* a call of it succeeds or fails.  A tick that fails is left out: the     *)
(* shell then ticks the game no more.                                      *)
(***************************************************************************)
EXTENDS Naturals

CONSTANTS
  Shells,    \* sizes of the shell's surface
  Game,      \* the size a game declares for its screen
  Unknown,   \* no cursor, no size, and the size a new runtime begins with
  MaxFrames, \* bound: frames the runtimes draw
  MaxOpens   \* bound: games opened

ASSUME SiglusRuntimeAssumption ==
  /\ MaxFrames \in Nat /\ MaxOpens \in Nat
  /\ Game \notin Shells /\ Unknown \notin Shells \cup {Game} \cup Nat

VARIABLES
  rt,     \* the ProviderRuntime: exists, opened, paused, terminated
  frame,  \* the latest frame: serial, delivered serial, the frame whose pixels are in
          \* frame_rgba, shared_current; history: frames drawn before this game's first
  ring,   \* the targets shared with the host: frame rendered last, frame exposed
  geom,   \* sizes: pending (the shell's), native, the screen of siglus_ak
  cursor, \* ime_start, ime_length: the opening they were sent in
  seen,   \* history: the frame the host last got
  opens,  \* games opened so far
  call,   \* the provider call that is changing the output: which, and where
  out,    \* g_device and g_context exist; g_stop, g_paused
  pump,   \* the pump thread: none, starting, running, ended
  sound   \* the AL source plays

host == <<geom, cursor>>
siglusVars == <<rt, frame, ring, host, seen, opens, call, out, pump, sound>>

NoRuntime == [exists |-> FALSE, opened |-> FALSE, paused |-> FALSE, terminated |-> FALSE]
NoFrame == [serial |-> 0, delivered |-> 0, rgba |-> 0, shared |-> FALSE, first |-> 0]
NoRing == [last |-> 0, shown |-> 0]
NoGeometry == [pending |-> Unknown, native |-> Unknown, screen |-> Unknown]
NoCall == [op |-> "none", at |-> "none"]

SiglusInit ==
  /\ rt = NoRuntime /\ frame = NoFrame /\ ring = NoRing /\ geom = NoGeometry
  /\ cursor = Unknown /\ seen = 0 /\ opens = 0 /\ call = NoCall
  /\ out = [device |-> FALSE, stop |-> FALSE, paused |-> FALSE]
  /\ pump = "none" /\ sound = FALSE

Free == call = NoCall
drawing == <<frame, ring>>
audio == <<out, pump, sound>>

-----------------------------------------------------------------------------
(* The output.  A call holds g_mutex from its first step to its last. *)

\* StopLocked: without a device there is nothing to stop.
StopLocked(op, next) ==
  IF out.device THEN /\ out' = [out EXCEPT !.stop = TRUE]
                     /\ call' = [op |-> op, at |-> "join"]
  ELSE UNCHANGED out /\ call' = [op |-> op, at |-> next]

AfterStop(op) == IF op = "open" THEN "start" ELSE "return"

\* g_pump.join()
Joined_Mutant == TRUE
Joined == pump \in {"none", "ended"}

Join ==
  /\ call.at = "join" /\ Joined
  /\ call' = [call EXCEPT !.at = AfterStop(call.op)]
  /\ out' = [out EXCEPT !.device = FALSE]
  /\ sound' = FALSE
  /\ UNCHANGED <<rt, drawing, host, seen, opens, pump>>

\* StartOutput: the buffers are filled and the pump thread begins; a device or
\* an object that cannot be had leaves the game without sound.
StartOutput ==
  /\ call.at = "start"
  /\ call' = [call EXCEPT !.at = "return"]
  /\ \/ /\ out' = [device |-> TRUE, stop |-> FALSE, paused |-> FALSE]
        /\ pump' = "starting"
     \/ UNCHANGED <<out, pump>>
  /\ UNCHANGED <<rt, drawing, host, seen, opens, sound>>

\* PumpLoop: the source is started; each round looks at g_stop first, then
\* pauses the source or refills its buffers and plays.
PumpStarts ==
  /\ pump = "starting" /\ pump' = "running" /\ sound' = TRUE
  /\ UNCHANGED <<rt, drawing, host, seen, opens, call, out>>

Stops_Mutant == out.stop /\ ~out.paused
Stops == out.stop

Plays == ~out.paused

PumpRound ==
  /\ pump = "running"
  /\ IF Stops THEN pump' = "ended" /\ UNCHANGED sound
     ELSE sound' = Plays /\ UNCHANGED pump
  /\ UNCHANGED <<rt, drawing, host, seen, opens, call, out>>

-----------------------------------------------------------------------------
(* The provider's calls. *)

Create ==
  /\ Free /\ ~rt.exists /\ opens < MaxOpens
  /\ rt' = [NoRuntime EXCEPT !.exists = TRUE]
  /\ frame' = NoFrame /\ ring' = NoRing /\ seen' = 0 /\ geom' = NoGeometry /\ cursor' = Unknown
  /\ UNCHANGED <<opens, call, audio>>

\* Destroy stops the output, then frees the runtime (FreeRuntime).
Destroy ==
  /\ Free /\ rt.exists
  /\ StopLocked("destroy", "return")
  /\ UNCHANGED <<rt, drawing, host, seen, opens, pump, sound>>

\* The engine opens at the shell's size; a game that declares its own gets that,
\* and keeps it: the shell scales the picture.
Sized ==
  \E native \in {Game, Unknown} :
    geom' = [geom EXCEPT !.native = native,
                         !.screen = IF native = Unknown THEN geom.pending ELSE native]

RenderSize(shell) == IF geom.native = Unknown THEN shell ELSE geom.native

\* A game that is not open, or cannot be resized, has the size for its next opening.
SetSurfaceSize ==
  /\ Free /\ rt.exists
  /\ \E shell \in Shells, ok \in BOOLEAN :
       geom' = [geom EXCEPT !.pending = shell,
                            !.screen = IF rt.opened /\ ok THEN RenderSize(shell) ELSE @]
  /\ UNCHANGED <<rt, drawing, cursor, seen, opens, call, audio>>

\* SetOption: the cursor is kept for the text that is composed next.
SetImeCursor ==
  /\ Free /\ rt.exists /\ cursor' = opens
  /\ UNCHANGED <<rt, drawing, geom, seen, opens, call, audio>>

\* OpenGame closes the game that is open and its shared targets; the pixels it read
\* back stay.  One that cannot be opened leaves the flags, the last frame and the
\* output of the one before it as they are.
OpenGame ==
  /\ Free /\ rt.exists /\ opens < MaxOpens /\ opens' = opens + 1
  /\ rt' = [rt EXCEPT !.opened = TRUE, !.paused = FALSE, !.terminated = FALSE]
  /\ frame' = [frame EXCEPT !.shared = FALSE, !.first = frame.serial] /\ ring' = NoRing
  /\ IF out.device THEN /\ out' = [out EXCEPT !.stop = TRUE, !.paused = FALSE]
                        /\ call' = [op |-> "open", at |-> "join"]
     ELSE /\ out' = [out EXCEPT !.paused = FALSE]
          /\ call' = [op |-> "open", at |-> "start"]
  /\ Sized /\ cursor' = Unknown
  /\ UNCHANGED <<seen, pump, sound>>

OpenFails ==
  /\ Free /\ rt.exists /\ opens < MaxOpens /\ opens' = opens + 1
  /\ rt' = [rt EXCEPT !.opened = FALSE]
  /\ geom' = [geom EXCEPT !.native = Unknown, !.screen = Unknown]
  /\ ring' = NoRing
  /\ UNCHANGED <<frame, cursor, seen, call, audio>>

\* A call that is done; the destroyed runtime is freed, one whose game asked to
\* exit is terminated.
Return ==
  /\ call.at = "return" /\ call' = NoCall
  /\ IF call.op = "destroy" THEN rt' = NoRuntime ELSE UNCHANGED rt
  /\ UNCHANGED <<drawing, host, seen, opens, audio>>

Ticks == Free /\ rt.opened /\ ~rt.terminated /\ ~rt.paused

\* SharedFrame::begin and publish: the step renders into a target that neither side
\* still uses, if there is one; of the targets that are ready the newest is exposed,
\* otherwise what was exposed before.  Targets of another size are made anew.
Exposed(r, n) ==
  {[last |-> 0, shown |-> r.shown]} \cup
  {[last |-> n, shown |-> shown] : shown \in {n, r.shown} \cup ({r.last} \ {0})}

\* Tick: the step draws a frame, which is shared with the host or, when nothing can be
\* exposed, read back; one that cannot be read back is lost but counted.
TickDraws ==
  /\ Ticks /\ frame.serial < MaxFrames
  /\ LET n == frame.serial + 1 IN
     \E r \in {ring, NoRing} :
       \/ /\ ring' \in {e \in Exposed(r, n) : e.shown # 0}
          /\ frame' = [frame EXCEPT !.serial = n, !.shared = TRUE, !.rgba = 0]
       \/ /\ ring' \in {r, [r EXCEPT !.last = n]}
          /\ \E rgba \in {0, n} :
               frame' = [frame EXCEPT !.serial = n, !.shared = FALSE, !.rgba = rgba]
  /\ UNCHANGED <<rt, host, seen, opens, call, audio>>

TickExits ==
  /\ Ticks
  /\ rt' = [rt EXCEPT !.terminated = TRUE]
  /\ StopLocked("exit", "return")
  /\ UNCHANGED <<drawing, host, seen, opens, pump, sound>>

PausedBy(p) == out' = [out EXCEPT !.paused = p]

PauseGame ==
  /\ Free /\ rt.opened
  /\ rt' = [rt EXCEPT !.paused = TRUE] /\ PausedBy(TRUE)
  /\ UNCHANGED <<drawing, host, seen, opens, call, pump, sound>>

ResumeGame ==
  /\ Free /\ rt.opened
  /\ rt' = [rt EXCEPT !.paused = FALSE] /\ PausedBy(FALSE)
  /\ UNCHANGED <<drawing, host, seen, opens, call, pump, sound>>

\* ReadFrame: of a shared frame siglus_ak has the pixels, as long as its game is open.
\* A frame is delivered when the host really got it.
Pixels == IF frame.shared THEN IF rt.opened THEN frame.serial ELSE 0 ELSE frame.rgba

Delivered_Mutant(ok) == frame' = [frame EXCEPT !.delivered = frame.serial]
Delivered(ok) ==
  IF ok THEN frame' = [frame EXCEPT !.delivered = frame.serial] ELSE UNCHANGED frame

ReadFrame ==
  /\ Free /\ rt.exists
  /\ \E ok \in BOOLEAN :
       /\ ok => Pixels # 0
       /\ Delivered(ok)
       /\ seen' = IF ok THEN Pixels ELSE seen
  /\ UNCHANGED <<rt, ring, host, opens, call, audio>>

\* get_godot_native_frame_texture: what is exposed counts for the latest frame.
GetTexture ==
  /\ Free /\ rt.exists /\ frame.shared /\ ring.shown # 0
  /\ Delivered(TRUE) /\ seen' = ring.shown
  /\ UNCHANGED <<rt, ring, host, opens, call, audio>>

\* GetFrameRenderedFlag
RenderedFlag == frame.serial # frame.delivered

SiglusNext ==
  \/ Join \/ StartOutput \/ PumpStarts \/ PumpRound
  \/ Create \/ Destroy \/ OpenGame \/ OpenFails \/ Return
  \/ SetSurfaceSize \/ SetImeCursor
  \/ TickDraws \/ TickExits \/ PauseGame \/ ResumeGame \/ ReadFrame \/ GetTexture

SiglusSpec == SiglusInit /\ [][SiglusNext]_siglusVars

\* The pump thread runs, and so does a call once it has begun.
SiglusFairness ==
  /\ WF_siglusVars(PumpStarts \/ PumpRound) /\ WF_siglusVars(Join \/ StartOutput \/ Return)

-----------------------------------------------------------------------------
(* Properties. *)

\* The types of the variables.
ScreenSizes == Shells \cup {Game, Unknown}

Runtimes == [exists : BOOLEAN, opened : BOOLEAN, paused : BOOLEAN, terminated : BOOLEAN]
Frames == [serial : Nat, delivered : Nat, rgba : Nat, shared : BOOLEAN, first : Nat]
Rings == [last : Nat, shown : Nat]
Geometries == [pending : ScreenSizes, native : ScreenSizes, screen : ScreenSizes]
Calls == [op : {"none", "open", "exit", "destroy"}, at : {"none", "join", "start", "return"}]
Outputs == [device : BOOLEAN, stop : BOOLEAN, paused : BOOLEAN]

\* Every variable keeps its type.
TypeOK ==
  /\ rt \in Runtimes /\ frame \in Frames /\ ring \in Rings /\ geom \in Geometries
  /\ cursor \in Nat \cup {Unknown} /\ seen \in Nat /\ opens \in Nat
  /\ call \in Calls /\ out \in Outputs
  /\ pump \in {"none", "starting", "running", "ended"} /\ sound \in BOOLEAN

\* The pump thread works on a device and a context that exist: they are closed
\* only after it ended, and it is never begun a second time beside itself.
PumpOnDevice ==
  /\ (pump \in {"starting", "running"}) => out.device
  /\ call.at = "start" => pump \in {"none", "ended"}

\* The game that runs has drawn a frame.
Drawn == rt.opened /\ frame.serial > frame.first

\* A frame the flag calls old was given to the host, with its own pixels: none is left
\* behind by a read that failed, a step that was not read back or a switch between
\* shared and read-back frames.  A texture may be the one exposed before, of this game.
NoFrameLost ==
  Drawn /\ ~RenderedFlag => IF frame.shared THEN seen > frame.first ELSE seen = frame.serial

\* What the host can get: the pixels of a frame, the frame exposed to it.
Readable == {Pixels, IF frame.shared THEN ring.shown ELSE 0} \ {0}

\* From its first frame on a game shows the host no picture of one opened before it.
OwnFrame == Drawn => \A n \in Readable : n > frame.first

\* "Reads current frame" (engine_api.h), and "no frame rendered yet" before there is one:
\* no game ever shows the host a picture of one opened before it.  Does not hold before
\* the first frame: OpenGame leaves the pixels that were read back.
FramesOfTheGame == Free /\ rt.opened => \A n \in Readable : n > frame.first

\* A game of a known size is always drawn, and gets its pointers, in that size,
\* however the shell's surface changes before and after the opening ("native
\* geometry remains the runtime's logical input and render space").
NativeScreen == (rt.opened /\ geom.native # Unknown) => geom.screen = geom.native

\* Text composed in a game never has the cursor of a game opened before it.
OwnCursor == rt.opened => cursor \in {Unknown, opens}

\* The screen and the cursor the host gave the runtime, and from the game's first frame
\* on the pictures it gets from it, belong to the game that runs.
HostInStep == NoFrameLost /\ OwnFrame /\ NativeScreen /\ OwnCursor

\* The pump thread obeys: opening, ending and destroying a runtime come back, for
\* it sees that it is to stop, also while it is paused; and a paused game falls
\* silent, unless it is resumed, reopened or ended.
PumpObeys ==
  /\ ~Free ~> Free
  /\ (rt.opened /\ rt.paused) ~> (~rt.paused \/ ~rt.opened \/ ~sound)

=============================================================================
