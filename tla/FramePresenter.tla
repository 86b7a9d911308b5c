--------------------------- MODULE FramePresenter ---------------------------
(***************************************************************************)
(* How AetherRuntimePlayer puts the engine's picture on the screen         *)
(* (update_source_frame_texture, update_presented_bridge_texture and the   *)
(* textures they keep, bridge/godot_extension/src/aether_runtime_player    *)
(* .cpp) inside the shell's loop: tick, update, draw.                      *)
(*                                                                         *)
(* A picture is the number of the engine tick that drew it.  The engine    *)
(* has a persistent GPU texture and a CPU compatibility frame; the GPU     *)
(* picture reaches the screen through a ring of two textures whose copies  *)
(* the render thread encodes, directly, or not at all, in which case the   *)
(* CPU frame is read back.                                                 *)
(***************************************************************************)
EXTENDS Naturals

CONSTANTS
  MaxPicture,  \* bound: ticks of the engine that draw something new
  MaxFails,    \* bound: copies that fail to be encoded
  Renderers    \* renderers the shell chooses from: native, bridge, software

ASSUME FramePresenterAssumption ==
  /\ MaxPicture \in Nat /\ MaxFails \in Nat
  /\ Renderers \subseteq {"native", "bridge", "software"}

VARIABLES
  inline,    \* the player runs on Godot's render thread and nothing defers its copies
  pacing,    \* artemis_logical_frame_pacing_
  renderer,  \* backend_
  eng,       \* the engine's pictures, its frame serial and what its queries say
  phase,     \* where the shell's loop stands: tick, update, draw
  movie,     \* runtime_movie_active_ with a decoded picture in media_texture_
  ring,      \* frame_present_*: the two slots, which is current, which pending
  op,        \* frame_present_pending_op_: none, queued, done or failed
  cache,     \* frame_texture_ and frame_texture_serial_
  rd,        \* frame_rd_texture_, the CPU frame uploaded for a GPU renderer
  held,      \* last_native_texture_serial_, NoSerial with no last_native_texture_id_
  fails,     \* copies that failed
  screen,    \* the texture the viewport shows
  scene,     \* history: the GPU picture when a reset was last read
  drawn      \* history: the ring's picture on the last drawn frame, if it showed one

vars == <<inline, pacing, renderer, eng, phase, movie, ring, op, cache, rd,
          held, fails, screen, scene, drawn>>

Slots == {0, 1}
Blank == 0
Pictures == 0..MaxPicture
NoSerial == MaxPicture + 1

NoRing == [made |-> FALSE, pic |-> [s \in Slots |-> Blank], cur |-> 0, pend |-> 0,
           hasCur |-> FALSE, hasPend |-> FALSE, crossed |-> FALSE]
\* ensure_presentation_textures builds two empty slots.
NewRing == [NoRing EXCEPT !.made = TRUE]

SlotOf(s) == [kind |-> "ring", slot |-> s]
Live == [kind |-> "live", slot |-> 0]
Frame == [kind |-> "cpu", slot |-> 0]
Uploaded == [kind |-> "rd", slot |-> 0]
Movie == [kind |-> "movie", slot |-> 0]
Nothing == [kind |-> "none", slot |-> 0]

Init ==
  /\ inline \in BOOLEAN /\ pacing \in BOOLEAN
  /\ renderer \in Renderers
  /\ eng = [gpu |-> 0, cpu |-> 0, serial |-> 0, native |-> FALSE, reset |-> FALSE]
  /\ phase = "tick" /\ movie = FALSE
  /\ ring = NoRing /\ op = "none"
  /\ cache = [pic |-> Blank, serial |-> NoSerial] /\ rd = Blank /\ held = NoSerial
  /\ fails = 0 /\ screen = Nothing /\ scene = Blank
  /\ drawn = Blank

-----------------------------------------------------------------------------
(* The engine and the shell's loop. *)

\* AetherRuntimePlayer::tick: the engine draws, on the GPU, for the CPU frame
\* or both, and says so (engine_get_frame_rendered_flag).  reset is the
\* presentation state of the frame: the scene was handed over to the CPU.  (No
\* path compares serials of GPU pictures, so each picture has its own.)
EngineDraws ==
  /\ phase = "tick" /\ eng.serial < MaxPicture
  /\ \E onGpu, onCpu, native, reset \in BOOLEAN :
       LET n == eng.serial + 1 IN
       /\ onGpu \/ onCpu
       /\ reset => (native /\ onGpu)
       /\ native => (onGpu \/ eng.gpu # 0)
       /\ eng' = [gpu |-> IF onGpu THEN n ELSE eng.gpu,
                  cpu |-> IF onCpu THEN n ELSE eng.cpu,
                  serial |-> n, native |-> native, reset |-> reset]
  /\ phase' = "update"
  /\ UNCHANGED <<inline, pacing, renderer, movie, ring, op, cache, rd, held,
                 fails, screen, scene, drawn>>

\* A tick that draws the same picture again.
EngineRedraws ==
  /\ phase = "tick" /\ eng.serial > 0
  /\ phase' = "update"
  /\ UNCHANGED <<inline, pacing, renderer, eng, movie, ring, op, cache, rd, held,
                 fails, screen, scene, drawn>>

\* A tick the engine's render limiter skips: the shell calls no update.
EngineSkips ==
  /\ phase = "tick"
  /\ phase' = "draw"
  /\ UNCHANGED <<inline, pacing, renderer, eng, movie, ring, op, cache, rd, held,
                 fails, screen, scene, drawn>>

\* set_render_backend, a movie's first picture and its end, between two ticks.
SetRenderBackend ==
  /\ phase = "tick" /\ eng.serial < MaxPicture
  /\ renderer' \in Renderers \ {renderer}
  /\ UNCHANGED <<inline, pacing, eng, phase, movie, ring, op, cache, rd, held,
                 fails, screen, scene, drawn>>

MovieChanges ==
  /\ phase = "tick" /\ eng.serial < MaxPicture
  /\ movie' = ~movie
  /\ UNCHANGED <<inline, pacing, renderer, eng, phase, ring, op, cache, rd,
                 held, fails, screen, scene, drawn>>

\* release_frame_texture: the shell clears the viewport first.
ReleaseFrameTexture ==
  /\ phase = "tick" /\ eng.serial < MaxPicture
  /\ screen' = Nothing
  /\ ring' = NoRing /\ op' = "none" /\ cache' = [cache EXCEPT !.pic = Blank]
  /\ rd' = Blank /\ held' = NoSerial
  /\ UNCHANGED <<inline, pacing, renderer, eng, phase, movie, fails, scene, drawn>>

\* Godot draws what the viewport shows and submits the encoded copies: its
\* frame counter passes frame_present_pending_draw_frame_.
RingPicture == IF screen.kind = "ring" THEN ring.pic[screen.slot] ELSE Blank

\* reset is the state of the frame just shown: the next tick's has its own.
NextTick ==
  /\ phase = "draw" /\ phase' = "tick"
  /\ eng' = [eng EXCEPT !.reset = FALSE]
  /\ UNCHANGED <<inline, pacing, renderer, movie, op, cache, rd, held, fails,
                 screen, scene>>

Draw ==
  /\ NextTick
  /\ drawn' = RingPicture
  /\ ring' = [ring EXCEPT !.crossed = ring.hasPend]

\* The loop goes round without a frame being drawn (a hidden window).
NoDraw == NextTick /\ UNCHANGED <<ring, drawn>>

\* The render thread runs the queued copy.  ok is the operation's result.
Copied(r) == [r EXCEPT !.pic[r.pend] = eng.gpu]
EncodeCopy ==
  /\ op = "queued"
  /\ \/ op' = "done" /\ ring' = Copied(ring) /\ UNCHANGED fails
     \/ fails < MaxFails /\ op' = "failed" /\ fails' = fails + 1 /\ UNCHANGED ring
  /\ UNCHANGED <<inline, pacing, renderer, eng, phase, movie, cache, rd, held, screen,
                 scene, drawn>>

-----------------------------------------------------------------------------
(* update_source_frame_texture: one disjunct per way it returns. *)

Updating == phase = "update" /\ phase' = "draw"

\* engine_get_godot_native_frame_texture gives a texture to a GPU renderer.
NativeFrame == eng.native /\ renderer \in {"native", "bridge"}

RingRead == IF eng.reset THEN NoRing ELSE ring
OpRead == IF eng.reset THEN "none" ELSE op
HeldRead == IF eng.reset THEN NoSerial ELSE held
SceneRead == IF eng.reset THEN eng.gpu ELSE scene

\* Every native path records the serial and drops the CPU frame's texture.
NativeShown_Mutant == [cache EXCEPT !.serial = eng.serial]
NativeShown == [pic |-> Blank, serial |-> eng.serial]

ShowMovie ==
  /\ Updating /\ movie
  /\ screen' = Movie
  /\ UNCHANGED <<inline, pacing, renderer, eng, movie, ring, op, cache, rd, held,
                 fails, scene, drawn>>

\* Direct presentation of a provider-owned texture, and the fallback when no
\* ring can be had: imported or resolved, it is the provider's own storage.
ShowLive ==
  /\ Updating /\ ~movie /\ NativeFrame
  /\ ring' = NoRing /\ op' = "none"
  /\ held' = IF renderer = "native" THEN eng.serial ELSE HeldRead
  /\ cache' = NativeShown
  /\ screen' = Live /\ scene' = SceneRead
  /\ UNCHANGED <<inline, pacing, renderer, eng, movie, rd, fails, drawn>>

Arrived(r, o) == r.hasPend /\ r.crossed /\ o = "done"
Dropped_Mutant(r, o) == FALSE
Dropped(r, o) == r.hasPend /\ r.crossed /\ o = "failed"
Waiting(r, o) == r.hasPend /\ ~Arrived(r, o) /\ ~Dropped(r, o)

Promoted(r, o) ==
  IF Arrived(r, o)
  THEN [r EXCEPT !.cur = r.pend, !.hasCur = TRUE, !.hasPend = FALSE, !.crossed = FALSE]
  ELSE [r EXCEPT !.hasPend = FALSE, !.crossed = FALSE]

NextSlot_Mutant(r) == r.cur
NextSlot(r) == IF r.hasCur THEN 1 - r.cur ELSE 0
Pended(r) == [r EXCEPT !.pend = NextSlot(r), !.hasPend = TRUE, !.crossed = FALSE]

\* What the ring shows: its current slot, or the provider's texture until a
\* first copy has crossed a drawn frame.
RingShows(r) == IF r.hasCur THEN SlotOf(r.cur) ELSE Live

Presented(r) ==
  /\ Updating /\ ~movie /\ NativeFrame
  /\ ~(renderer = "native" /\ pacing)
  /\ ring' = r
  /\ held' = HeldRead /\ scene' = SceneRead
  /\ UNCHANGED <<inline, pacing, renderer, eng, movie, rd, drawn>>

KeepWaiting ==
  /\ Waiting(RingRead, OpRead)
  /\ Presented(RingRead)
  /\ op' = OpRead /\ cache' = NativeShown /\ screen' = RingShows(RingRead)
  /\ UNCHANGED fails

\* The ring there is, rebuilt when its size or format does not fit: a new copy
\* is queued, or run at once on the render thread.
RingFor == {NewRing} \cup IF Waiting(RingRead, OpRead) THEN {}
                          ELSE {Promoted(RingRead, OpRead)} \ {NoRing}

QueueCopy ==
  /\ ~inline
  /\ \E r \in RingFor :
       /\ Presented(Pended(r))
       /\ op' = "queued" /\ cache' = NativeShown /\ screen' = RingShows(r)
  /\ UNCHANGED fails

CopyAtOnce ==
  /\ inline
  /\ \E r \in RingFor :
       /\ Presented(Copied(Pended(r)))
       /\ op' = "done" /\ cache' = NativeShown /\ screen' = RingShows(r)
  /\ UNCHANGED fails

\* The copy fails at once: the current slot is returned as the ring has it,
\* and neither the serial nor the pending slot changes.
CopyRefused ==
  /\ inline /\ fails < MaxFails
  /\ fails' = fails + 1
  /\ \E r \in RingFor :
       Presented(r) /\ screen' = SlotOf(r.cur)
  /\ op' = "none"
  /\ cache' = [cache EXCEPT !.pic = Blank]

\* With no native frame now, a paced runtime keeps its last one on the screen.
Holding == pacing /\ held # NoSerial

HoldLast ==
  /\ Updating /\ ~movie /\ ~NativeFrame /\ Holding
  /\ screen' = Live /\ cache' = [cache EXCEPT !.serial = held]
  /\ UNCHANGED <<inline, pacing, renderer, eng, movie, ring, op, rd, held, fails,
                 scene, drawn>>

\* Otherwise the CPU frame is asked for; a held texture that no longer resolves
\* is forgotten.
FallBack ==
  /\ Updating /\ ~movie /\ ~NativeFrame
  /\ held' = IF pacing THEN NoSerial ELSE held
  /\ UNCHANGED <<inline, pacing, renderer, eng, movie, ring, op, scene, drawn>>

CachedFrame == cache.pic # Blank /\ cache.serial = eng.serial

ShowCached ==
  /\ FallBack /\ eng.cpu # Blank /\ CachedFrame
  /\ screen' = Frame
  /\ UNCHANGED <<cache, rd, fails>>

\* It is read back into an ImageTexture, or for a GPU renderer into a texture
\* of the rendering device when that can be had.
ReadBack ==
  /\ FallBack /\ eng.cpu # Blank /\ ~CachedFrame
  /\ \/ /\ cache' = [pic |-> eng.cpu, serial |-> eng.serial]
        /\ screen' = Frame /\ UNCHANGED rd
     \/ /\ renderer \in {"native", "bridge"}
        /\ cache' = [pic |-> Blank, serial |-> eng.serial]
        /\ rd' = eng.cpu /\ screen' = Uploaded
  /\ UNCHANGED fails

\* No frame yet, or the reading fails: the viewport keeps what it shows.
NoFrame ==
  /\ FallBack
  /\ \/ eng.cpu = Blank /\ UNCHANGED fails
     \/ ~CachedFrame /\ fails < MaxFails /\ fails' = fails + 1
  /\ UNCHANGED <<cache, rd, screen>>

Update ==
  \/ ShowMovie \/ ShowLive \/ KeepWaiting \/ QueueCopy \/ CopyAtOnce \/ CopyRefused
  \/ HoldLast \/ ShowCached \/ ReadBack \/ NoFrame

Next ==
  \/ EngineDraws \/ EngineRedraws \/ EngineSkips
  \/ SetRenderBackend \/ MovieChanges \/ ReleaseFrameTexture
  \/ Draw \/ NoDraw \/ EncodeCopy \/ Update

Spec == Init /\ [][Next]_vars

\* The shell's loop goes on, frames are drawn and the engine draws again and
\* again; the render thread runs what is queued.
Fairness ==
  /\ WF_vars(Update) /\ WF_vars(EncodeCopy) /\ WF_vars(Draw \/ NoDraw)
  /\ SF_vars(Draw) /\ SF_vars(EngineRedraws) /\ WF_vars(EngineSkips)

-----------------------------------------------------------------------------
(* Properties. *)

\* The slot the viewport shows is never the one a copy is written into: the
\* ring alternates, also across failed copies, rebuilt rings and resets.
ShownSlotStable ==
  (ring.hasPend /\ screen.kind = "ring") => screen.slot # ring.pend

\* Consecutive frames drawn from the ring never go back to an older picture:
\* a slot is promoted only when its copy is known to have been encoded.
RingForward == RingPicture # Blank => RingPicture >= drawn

\* Once the player has read that the engine reset its presentation history, no
\* slot of the ring shows a picture of the deleted scene.
NoGhost ==
  screen.kind = "ring" => ring.pic[screen.slot] \in {Blank} \cup scene..MaxPicture

\* What the viewport shows of the ring can be shown.
RingSafe == ShownSlotStable /\ RingForward /\ NoGhost

\* The cached CPU texture is given back for a serial only if it holds the CPU
\* frame of that serial, whatever was presented in between.
CacheCurrent ==
  (CachedFrame /\ eng.cpu # Blank) => cache.pic = eng.cpu

\* A GPU picture that stays is drawn from the ring sooner or later: waiting for
\* a drawn frame, a failed copy or a promoted slot never leave it behind.
LastPictureShown ==
  \A p \in 1..MaxPicture :
    (eng.gpu = p) ~>
      \/ eng.gpu # p \/ movie \/ ~NativeFrame
      \/ screen.kind # "ring" \/ ring.pic[screen.slot] = p

=============================================================================
