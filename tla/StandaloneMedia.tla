-------------------------- MODULE StandaloneMedia --------------------------
(***************************************************************************)
(* A media handle of the engine API: StandaloneMediaPlayer and             *)
(* engine_media_* (bridge/krkr2_runtime/src/krkr2_legacy_engine_api.cpp),  *)
(* and the texture AetherRuntimePlayer makes of its pictures               *)
(* (media_update_texture), as functions of their state.  The decoder       *)
(* behind it (KRMovie) is outside src/: it has pictures due, ends, breaks. *)
(*                                                                         *)
(* A picture is a number, counted over all the files decoded.  Positions,  *)
(* rates, volumes and subtitles are left out.                              *)
(***************************************************************************)
EXTENDS Naturals

NoPicture == 0

\* speed is GetSpeed; due the picture that is decoded and whose time has come;
\* rgba latest_rgba_; broken whether engine_media_get_state fails.
Closed == [open |-> FALSE, speed |-> 0, ended |-> FALSE, broken |-> FALSE,
           due |-> NoPicture, rgba |-> NoPicture, serial |-> 0]

Opened == [Closed EXCEPT !.open = TRUE]

\* Play also forgets an end.
Play(m) == [m EXCEPT !.speed = 1, !.ended = FALSE]
Pause(m) == [m EXCEPT !.speed = 0]

\* The decoder: a picture that comes due supersedes one that nobody took.
Decoding(m) == m.open /\ m.speed = 1 /\ ~m.ended /\ ~m.broken
Decoded(m, picture) == [m EXCEPT !.due = picture]
\* A seek drops what is decoded; an end is forgotten only by Play.
Seek(m) == [m EXCEPT !.due = NoPicture]
Ended(m) == [m EXCEPT !.ended = TRUE]
Broken(m) == [m EXCEPT !.broken = TRUE]

\* UpdateFrame, with every engine_media_get_state.
UpdateFrame(m) ==
  IF m.broken \/ m.due = NoPicture THEN m
  ELSE [m EXCEPT !.rgba = m.due, !.due = NoPicture, !.serial = @ + 1]

Status(m) ==
  IF ~m.open \/ m.broken THEN "idle"
  ELSE IF m.ended THEN "ended"
  ELSE IF m.speed = 0 THEN "paused"
  ELSE "playing"

\* engine_media_read_frame_rgba has no picture until one was taken.
Readable(m) == m.rgba # NoPicture

\* AetherRuntimePlayer::media_get_state, of a handle that may fail to tell.
PolledSerial(m) == IF m.broken THEN 0 ELSE m.serial
FrameReady(m) == ~m.broken /\ Readable(m)

----------------------------------------------------------------------------
(* media_texture_ and media_frame_serial_. *)

NoTexture == [picture |-> NoPicture, serial |-> 0]

\* media_update_texture makes the texture anew when the serial is another.
UpdateTexture(texture, m) ==
  IF ~Readable(m) \/ (texture.picture # NoPicture /\ texture.serial = m.serial)
  THEN texture
  ELSE [picture |-> m.rgba, serial |-> m.serial]
=============================================================================
