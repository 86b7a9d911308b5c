---------------------------- MODULE LegacyFrames ----------------------------
(***************************************************************************)
(* How the KiriKiri backend publishes the picture a tick has composed      *)
(* (bridge/krkr2_runtime/src/krkr2_legacy_engine_api.cpp: the end of       *)
(* engine_tick, engine_get_frame_desc, engine_read_frame_rgba, the render  *)
(* targets), as functions of engine_handle_s::frame and of the host window *)
(* layer, which is outside src/ and known by what this file asks it.  A    *)
(* target is the surface the engine draws to: the pbuffer, an IOSurface or *)
(* a native window.                                                        *)
(*                                                                         *)
(* A picture is the serial the host window layer gives it, counted from    *)
(* one.  Fallback stands for pixels that are none of its pictures: zeros,  *)
(* or what glReadPixels finds.                                             *)
(***************************************************************************)
EXTENDS Naturals

CONSTANT MaxSerial  \* bound: pictures composed, and frames published

ASSUME LegacyFramesAssumption == MaxSerial \in Nat

NoPicture == 0
Fallback == MaxSerial + 1
Pictures == 1..MaxSerial

NoFrame == [serial |-> 0, ready |-> FALSE, sized |-> FALSE, pic |-> NoPicture,
            rendered |-> FALSE]

\* HostWindowLayer: pictures composed, the latest CPU one, the latest GPU one
\* unless the presented frame has none.
NoHost == [composed |-> 0, cpu |-> NoPicture, gpu |-> NoPicture]

\* One step of the script world may compose a picture: for the target that is
\* attached, else on the GPU if the renderer asks for it, for the CPU, or both.
Compositions(host, target, onGpu) ==
  LET n == host.composed + 1 IN
  {host} \cup
  IF n > MaxSerial THEN {}
  ELSE IF target # "pbuffer" THEN {[host EXCEPT !.composed = n]}
  ELSE {[composed |-> n, cpu |-> n, gpu |-> NoPicture]} \cup
       IF onGpu THEN {[composed |-> n, cpu |-> host.cpu, gpu |-> n],
                      [composed |-> n, cpu |-> n, gpu |-> n]}
       ELSE {}

----------------------------------------------------------------------------
(* Publication, at the end of a tick. *)

CanCopyHostFrame(host) == host.cpu # NoPicture

CopyHostFrame(frame, host) ==
  [frame EXCEPT !.serial = host.cpu, !.pic = host.cpu, !.ready = TRUE, !.sized = TRUE]

CanCaptureGpuFrame(host, onGpu) == onGpu /\ host.gpu # NoPicture

CaptureGpuFrame_Mutant(frame, host) ==
  [frame EXCEPT !.serial = host.gpu, !.ready = TRUE, !.sized = TRUE]

\* The pixels of an earlier picture are given up with its serial.
CaptureGpuFrame(frame, host) ==
  [frame EXCEPT !.serial = host.gpu, !.pic = NoPicture, !.ready = TRUE, !.sized = TRUE]

\* rendered tells whether the serial has moved.
Marked(new, old) == [new EXCEPT !.rendered = new.serial # old.serial]

Counted(frame) ==
  [frame EXCEPT !.serial = @ + 1, !.ready = TRUE, !.rendered = TRUE]

\* GetFrameReadbackLayoutLocked: the pixels of the whole render target.
LaidOut(frame) == [frame EXCEPT !.pic = Fallback, !.sized = TRUE]

\* ReadCurrentFrameRgba, when it succeeds, or the frame of zeros that is published
\* in its place while there has been none.
ReadCurrentFrameRgba(frame) ==
  IF frame.serial < MaxSerial THEN {Counted(LaidOut(frame))} ELSE {}

\* The legacy readback, for want of a picture of the host window layer: when it
\* fails after a first frame, nothing is published over what it overwrote.
ReadBack(frame) ==
  ReadCurrentFrameRgba(frame) \cup
  IF frame.ready THEN {[frame EXCEPT !.pic = Fallback, !.rendered = FALSE]} ELSE {}

Publish(frame, host, target, onGpu) ==
  IF target = "window"
  THEN {Marked([frame EXCEPT !.serial = host.composed, !.ready = host.composed # 0],
               frame)}
  ELSE IF target = "iosurface" THEN {Counted(frame)}
  ELSE IF CanCaptureGpuFrame(host, onGpu) THEN {Marked(CaptureGpuFrame(frame, host), frame)}
  ELSE IF CanCopyHostFrame(host) THEN {Marked(CopyHostFrame(frame, host), frame)}
  ELSE ReadBack(frame)

\* The picture the published frame shows, if it is one.
Published(frame, host, target, onGpu) ==
  IF target # "pbuffer" THEN host.composed
  ELSE IF CanCaptureGpuFrame(host, onGpu) THEN host.gpu
  ELSE IF frame.pic \in Pictures THEN frame.pic
  ELSE NoPicture

----------------------------------------------------------------------------
(* The calls of the host. *)

\* engine_set_surface_size, and a handle whose game has just been opened.
Resized(frame) == [frame EXCEPT !.pic = NoPicture, !.ready = FALSE, !.sized = FALSE]

\* engine_get_frame_desc.
Described(frame, host) ==
  IF ~frame.ready /\ CanCopyHostFrame(host) THEN CopyHostFrame(frame, host) ELSE frame

\* engine_read_frame_rgba: a frame without a size is one of zeros; one without
\* pixels is the latest CPU picture, or zeros when there is none.
WithSize(frame) ==
  IF frame.ready /\ frame.sized THEN frame
  ELSE [LaidOut(frame) EXCEPT !.ready = TRUE]

WithPixels(frame, host) ==
  IF frame.pic # NoPicture THEN frame
  ELSE IF CanCopyHostFrame(host) THEN CopyHostFrame(frame, host)
  ELSE [frame EXCEPT !.pic = Fallback]

Read(frame, host) == WithPixels(WithSize(Described(frame, host)), host)

\* engine_get_frame_rendered_flag.
Polled(frame) == [frame EXCEPT !.rendered = FALSE]
=============================================================================
