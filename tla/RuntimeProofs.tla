---------------------------- MODULE RuntimeProofs ----------------------------
(***************************************************************************)
(* Theorems about the two runtimes with threads of their own: about        *)
(* SiglusRuntime, for every set of sizes and any number of frames and      *)
(* openings, and about OnsRuntime, for a queue of any length, any inputs   *)
(* and any number of Runtimes one after the other.                         *)
(***************************************************************************)
EXTENDS SiglusRuntime, OnsRuntime, SequenceTheorems, WellFoundedInduction, TLAPS

-----------------------------------------------------------------------------
(* SiglusRuntime: the inductive invariant. *)

\* The pixels read back are those of the latest frame; the targets hold frames of the
\* game opened last; and of a frame that counts as delivered the host has the pixels, or
\* those of a frame of the same game.
DeliveredSeen ==
  /\ frame.first <= frame.serial /\ frame.delivered <= frame.serial
  /\ frame.rgba \in {0, frame.serial}
  /\ ring.shown = 0 \/ (frame.first < ring.shown /\ ring.shown <= frame.serial)
  /\ ring.last = 0 \/ (frame.first < ring.last /\ ring.last <= frame.serial)
  /\ (frame.serial > frame.first /\ frame.delivered = frame.serial)
       => IF frame.shared THEN seen > frame.first ELSE seen = frame.serial

IInv == TypeOK /\ PumpOnDevice /\ NativeScreen /\ OwnCursor /\ DeliveredSeen

\* The invariant says at least what the property of the host says.
LEMMA InStep == IInv => HostInStep
<1> SUFFICES ASSUME IInv PROVE HostInStep
  OBVIOUS
<1>1. TypeOK /\ DeliveredSeen /\ NativeScreen /\ OwnCursor
  BY DEF IInv
<1>2. NoFrameLost
  BY <1>1 DEF NoFrameLost, Drawn, DeliveredSeen, RenderedFlag
<1>3. OwnFrame
  BY <1>1 DEF OwnFrame, Drawn, Readable, Pixels, DeliveredSeen, TypeOK, Frames, Rings
<1> QED
  BY <1>1, <1>2, <1>3 DEF HostInStep

\* Before the first Runtime the invariant holds.
LEMMA Initial == SiglusInit => IInv
<1> USE SiglusRuntimeAssumption
<1> SUFFICES ASSUME SiglusInit PROVE IInv
  OBVIOUS
<1>1. TypeOK
  BY DEF SiglusInit, TypeOK, ScreenSizes, Runtimes, Frames, Rings, Geometries, Calls, Outputs,
         NoRuntime, NoFrame, NoRing, NoGeometry, NoCall
<1> QED
  BY <1>1 DEF SiglusInit, IInv, PumpOnDevice, NativeScreen, OwnCursor, DeliveredSeen,
              NoRuntime, NoFrame, NoRing, NoCall

-----------------------------------------------------------------------------
(* The output and its pump. *)

\* What the sound output and its pump do preserves the invariant.
LEMMA OutputStep ==
  ASSUME IInv, Join \/ StartOutput \/ PumpStarts \/ PumpRound
  PROVE  IInv'
<1> USE SiglusRuntimeAssumption
<1>1. UNCHANGED <<rt, drawing, host, seen, opens>>
  BY DEF Join, StartOutput, PumpStarts, PumpRound
<1>2. NativeScreen' /\ OwnCursor' /\ DeliveredSeen'
  BY <1>1 DEF IInv, NativeScreen, OwnCursor, DeliveredSeen, host, drawing
<1>3. TypeOK /\ PumpOnDevice
  BY DEF IInv
<1>4. CASE Join
  <2>1. call' \in Calls /\ out' \in Outputs
    BY <1>3, <1>4 DEF Join, AfterStop, TypeOK, Calls, Outputs
  <2>3. TypeOK'
    BY <1>1, <1>3, <1>4, <2>1 DEF Join, TypeOK, host, drawing
  <2>2. PumpOnDevice'
    BY <1>3, <1>4 DEF Join, Joined, PumpOnDevice
  <2> QED
    BY <1>2, <2>2, <2>3 DEF IInv
<1>5. CASE StartOutput
  <2>1. call' \in Calls /\ call'.at = "return"
    BY <1>3, <1>5 DEF StartOutput, TypeOK, Calls
  <2>2. \/ out' = [device |-> TRUE, stop |-> FALSE, paused |-> FALSE] /\ pump' = "starting"
        \/ out' = out /\ pump' = pump
    BY <1>5 DEF StartOutput
  <2>3. out' \in Outputs
    <3>1. [device |-> TRUE, stop |-> FALSE, paused |-> FALSE] \in Outputs
      BY DEF Outputs
    <3> QED
      BY <1>3, <2>2, <3>1 DEF TypeOK
  <2>4. TypeOK'
    BY <1>1, <1>3, <1>5, <2>1, <2>2, <2>3 DEF StartOutput, TypeOK, host, drawing
  <2>5. PumpOnDevice'
    BY <1>3, <2>1, <2>2 DEF PumpOnDevice
  <2> QED
    BY <1>2, <2>4, <2>5 DEF IInv
<1>6. CASE PumpStarts
  <2>1. TypeOK'
    BY <1>1, <1>3, <1>6 DEF PumpStarts, TypeOK, host, drawing
  <2>2. PumpOnDevice'
    BY <1>3, <1>6 DEF PumpStarts, PumpOnDevice
  <2> QED
    BY <1>2, <2>1, <2>2 DEF IInv
<1>7. CASE PumpRound
  <2>1. TypeOK'
    <3>1. pump' \in {"none", "starting", "running", "ended"}
      BY <1>3, <1>7 DEF PumpRound, TypeOK
    <3>2. sound' \in BOOLEAN
      BY <1>3, <1>7, Zenon DEF PumpRound, TypeOK, Plays
    <3> QED
      BY <1>1, <1>3, <1>7, <3>1, <3>2 DEF PumpRound, TypeOK, host, drawing
  <2>2. PumpOnDevice'
    BY <1>3, <1>7 DEF PumpRound, PumpOnDevice
  <2> QED
    BY <1>2, <2>1, <2>2 DEF IInv
<1> QED
  BY <1>4, <1>5, <1>6, <1>7

-----------------------------------------------------------------------------
(* The calls of the provider. *)

\* Stopping the output keeps the device until the pump is joined.
LEMMA Stopping ==
  ASSUME TypeOK, PumpOnDevice, NEW op \in {"open", "exit", "destroy"},
         StopLocked(op, "return"), pump' = pump
  PROVE  out' \in Outputs /\ call' \in Calls /\ PumpOnDevice'
<1>1. CASE out.device
  <2>1. out' = [out EXCEPT !.stop = TRUE] /\ call' = [op |-> op, at |-> "join"]
    BY <1>1 DEF StopLocked
  <2>2. out' \in Outputs /\ out'.device = out.device
    BY <2>1 DEF TypeOK, Outputs
  <2>3. call' \in Calls /\ call'.at = "join"
    BY <2>1 DEF Calls
  <2> QED
    BY <2>2, <2>3 DEF PumpOnDevice
<1>2. CASE ~out.device
  <2>1. out' = out /\ call' = [op |-> op, at |-> "return"]
    BY <1>2 DEF StopLocked
  <2>2. call' \in Calls /\ call'.at = "return"
    BY <2>1 DEF Calls
  <2> QED
    BY <2>1, <2>2 DEF PumpOnDevice, TypeOK
<1> QED
  BY <1>1, <1>2

\* Openings, their failures, ends and destroys preserve the invariant.
LEMMA LifeStep ==
  ASSUME IInv, Create \/ Destroy \/ OpenGame \/ OpenFails \/ Return
  PROVE  IInv'
<1> USE SiglusRuntimeAssumption
<1>1. TypeOK /\ PumpOnDevice /\ NativeScreen /\ OwnCursor /\ DeliveredSeen
  BY DEF IInv
<1>2. CASE Create
  <2>1. TypeOK'
    BY <1>1, <1>2 DEF Create, TypeOK, audio, NoRuntime, NoFrame, NoRing, NoGeometry, ScreenSizes,
                      Runtimes, Frames, Rings, Geometries
  <2> QED
    BY <1>1, <1>2, <2>1
    DEF Create, IInv, PumpOnDevice, NativeScreen, OwnCursor, DeliveredSeen, audio,
        NoRuntime, NoFrame, NoRing
<1>3. CASE Destroy
  <2>1. UNCHANGED <<rt, drawing, host, seen, opens, pump, sound>> /\ StopLocked("destroy", "return")
    BY <1>3 DEF Destroy
  <2>2. PumpOnDevice'
    BY <1>1, <2>1, Stopping
  <2>3. TypeOK'
    BY <1>1, <2>1, Stopping DEF TypeOK, host, drawing
  <2> QED
    BY <1>1, <2>1, <2>2, <2>3 DEF IInv, NativeScreen, OwnCursor, DeliveredSeen, host, drawing
<1>4. CASE OpenGame
  <2>1. /\ rt' = [rt EXCEPT !.opened = TRUE, !.paused = FALSE, !.terminated = FALSE]
        /\ frame' = [frame EXCEPT !.shared = FALSE, !.first = frame.serial] /\ ring' = NoRing
        /\ opens' = opens + 1 /\ cursor' = Unknown
        /\ UNCHANGED <<seen, pump, sound>> /\ Sized
    BY <1>4 DEF OpenGame
  <2>2. PICK native \in {Game, Unknown} :
          geom' = [geom EXCEPT !.native = native,
                               !.screen = IF native = Unknown THEN geom.pending ELSE native]
    BY <2>1 DEF Sized
  <2>3. NativeScreen'
    BY <1>1, <2>2 DEF NativeScreen, TypeOK, Geometries
  <2>4. OwnCursor' /\ DeliveredSeen'
    <3>1. /\ frame'.first = frame.serial /\ frame'.serial = frame.serial
          /\ frame'.rgba = frame.rgba /\ frame'.delivered = frame.delivered
          /\ ring'.last = 0 /\ ring'.shown = 0
      BY <1>1, <2>1 DEF TypeOK, Frames, NoRing
    <3>2. frame.serial \in Nat
      BY <1>1 DEF TypeOK, Frames
    <3> QED
      BY <1>1, <2>1, <3>1, <3>2 DEF OwnCursor, DeliveredSeen
  <2>5. IF out.device THEN /\ out' = [out EXCEPT !.stop = TRUE, !.paused = FALSE]
                           /\ call' = [op |-> "open", at |-> "join"]
        ELSE /\ out' = [out EXCEPT !.paused = FALSE]
             /\ call' = [op |-> "open", at |-> "start"]
    BY <1>4 DEF OpenGame
  <2>6. out' \in Outputs /\ call' \in Calls /\ PumpOnDevice'
    <3>1. CASE out.device
      <4>1. out' \in Outputs /\ out'.device = out.device
        BY <1>1, <2>5, <3>1 DEF TypeOK, Outputs
      <4>2. call' \in Calls /\ call'.at = "join"
        BY <2>5, <3>1 DEF Calls
      <4> QED
        BY <1>1, <2>1, <4>1, <4>2 DEF PumpOnDevice
    <3>2. CASE ~out.device
      <4>1. out' \in Outputs /\ out'.device = out.device
        BY <1>1, <2>5, <3>2 DEF TypeOK, Outputs
      <4>2. call' \in Calls
        BY <2>5, <3>2 DEF Calls
      <4> QED
        BY <1>1, <2>1, <3>2, <4>1, <4>2 DEF PumpOnDevice, TypeOK
    <3> QED
      BY <3>1, <3>2
  <2>7. TypeOK'
    <3>1. geom' \in Geometries
      <4>1. geom.pending \in ScreenSizes /\ native \in ScreenSizes
        BY <1>1 DEF TypeOK, Geometries, ScreenSizes
      <4>2. geom' = [pending |-> geom.pending, native |-> native,
                     screen |-> IF native = Unknown THEN geom.pending ELSE native]
        BY <1>1, <2>2 DEF TypeOK, Geometries
      <4> QED
        BY <4>1, <4>2 DEF Geometries
    <3>2. rt' \in Runtimes /\ frame' \in Frames /\ ring' \in Rings
      BY <1>1, <2>1 DEF TypeOK, Runtimes, Frames, Rings, NoRing
    <3> QED
      BY <1>1, <2>1, <2>6, <3>1, <3>2 DEF TypeOK
  <2> QED
    BY <2>3, <2>4, <2>6, <2>7 DEF IInv
<1>5. CASE OpenFails
  <2>1. /\ rt' = [rt EXCEPT !.opened = FALSE] /\ opens' = opens + 1
        /\ geom' = [geom EXCEPT !.native = Unknown, !.screen = Unknown]
        /\ ring' = NoRing /\ UNCHANGED <<frame, cursor, seen, call, audio>>
    BY <1>5 DEF OpenFails
  <2>2. rt' \in Runtimes /\ ~rt'.opened
    BY <1>1, <2>1 DEF TypeOK, Runtimes
  <2>3. geom' \in Geometries
    <3>1. geom' = [pending |-> geom.pending, native |-> Unknown, screen |-> Unknown]
      BY <1>1, <2>1 DEF TypeOK, Geometries
    <3> QED
      BY <1>1, <3>1 DEF TypeOK, Geometries, ScreenSizes
  <2>4. TypeOK'
    BY <1>1, <2>1, <2>2, <2>3 DEF TypeOK, Rings, NoRing, audio
  <2>5. DeliveredSeen'
    BY <1>1, <2>1 DEF DeliveredSeen, NoRing
  <2> QED
    BY <1>1, <2>1, <2>2, <2>4, <2>5
    DEF IInv, PumpOnDevice, NativeScreen, OwnCursor, audio
<1>6. CASE Return
  <2>1. /\ call' = NoCall /\ (rt' = rt \/ rt' = NoRuntime)
        /\ UNCHANGED <<drawing, host, seen, opens, audio>>
    BY <1>6 DEF Return
  <2>2. TypeOK'
    <3>1. NoCall \in Calls /\ NoRuntime \in Runtimes
      BY DEF NoCall, NoRuntime, Calls, Runtimes
    <3> QED
      BY <1>1, <2>1, <3>1 DEF TypeOK, host, drawing, audio
  <2> QED
    BY <1>1, <2>1, <2>2
    DEF IInv, PumpOnDevice, NativeScreen, OwnCursor, DeliveredSeen, host, drawing, audio,
        NoCall, NoRuntime
<1> QED
  BY <1>2, <1>3, <1>4, <1>5, <1>6

\* What the host asks of a running game preserves the invariant.
LEMMA GameStep ==
  ASSUME IInv,
         \/ SetSurfaceSize \/ SetImeCursor \/ TickDraws \/ TickExits
         \/ PauseGame \/ ResumeGame \/ ReadFrame \/ GetTexture
  PROVE  IInv'
<1> USE SiglusRuntimeAssumption
<1>1. TypeOK /\ PumpOnDevice /\ NativeScreen /\ OwnCursor /\ DeliveredSeen
  BY DEF IInv
<1>2. CASE SetSurfaceSize
  <2>1. UNCHANGED <<rt, drawing, cursor, seen, opens, call, audio>>
    BY <1>2 DEF SetSurfaceSize
  <2>2. PICK shell \in Shells, ok \in BOOLEAN :
          geom' = [geom EXCEPT !.pending = shell,
                               !.screen = IF rt.opened /\ ok THEN RenderSize(shell) ELSE @]
    BY <1>2 DEF SetSurfaceSize
  <2>3. geom' \in Geometries
    <3>1. shell \in ScreenSizes /\ RenderSize(shell) \in ScreenSizes
      BY <1>1 DEF TypeOK, Geometries, ScreenSizes, RenderSize
    <3> QED
      BY <1>1, <2>2, <3>1 DEF TypeOK, Geometries
  <2>4. NativeScreen'
    BY <1>1, <2>1, <2>2 DEF NativeScreen, TypeOK, Geometries, RenderSize
  <2>5. TypeOK'
    BY <1>1, <2>1, <2>3 DEF TypeOK, drawing, audio
  <2> QED
    BY <1>1, <2>1, <2>4, <2>5
    DEF IInv, PumpOnDevice, OwnCursor, DeliveredSeen, drawing, audio
<1>3. CASE SetImeCursor
  <2>1. cursor' = opens /\ UNCHANGED <<rt, drawing, geom, seen, opens, call, audio>>
    BY <1>3 DEF SetImeCursor
  <2>2. TypeOK'
    BY <1>1, <2>1 DEF TypeOK, drawing, audio
  <2> QED
    BY <1>1, <2>1, <2>2
    DEF IInv, PumpOnDevice, NativeScreen, OwnCursor, DeliveredSeen, drawing, audio
<1>4. CASE TickDraws
  <2>1. UNCHANGED <<rt, host, seen, opens, call, audio>>
    BY <1>4 DEF TickDraws
  <2> DEFINE n == frame.serial + 1
  <2>2. PICK r \in {ring, NoRing} :
          \/ /\ ring' \in {e \in Exposed(r, n) : e.shown # 0}
             /\ frame' = [frame EXCEPT !.serial = n, !.shared = TRUE, !.rgba = 0]
          \/ /\ ring' \in {r, [r EXCEPT !.last = n]}
             /\ \E rgba \in {0, n} :
                  frame' = [frame EXCEPT !.serial = n, !.shared = FALSE, !.rgba = rgba]
    BY <1>4 DEF TickDraws
  <2>3. /\ frame.serial \in Nat /\ frame.first \in Nat /\ n \in Nat
        /\ frame \in Frames /\ r \in Rings
    BY <1>1 DEF TypeOK, Frames, Rings, NoRing
  <2>4. /\ frame' \in Frames /\ frame'.serial = n /\ frame'.rgba \in {0, n}
        /\ frame'.delivered = frame.delivered /\ frame'.first = frame.first
    <3>1. ASSUME NEW shared \in BOOLEAN, NEW rgba \in {0, n},
                 frame' = [frame EXCEPT !.serial = n, !.shared = shared, !.rgba = rgba]
          PROVE  /\ frame' \in Frames /\ frame'.serial = n /\ frame'.rgba \in {0, n}
                 /\ frame'.delivered = frame.delivered /\ frame'.first = frame.first
      <4>1. /\ frame \in [serial : Nat, delivered : Nat, rgba : Nat,
                            shared : BOOLEAN, first : Nat]
            /\ n \in Nat /\ rgba \in Nat
        BY <2>3, <3>1 DEF Frames
      <4>2. frame' = [serial |-> n, delivered |-> frame.delivered, rgba |-> rgba,
                      shared |-> shared, first |-> frame.first]
        BY <3>1, <4>1
      <4> HIDE DEF n
      <4> QED
        BY <4>1, <4>2 DEF Frames
    <3> QED
      BY <2>2, <3>1
  <2>5. /\ ring' \in Rings /\ ring'.last \in {0, n, r.last}
        /\ ring'.shown \in {n, r.last, r.shown}
    <3>1. ring' \in Exposed(r, n) \cup {r, [r EXCEPT !.last = n]}
      BY <2>2
    <3> QED
      BY <2>3, <3>1 DEF Exposed, Rings
  <2>6. DeliveredSeen'
    <3>1. /\ r.last = 0 \/ (frame.first < r.last /\ r.last <= frame.serial)
          /\ r.shown = 0 \/ (frame.first < r.shown /\ r.shown <= frame.serial)
      BY <1>1 DEF DeliveredSeen, NoRing
    <3>2. /\ frame.first <= frame.serial /\ frame.delivered <= frame.serial
          /\ frame.delivered \in Nat /\ r.last \in Nat /\ r.shown \in Nat
      BY <1>1, <2>3 DEF DeliveredSeen, Frames, Rings
    <3> QED
      BY <2>3, <2>4, <2>5, <3>1, <3>2 DEF DeliveredSeen
  <2>7. TypeOK'
    BY <1>1, <2>1, <2>4, <2>5 DEF TypeOK, host, audio
  <2> QED
    BY <1>1, <2>1, <2>6, <2>7
    DEF IInv, PumpOnDevice, NativeScreen, OwnCursor, host, audio
<1>5. CASE TickExits
  <2>1. /\ rt' = [rt EXCEPT !.terminated = TRUE] /\ StopLocked("exit", "return")
        /\ UNCHANGED <<drawing, host, seen, opens, pump, sound>>
    BY <1>5 DEF TickExits
  <2>2. PumpOnDevice'
    BY <1>1, <2>1, Stopping
  <2>3. rt' \in Runtimes /\ rt'.opened = rt.opened
    BY <1>1, <2>1 DEF TypeOK, Runtimes
  <2>4. TypeOK'
    BY <1>1, <2>1, <2>3, Stopping DEF TypeOK, host, drawing
  <2> QED
    BY <1>1, <2>1, <2>2, <2>3, <2>4
    DEF IInv, NativeScreen, OwnCursor, DeliveredSeen, host, drawing
<1>6. CASE PauseGame \/ ResumeGame
  <2>1. PICK p \in BOOLEAN : rt' = [rt EXCEPT !.paused = p] /\ PausedBy(p)
    BY <1>6 DEF PauseGame, ResumeGame
  <2>2. UNCHANGED <<drawing, host, seen, opens, call, pump, sound>>
    BY <1>6 DEF PauseGame, ResumeGame
  <2>3. rt' \in Runtimes /\ rt'.opened = rt.opened
    BY <1>1, <2>1 DEF TypeOK, Runtimes
  <2>4. out' \in Outputs /\ out'.device = out.device
    BY <1>1, <2>1 DEF TypeOK, Outputs, PausedBy
  <2>5. TypeOK'
    BY <1>1, <2>2, <2>3, <2>4 DEF TypeOK, host, drawing
  <2> QED
    BY <1>1, <2>2, <2>3, <2>4, <2>5
    DEF IInv, PumpOnDevice, NativeScreen, OwnCursor, DeliveredSeen, host, drawing
<1>7. CASE ReadFrame
  <2>1. UNCHANGED <<rt, ring, host, opens, call, audio>>
    BY <1>7 DEF ReadFrame
  <2>2. PICK ok \in BOOLEAN :
          /\ ok => Pixels # 0
          /\ Delivered(ok)
          /\ seen' = IF ok THEN Pixels ELSE seen
    BY <1>7 DEF ReadFrame
  <2>3. frame \in Frames /\ frame.serial \in Nat /\ frame.first \in Nat /\ Pixels \in Nat
    BY <1>1 DEF TypeOK, Frames, Pixels
  <2>4. frame' \in Frames /\ seen' \in Nat
    BY <1>1, <2>2, <2>3 DEF TypeOK, Frames, Delivered
  <2>5. DeliveredSeen'
    <3>1. CASE ok
      <4>1. frame' = [frame EXCEPT !.delivered = frame.serial] /\ seen' = Pixels /\ Pixels # 0
        BY <2>2, <3>1 DEF Delivered
      <4>2. Pixels = frame.serial
        BY <1>1, <4>1 DEF Pixels, DeliveredSeen
      <4> QED
        BY <1>1, <2>1, <2>3, <4>1, <4>2 DEF DeliveredSeen, Frames
    <3>2. CASE ~ok
      BY <1>1, <2>1, <2>2, <3>2 DEF Delivered, DeliveredSeen
    <3> QED
      BY <3>1, <3>2
  <2>6. TypeOK'
    BY <1>1, <2>1, <2>4 DEF TypeOK, host, audio
  <2> QED
    BY <1>1, <2>1, <2>5, <2>6 DEF IInv, PumpOnDevice, NativeScreen, OwnCursor, host, audio
<1>8. CASE GetTexture
  <2>1. /\ ring.shown # 0 /\ frame.shared
        /\ frame' = [frame EXCEPT !.delivered = frame.serial] /\ seen' = ring.shown
        /\ UNCHANGED <<rt, ring, host, opens, call, audio>>
    BY <1>8 DEF GetTexture, Delivered
  <2>2. frame \in Frames /\ frame.serial \in Nat /\ ring.shown \in Nat
    BY <1>1 DEF TypeOK, Frames, Rings
  <2>3. DeliveredSeen'
    BY <1>1, <2>1, <2>2 DEF DeliveredSeen, Frames
  <2>4. TypeOK'
    BY <1>1, <2>1, <2>2 DEF TypeOK, Frames, host, audio
  <2> QED
    BY <1>1, <2>1, <2>3, <2>4 DEF IInv, PumpOnDevice, NativeScreen, OwnCursor, host, audio
<1> QED
  BY <1>2, <1>3, <1>4, <1>5, <1>6, <1>7, <1>8

\* Every step preserves the invariant.
LEMMA Step == IInv /\ [SiglusNext]_siglusVars => IInv'
<1> SUFFICES ASSUME IInv, [SiglusNext]_siglusVars PROVE IInv'
  OBVIOUS
<1>1. CASE UNCHANGED siglusVars
  BY <1>1 DEF IInv, TypeOK, PumpOnDevice, NativeScreen, OwnCursor, DeliveredSeen, siglusVars, host, drawing
<1> QED
  BY <1>1, OutputStep, LifeStep, GameStep DEF SiglusNext

-----------------------------------------------------------------------------
(* The theorems. *)

\* The invariant holds in every reachable state.
THEOREM Inductive == SiglusSpec => []IInv
  BY Initial, Step, PTL DEF SiglusSpec

\* Every reachable state of the runtime, its output and its pump is well typed.
THEOREM TypeCorrect == SiglusSpec => []TypeOK
<1>1. IInv => TypeOK
  BY DEF IInv
<1> QED
  BY <1>1, Inductive, PTL

\* The pump never works on a device that is closed, nor beside another pump.
THEOREM PumpStaysOnDevice == SiglusSpec => []PumpOnDevice
<1>1. IInv => PumpOnDevice
  BY DEF IInv
<1> QED
  BY <1>1, Inductive, PTL

\* No frame is lost, and the pictures from a game's first frame on, the screen size and
\* the text cursor are those of the game that runs, for every set of sizes and any
\* number of frames, openings and failures.
THEOREM StaysInStep == SiglusSpec => []HostInStep
  BY InStep, Inductive, PTL

-----------------------------------------------------------------------------
(* OnsRuntime: the queue of events. *)

\* A set of natural numbers that is not empty has a least element.
LEMMA LeastNumber ==
  ASSUME NEW T, T \subseteq Nat, T # {}
  PROVE  \E n \in T : \A m \in T : n <= m
<1> DEFINE R == OpToRel(<, Nat)
<1>1. IsWellFoundedOn(R, Nat)
  BY NatLessThanWellFounded
<1>2. \A x, y \in Nat : y < x => <<y, x>> \in R
  BY DEF OpToRel
<1> HIDE DEF R
<1>3. PICK x \in T : \A y \in T : ~ (<<y, x>> \in R)
  BY <1>1, WFMin
<1>4. \A y \in T : ~ (y < x)
  BY <1>2, <1>3
<1> QED
  BY <1>3, <1>4

\* What the queue may hold.
Events == Keys \cup Pointer \cup {Quit}

\* A set of positions has a first one.
LEMMA FirstPosition ==
  ASSUME NEW n \in Nat, NEW S \in SUBSET (1..n), S # {}
  PROVE  Min(S) \in S
<1>1. S \subseteq Nat
  OBVIOUS
<1>2. \E m \in S : \A i \in S : m <= i
  BY <1>1, LeastNumber
<1> QED
  BY <1>2 DEF Min

\* What is searched in the queue is found at one of its positions, or nowhere.
LEMMA FoundInQueue ==
  ASSUME NEW q \in Seq(Events)
  PROVE  /\ SelectInSeq(q, IsMove) \in 0..Len(q)
         /\ SelectInSeq(q, IsQuit) \in 0..Len(q)
         /\ SelectInSeq(q, IsRelease) \in 0..Len(q)
<1>1. ASSUME NEW I \in SUBSET (1..Len(q))
      PROVE  (IF I # {} THEN Min(I) ELSE 0) \in 0..Len(q)
  <2>1. CASE I = {}
    BY <2>1
  <2>2. CASE I # {}
    <3>1. Len(q) \in Nat
      OBVIOUS
    <3>2. Min(I) \in I
      BY <2>2, <3>1, FirstPosition
    <3>3. Min(I) \in 1..Len(q)
      BY <3>2
    <3>4. 1..Len(q) \subseteq 0..Len(q)
      BY <3>1
    <3> QED
      BY <2>2, <3>3, <3>4, Zenon
  <2> QED
    BY <2>1, <2>2
<1>2. {i \in 1..Len(q) : IsMove(q[i])} \in SUBSET (1..Len(q))
  OBVIOUS
<1>3. {i \in 1..Len(q) : IsQuit(q[i])} \in SUBSET (1..Len(q))
  OBVIOUS
<1>4. {i \in 1..Len(q) : IsRelease(q[i])} \in SUBSET (1..Len(q))
  OBVIOUS
<1>5. SelectInSeq(q, IsMove) \in 0..Len(q)
  BY <1>1, <1>2 DEF SelectInSeq
<1>6. SelectInSeq(q, IsQuit) \in 0..Len(q)
  BY <1>1, <1>3 DEF SelectInSeq
<1>7. SelectInSeq(q, IsRelease) \in 0..Len(q)
  BY <1>1, <1>4 DEF SelectInSeq
<1> QED
  BY <1>5, <1>6, <1>7

\* r is a queue that holds nothing that q does not hold.
NothingNew(q, r) ==
  /\ r \in Seq(Events)
  /\ Contains(r, Quit) => Contains(q, Quit)

\* Taking events away from a queue brings nothing new into it.
LEMMA Taken ==
  ASSUME NEW q \in Seq(Events)
  PROVE  /\ NothingNew(q, <<>>) /\ NothingNew(q, q)
         /\ q # <<>> => NothingNew(q, Tail(q))
         /\ \A i \in 1..Len(q) : NothingNew(q, RemoveAt(q, i))
         /\ \A i \in 1..(Len(q) + 1) : NothingNew(q, SubSeq(q, i, Len(q)))
<1>1. NothingNew(q, <<>>) /\ NothingNew(q, q)
  BY DEF NothingNew, Contains
<1>2. q # <<>> => NothingNew(q, Tail(q))
  BY DEF NothingNew, Contains
<1>3. \A i \in 1..(Len(q) + 1) : NothingNew(q, SubSeq(q, i, Len(q)))
  BY DEF NothingNew, Contains
<1>4. ASSUME NEW i \in 1..Len(q) PROVE NothingNew(q, RemoveAt(q, i))
  <2> DEFINE a == SubSeq(q, 1, i - 1)
             b == SubSeq(q, i + 1, Len(q))
  <2>1. a \in Seq(Events) /\ Len(a) = i - 1 /\ \A k \in 1..Len(a) : a[k] = q[k]
    OBVIOUS
  <2>2. b \in Seq(Events) /\ Len(b) = Len(q) - i /\ \A k \in 1..Len(b) : b[k] = q[i + k]
    OBVIOUS
  <2> HIDE DEF a, b
  <2>3. /\ a \o b \in Seq(Events) /\ Len(a \o b) = Len(a) + Len(b)
        /\ \A k \in 1..Len(a) + Len(b) :
              (a \o b)[k] = IF k <= Len(a) THEN a[k] ELSE b[k - Len(a)]
    BY <2>1, <2>2, ConcatProperties
  <2>4. ASSUME NEW k \in 1..Len(a \o b) PROVE \E m \in 1..Len(q) : (a \o b)[k] = q[m]
    <3>1. CASE k <= Len(a)
      <4>1. k \in 1..Len(q) /\ (a \o b)[k] = q[k]
        BY <2>1, <2>2, <2>3, <3>1
      <4> QED
        BY <4>1
    <3>2. CASE ~ (k <= Len(a))
      <4>1. k - Len(a) \in 1..Len(b)
        BY <2>1, <2>2, <2>3, <3>2
      <4>2. /\ i + (k - Len(a)) \in 1..Len(q)
            /\ (a \o b)[k] = q[i + (k - Len(a))]
        BY <2>1, <2>2, <2>3, <3>2, <4>1
      <4> QED
        BY <4>2
    <3> QED
      BY <3>1, <3>2
  <2>5. RemoveAt(q, i) = a \o b
    BY DEF RemoveAt, a, b
  <2> QED
    BY <2>3, <2>4, <2>5 DEF NothingNew, Contains
<1> QED
  BY <1>1, <1>2, <1>3, <1>4

\* An event that is pushed enters the queue, and nothing else does.
LEMMA Pushed ==
  ASSUME NEW q \in Seq(Events), NEW e \in Events, MaxHostEvents \in Nat \ {0}
  PROVE  /\ Push(q, e) \in Seq(Events)
         /\ e # Quit => NothingNew(q, Push(q, e))
<1> DEFINE r == IF Len(q) >= MaxHostEvents THEN Evict(q) ELSE q
<1>1. NothingNew(q, r)
  <2>1. CASE Len(q) >= MaxHostEvents
    <3> DEFINE i == SelectInSeq(q, IsMove)
    <3>1. i \in 0..Len(q) /\ Len(q) >= 1
      BY <2>1, FoundInQueue
    <3> HIDE DEF i
    <3>2. (IF i = 0 THEN 1 ELSE i) \in 1..Len(q)
      BY <3>1
    <3>3. Evict(q) = RemoveAt(q, IF i = 0 THEN 1 ELSE i)
      BY DEF Evict, i
    <3>4. NothingNew(q, Evict(q))
      BY <3>2, <3>3, Taken
    <3> QED
      BY <2>1, <3>4
  <2>2. CASE ~ (Len(q) >= MaxHostEvents)
    BY <2>2, Taken
  <2> QED
    BY <2>1, <2>2
<1> HIDE DEF r
<1>2. Append(r, e) \in Seq(Events)
  BY <1>1 DEF NothingNew
<1>3. e # Quit => NothingNew(q, Append(r, e))
  BY <1>1, <1>2 DEF NothingNew, Contains
<1>4. Push(q, e) \in {q, Append(r, e)}
  BY DEF Push, r
<1> QED
  BY <1>2, <1>3, <1>4, Taken

-----------------------------------------------------------------------------
(* OnsRuntime: the inductive invariant. *)

QueueTyped ==
  /\ queue \in Seq(Events)
  /\ hostCall \in {"event", "skip", "push"} => input \in Inputs

\* Without a Runtime nothing goes on: no call, no opening, no interpreter.
GoneIsQuiet ==
  ~ runtime => /\ hostCall = "idle" /\ worker # "opening" /\ script = "off"
               /\ media = "none" /\ queue = <<>>

\* Shutdown has asked the interpreter to stop, and closes only after it was joined.
StoppedFirst ==
  /\ hostCall \in {"stopping", "joining", "closing"} => stop /\ worker # "opening"
  /\ hostCall = "closing" => script = "off"

\* A QUIT meets no interpreter but the one that is being stopped.
QuitIsForTheStopped ==
  Contains(queue, Quit) /\ Joinable => stop

\* The surface is that of an interpreter that runs, and a frame of an earlier
\* Runtime is never that of one.
SurfaceOfTheGame ==
  /\ script \in {"off", "finished"} => ~ present
  /\ published = "stale" => script = "off"

OnsInv == /\ QueueTyped /\ GoneIsQuiet /\ StoppedFirst /\ QuitIsForTheStopped
          /\ SurfaceOfTheGame /\ EndIsReported

\* The invariant says at least what the property says.
LEMMA NothingIsLeft == OnsInv => NothingLeft
BY DEF OnsInv, GoneIsQuiet, QuitIsForTheStopped, SurfaceOfTheGame, NothingLeft,
       FrameServed, Constructed

\* Before the first Runtime the invariant holds.
LEMMA OnsInitial == OnsInit => OnsInv
<1> SUFFICES ASSUME OnsInit PROVE OnsInv
  OBVIOUS
<1>1. queue = <<>> /\ <<>> \in Seq(Events) /\ ~ Contains(<<>>, Quit)
  BY DEF OnsInit, Contains
<1> QED
  BY <1>1 DEF OnsInit, OnsInv, QueueTyped, GoneIsQuiet, StoppedFirst, QuitIsForTheStopped,
              SurfaceOfTheGame, EndIsReported

-----------------------------------------------------------------------------
(* OnsRuntime: the steps. *)

\* Creation, openings and shutdown.
LEMMA SessionStep ==
  ASSUME OnsInv,
         \/ Initialize \/ OpenRefused \/ OpenStarts \/ OpenReturns
         \/ WorkerReturns \/ ShutdownBegins \/ PushQuit \/ ShutdownJoined
         \/ ShutdownEnds
  PROVE  OnsInv'
<1> USE DEF OnsInv, QueueTyped, GoneIsQuiet, StoppedFirst, QuitIsForTheStopped,
            SurfaceOfTheGame, EndIsReported, Joinable,
            flags, movie, picture, ctrls
<1>1. <<>> \in Seq(Events) /\ ~ Contains(<<>>, Quit)
  BY DEF Contains
<1>2. CASE Initialize
  BY <1>1, <1>2 DEF Initialize
<1>3. CASE OpenRefused
  BY <1>3 DEF OpenRefused, MayOpen, SetError
<1>4. CASE OpenStarts
  BY <1>1, <1>4 DEF OpenStarts, MayOpen, OpenResetsFrame, Cleared
<1>5. CASE OpenReturns
  BY <1>5 DEF OpenReturns
<1>6. CASE WorkerReturns
  BY <1>6 DEF WorkerReturns
<1>7. CASE ShutdownBegins
  BY <1>7 DEF ShutdownBegins
<1>8. CASE PushQuit
  <2>1. Quit \in Events
    BY DEF Events
  <2>2. Push(queue, Quit) \in Seq(Events)
    BY <2>1, Pushed, InputAssumption, QueueAssumption
  <2> QED
    BY <1>8, <2>2 DEF PushQuit
<1>9. CASE ShutdownJoined
  BY <1>9 DEF ShutdownJoined
<1>10. CASE ShutdownEnds
  BY <1>1, <1>10 DEF ShutdownEnds, Cleared, CloseMedia
<1> QED
  BY <1>2, <1>3, <1>4, <1>5, <1>6, <1>7, <1>8, <1>9, <1>10

\* The other calls of the host.
LEMMA HostStep ==
  ASSUME OnsInv,
         \/ \E c \in {"tick", "pause", "resume", "frame"} : Enter(c)
         \/ \E e \in Inputs : SendInput(e)
         \/ Tick \/ Suspend("pause", "playing", "paused")
         \/ Suspend("resume", "paused", "playing")
         \/ RefreshFrame \/ Accept \/ AskSkip \/ PushInput
  PROVE  OnsInv'
<1> USE DEF OnsInv, QueueTyped, GoneIsQuiet, StoppedFirst, QuitIsForTheStopped,
            SurfaceOfTheGame, EndIsReported, Joinable,
            flags, movie, picture, ctrls
<1>1. ASSUME NEW c \in {"tick", "pause", "resume", "frame"}, Enter(c) PROVE OnsInv'
  BY <1>1 DEF Enter
<1>2. ASSUME NEW e \in Inputs, SendInput(e) PROVE OnsInv'
  BY <1>2 DEF SendInput
<1>3. CASE Tick
  BY <1>3 DEF Tick
<1>4. ASSUME NEW c \in {"pause", "resume"}, NEW from, NEW to, Suspend(c, from, to)
      PROVE  OnsInv'
  BY <1>4 DEF Suspend
<1>5. CASE RefreshFrame
  BY <1>5 DEF RefreshFrame
<1>6. CASE Accept
  BY <1>6 DEF Accept
<1>7. CASE AskSkip
  BY <1>7 DEF AskSkip
<1>8. CASE PushInput
  <2>1. /\ input \in Events /\ input # Quit /\ "move" \in Events /\ "move" # Quit
    BY <1>8, InputAssumption DEF Events, PushInput, Keys, Pointer, Quit
  <2> DEFINE q == IF input = "down" THEN Push(queue, "move") ELSE queue
  <2>2. NothingNew(queue, q)
    BY <2>1, Pushed, Taken, InputAssumption, QueueAssumption
  <2>3. queue' = Push(q, input)
    BY <1>8 DEF PushInput
  <2> HIDE DEF q
  <2>4. NothingNew(q, queue')
    BY <2>1, <2>2, <2>3, Pushed, InputAssumption, QueueAssumption DEF NothingNew
  <2> QED
    BY <1>8, <2>2, <2>4 DEF NothingNew, PushInput
<1> QED
  BY <1>1, <1>2, <1>3, <1>4, <1>5, <1>6, <1>7, <1>8

\* The interpreter's thread, from its startup to its end.
LEMMA ThreadStep ==
  ASSUME OnsInv,
         \/ Flush \/ StartupFails \/ StartupSucceeds \/ GameOpens
         \/ Teardown \/ ScriptEnds
  PROVE  OnsInv'
<1> USE DEF OnsInv, QueueTyped, GoneIsQuiet, StoppedFirst, QuitIsForTheStopped,
            SurfaceOfTheGame, EndIsReported, Joinable,
            flags, movie, picture, ctrls
<1>1. CASE Flush
  BY <1>1 DEF Flush, PublishFrame
<1>2. CASE StartupFails
  BY <1>2 DEF StartupFails, SetError, HostExits
<1>3. CASE StartupSucceeds
  BY <1>3 DEF StartupSucceeds, PublishFrame
<1>4. CASE GameOpens
  BY <1>4 DEF GameOpens
<1>5. CASE Teardown
  BY <1>5 DEF Teardown
<1>6. CASE ScriptEnds
  BY <1>6 DEF ScriptEnds, SetError, HostExits
<1> QED
  BY <1>1, <1>2, <1>3, <1>4, <1>5, <1>6

\* The script: its waits, and its movies.
LEMMA ScriptStep ==
  ASSUME OnsInv,
         \/ WaitEvent \/ ZeroWait \/ DrainReleases \/ CallsMedia
         \/ PlayVideo \/ MovieLoop \/ MoviePolled \/ UpdateMovie
         \/ CloseVideo \/ MovieEnds
  PROVE  OnsInv'
<1> USE DEF OnsInv, QueueTyped, GoneIsQuiet, StoppedFirst, QuitIsForTheStopped,
            SurfaceOfTheGame, EndIsReported, Joinable,
            flags, movie, picture, ctrls
<1>1. CASE WaitEvent
  <2>1. NothingNew(queue, queue')
    BY <1>1, Taken DEF WaitEvent
  <2> QED
    BY <1>1, <2>1 DEF NothingNew, WaitEvent, SetError, HostExits
<1>2. CASE ZeroWait
  BY <1>2 DEF ZeroWait
<1>3. CASE DrainReleases
  <2>1. NothingNew(queue, queue')
    <3> DEFINE first == SelectInSeq(queue, IsRelease)
    <3>1. first \in 0..Len(queue)
      BY FoundInQueue
    <3>2. (first # 0 /\ queue' = RemoveAt(queue, first)) \/ queue' = queue
      BY <1>3 DEF DrainReleases
    <3> HIDE DEF first
    <3>3. first # 0 => first \in 1..Len(queue)
      BY <3>1
    <3> QED
      BY <3>2, <3>3, Taken
  <2> QED
    BY <1>3, <2>1 DEF NothingNew, DrainReleases
<1>4. CASE CallsMedia
  BY <1>4 DEF CallsMedia
<1>5. CASE PlayVideo
  BY <1>5 DEF PlayVideo, CloseMedia
<1>6. CASE MovieLoop
  <2>1. NothingNew(queue, queue')
    <3> DEFINE quit == SelectInSeq(queue, IsQuit)
               read == IF quit = 0 THEN queue ELSE SubSeq(queue, 1, quit)
    <3>1. quit \in 0..Len(queue)
      BY FoundInQueue
    <3>2. CASE stop
      BY <1>6, <3>2, Taken DEF MovieLoop
    <3>3. CASE ~ stop
      <4>1. queue' = SubSeq(queue, Len(read) + 1, Len(queue))
        BY <1>6, <3>3 DEF MovieLoop, PollMovieEvents
      <4> HIDE DEF quit
      <4>2. Len(read) + 1 \in 1..(Len(queue) + 1)
        BY <3>1
      <4> QED
        BY <4>1, <4>2, Taken
    <3> QED
      BY <3>2, <3>3
  <2>2. script = "movie" /\ UNCHANGED <<runtime, stop, hostCall, input, worker, media,
                                        present, published>>
    BY <1>6 DEF MovieLoop
  <2>3. /\ script' \in {"closing", "polled", "teardown"}
        /\ script' = "teardown" => ~ gameOpen' /\ (ended' \/ startup' = "Failed")
    BY <1>6 DEF MovieLoop, PollMovieEvents, HostExits, SetError
  <2> QED
    BY <2>1, <2>2, <2>3 DEF NothingNew
<1>7. CASE MoviePolled
  BY <1>7 DEF MoviePolled
<1>8. CASE UpdateMovie
  BY <1>8 DEF UpdateMovie, CloseMedia
<1>9. CASE CloseVideo
  BY <1>9 DEF CloseVideo, CloseMedia
<1>10. CASE MovieEnds
  BY <1>10 DEF MovieEnds
<1> QED
  BY <1>1, <1>2, <1>3, <1>4, <1>5, <1>6, <1>7, <1>8, <1>9, <1>10

\* Every step preserves the invariant.
LEMMA OnsStep == ASSUME OnsInv, [OnsNext]_onsVars PROVE OnsInv'
<1>1. CASE UNCHANGED onsVars
  BY <1>1 DEF onsVars, OnsInv, QueueTyped, GoneIsQuiet, StoppedFirst, QuitIsForTheStopped,
              SurfaceOfTheGame, EndIsReported, Joinable,
              flags, movie, picture, ctrls
<1>2. CASE HostCalls
  BY <1>2, SessionStep, HostStep DEF HostCalls
<1>3. CASE HostProceeds
  BY <1>3, SessionStep, HostStep DEF HostProceeds
<1>4. CASE WorkerReturns \/ MovieEnds
  BY <1>4, SessionStep, ScriptStep
<1>5. CASE ThreadProceeds
  BY <1>5, ThreadStep, ScriptStep DEF ThreadProceeds
<1>6. CASE ScriptActs
  BY <1>6, ThreadStep, ScriptStep DEF ScriptActs
<1> QED
  BY <1>1, <1>2, <1>3, <1>4, <1>5, <1>6 DEF OnsNext

-----------------------------------------------------------------------------
(* OnsRuntime: the theorems. *)

\* What every Runtime keeps, through its interpreter's end and the next one's start.
THEOREM OnsInvariant == OnsSpec => []OnsInv
BY OnsInitial, OnsStep, PTL DEF OnsSpec

\* An interpreter that has finished, by an exit code, an exception, a QUIT in a wait or
\* in a movie, takes no more input and is reported by the next tick.
THEOREM EndsAreReported == OnsSpec => []EndIsReported
BY OnsInvariant, PTL DEF OnsInv

\* A Runtime that is gone leaves no thread, player, surface, input or QUIT to the next,
\* and the host is never shown a frame of an earlier one.
THEOREM RuntimesLeaveNothing == OnsSpec => []NothingLeft
BY OnsInvariant, NothingIsLeft, PTL
=============================================================================
