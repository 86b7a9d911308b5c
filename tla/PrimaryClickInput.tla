--------------------------- MODULE PrimaryClickInput ---------------------------
(***************************************************************************)
(* Pointer input of the KiriKiri backend: engine_send_input queues events, *)
(* the next engine_tick replays them into the engine loop                  *)
(* (bridge/krkr2_runtime/src/krkr2_legacy_engine_api.cpp), and the gate of *)
(* abi/src/engine_input_queue_gate.h decides which edges of the primary    *)
(* button enter the queue: "a bounded number of complete primary           *)
(* gestures", one pointer at a time.                                       *)
(*                                                                         *)
(* An input event is abstracted to its type and pointer. A "wheel" stands  *)
(* for every event the gate lets through unseen: other buttons, keys, text.*)
(***************************************************************************)
EXTENDS Naturals, SequencesExt

CONSTANTS Pointers,     \* pointer ids; reused by the host for later contacts
          MaxGestures,  \* kMaxQueuedPrimaryGestures (8)
          MaxQueued,    \* kMaxQueuedInputs (512)
          NoPointer

ASSUME PointerAssumption == NoPointer \notin Pointers
ASSUME LimitAssumption == MaxGestures \in Nat /\ MaxQueued \in Nat \ {0}

VARIABLES
  state,       \* engine_handle_s::state, "opened" or "paused"
  primaryDown, \* primary_down_pointer_id_
  queued,      \* queued_primary_gestures_
  suppressed,  \* suppressed_pointer_ids_
  pending,     \* pending_events
  ticking,     \* engine_tick is replaying the queue
  pressed,     \* the pointer whose press the engine loop has seen last
  evicted,     \* history: an edge of the primary button was evicted from a full queue
  failed       \* history: the engine loop refused such an edge

gate == <<primaryDown, queued, suppressed>>
inputVars == <<state, primaryDown, queued, suppressed, pending, ticking, pressed, evicted, failed>>

Down(p) == [type |-> "down", pointer |-> p]
Move(p) == [type |-> "move", pointer |-> p]
Up(p)   == [type |-> "up", pointer |-> p]
Wheel   == [type |-> "wheel", pointer |-> NoPointer]

Events == [type : {"down", "move", "up"}, pointer : Pointers] \cup {Wheel}

IsEdge(e) == e.type \in {"down", "up"}

\* A game has been opened.
InputInit ==
  /\ state = "opened"
  /\ primaryDown = NoPointer /\ queued = 0 /\ suppressed = {}
  /\ pending = <<>>
  /\ ticking = FALSE
  /\ pressed = NoPointer
  /\ evicted = FALSE /\ failed = FALSE

-----------------------------------------------------------------------------
(* engine_send_input: refused while paused. The host's thread makes every call, *)
(* so an event never arrives in the middle of a tick.                           *)

Listening == state = "opened" /\ ~ ticking

\* on_dequeued: the gestures left after e leaves the queue.
Uncount(n, e) == IF e.type = "up" /\ n # 0 THEN n - 1 ELSE n

\* Mutant: the gate is not told of the event that a full queue loses.
PushEvent_SilentEviction(e, gestures) ==
  /\ pending' = LET q == Append(pending, e) IN IF Len(q) > MaxQueued THEN Tail(q) ELSE q
  /\ queued' = gestures
  /\ evicted' = (evicted \/ Len(pending) = MaxQueued)

\* An event enters the queue; a full queue loses its oldest event.
PushEvent(e, gestures) ==
  LET q == Append(pending, e) IN
  IF Len(q) > MaxQueued
  THEN /\ pending' = Tail(q)
       /\ queued' = Uncount(gestures, Head(q))
       /\ evicted' = (evicted \/ IsEdge(Head(q)))
  ELSE /\ pending' = q
       /\ queued' = gestures
       /\ UNCHANGED evicted

\* Mutant: no limit to the gestures that wait.
DownRefused_NoLimit(p) == primaryDown # NoPointer

\* A press is refused while another is held, or with MaxGestures waiting.
DownRefused(p) == primaryDown # NoPointer \/ queued >= MaxGestures

\* A refused pointer is quarantined, unless it repeats the press it holds.
SendRefusedDown(p) ==
  /\ Listening
  /\ DownRefused(p)
  /\ suppressed' = IF primaryDown = p THEN suppressed ELSE suppressed \cup {p}
  /\ UNCHANGED <<state, primaryDown, queued, pending, ticking, pressed, evicted, failed>>

SendDown(p) ==
  /\ Listening
  /\ ~ DownRefused(p)
  /\ primaryDown' = p
  /\ suppressed' = suppressed \ {p}
  /\ PushEvent(Down(p), queued)
  /\ UNCHANGED <<state, ticking, pressed, failed>>

\* The moves of a quarantined pointer are dropped.
SendMove(p) ==
  /\ Listening
  /\ p \in suppressed => primaryDown = p
  /\ PushEvent(Move(p), queued)
  /\ UNCHANGED <<state, primaryDown, suppressed, ticking, pressed, failed>>

\* The release of the pointer that holds the press completes a gesture.
SendUp(p) ==
  /\ Listening
  /\ primaryDown = p
  /\ primaryDown' = NoPointer
  /\ suppressed' = suppressed \ {p}
  /\ PushEvent(Up(p), queued + 1)
  /\ UNCHANGED <<state, ticking, pressed, failed>>

\* The release of a pointer that holds no press is dropped, ending its quarantine.
SendStrayUp(p) ==
  /\ Listening
  /\ primaryDown # p
  /\ suppressed' = suppressed \ {p}
  /\ UNCHANGED <<state, primaryDown, queued, pending, ticking, pressed, evicted, failed>>

SendWheel ==
  /\ Listening
  /\ PushEvent(Wheel, queued)
  /\ UNCHANGED <<state, primaryDown, suppressed, ticking, pressed, failed>>

-----------------------------------------------------------------------------
(* engine_tick replays the whole queue, or up to an event that is refused. *)

TickBegins ==
  /\ Listening
  /\ pending # <<>>
  /\ ticking' = TRUE
  /\ UNCHANGED <<state, primaryDown, queued, suppressed, pending, pressed, evicted, failed>>

\* What the engine loop has pressed after event e.
After(e) == CASE e.type = "down" -> e.pointer
              [] e.type = "up"   -> NoPointer
              [] OTHER           -> pressed

Dispatch ==
  /\ ticking
  /\ pending' = Tail(pending)
  /\ queued' = Uncount(queued, Head(pending))
  /\ \/ /\ pressed' = After(Head(pending))
        /\ ticking' = (pending' # <<>>)
        /\ UNCHANGED failed
     \/ /\ ticking' = FALSE
        /\ failed' = (failed \/ IsEdge(Head(pending)))
        /\ UNCHANGED pressed
  /\ UNCHANGED <<state, primaryDown, suppressed, evicted>>

-----------------------------------------------------------------------------
(* engine_pause and engine_resume. *)

\* Mutant: the gate is not reset with the queue.
Pause_KeepsGate ==
  /\ Listening
  /\ state' = "paused"
  /\ pending' = <<>>
  /\ pressed' = NoPointer
  /\ evicted' = FALSE /\ failed' = FALSE
  /\ UNCHANGED <<primaryDown, queued, suppressed, ticking>>

\* The queue and the gate are emptied, the engine loop releases its pointers.
PauseInput ==
  /\ Listening
  /\ state' = "paused"
  /\ pending' = <<>>
  /\ primaryDown' = NoPointer /\ queued' = 0 /\ suppressed' = {}
  /\ pressed' = NoPointer
  /\ evicted' = FALSE /\ failed' = FALSE
  /\ UNCHANGED ticking

ResumeInput ==
  /\ state = "paused"
  /\ state' = "opened"
  /\ UNCHANGED <<gate, pending, ticking, pressed, evicted, failed>>

-----------------------------------------------------------------------------

Send(p) == SendRefusedDown(p) \/ SendDown(p) \/ SendMove(p) \/ SendUp(p) \/ SendStrayUp(p)

InputNext ==
  \/ \E p \in Pointers : Send(p)
  \/ SendWheel \/ TickBegins \/ Dispatch \/ PauseInput \/ ResumeInput

InputSpec == InputInit /\ [][InputNext]_inputVars

-----------------------------------------------------------------------------
(* Properties. *)

\* The type invariant.
InputTypeOK ==
  /\ state \in {"opened", "paused"}
  /\ primaryDown \in Pointers \cup {NoPointer}
  /\ queued \in Nat
  /\ suppressed \subseteq Pointers
  /\ pending \in Seq(Events)
  /\ ticking \in BOOLEAN
  /\ pressed \in Pointers \cup {NoPointer}
  /\ evicted \in BOOLEAN
  /\ failed \in BOOLEAN

\* No more than MaxGestures releases wait, and a press is held only with room for
\* its own: the gate's check at the press bounds what happens at the release.
\* The pointer that holds the press is never quarantined.
GateBounded ==
  /\ queued <= MaxGestures
  /\ primaryDown # NoPointer => queued < MaxGestures
  /\ primaryDown \notin suppressed
  /\ Len(pending) <= MaxQueued

\* The gate's counter, kept at four places of two files, is the number of
\* releases in the queue, evictions and failed replays included.
Releases == {i \in DOMAIN pending : pending[i].type = "up"}
CountsReleases == queued = Cardinality(Releases)

\* The pointer that the engine loop holds pressed once it has seen the first n
\* events that wait: that of the last edge among them, if there is one.
Edges(n) == {i \in 1..n : IsEdge(pending[i])}
HeldAfter(n) ==
  IF Edges(n) = {} THEN pressed
  ELSE LET edge == pending[Max(Edges(n))] IN IF edge.type = "down" THEN edge.pointer ELSE NoPointer

\* Presses and releases alternate, each release by the pointer that pressed, and
\* the gesture left open at the end is the one the gate believes is held.
CompleteGestures ==
  /\ \A i \in Edges(Len(pending)) :
       HeldAfter(i - 1) = IF pending[i].type = "down" THEN NoPointer ELSE pending[i].pointer
  /\ HeldAfter(Len(pending)) = primaryDown

\* While no edge has been lost, whatever the pointers do and however ticks and
\* pauses fall, the engine loop sees complete gestures and the gate agrees with it.
WholeUnlessLost == ~ evicted /\ ~ failed => CompleteGestures

=============================================================================
