----------------------------- MODULE RuntimeReports -----------------------------
(***************************************************************************)
(* What a provider's runtime tells its host through one handle, and when   *)
(* the host hears it: the startup log queue, the queue of platform         *)
(* requests, the startup state and the last error                          *)
(* (abi/src/engine_api_dispatch.cpp), written by the startup worker and by *)
(* the runtime's callbacks, read by the frame of the Godot shell           *)
(* (apps/godot_app/scripts/main.gd, _process) through AetherRuntimePlayer. *)
(*                                                                         *)
(* Every step is one call of the engine API, made under the handle's mutex.*)
(* The writers' texts are abstracted to a serial number and a length.      *)
(***************************************************************************)
EXTENDS Naturals, SequencesExt

CONSTANTS LineSizes,    \* lengths of the log lines that runtimes emit
          BufferSize,   \* size of the buffer that the host drains them into
          RequestFits,  \* may a platform request fit, or not, the host's buffers
          MaxRequests,  \* capacity of the request queue (256)
          MaxServed,    \* requests taken in one frame (256)
          MaxLines,     \* bound: log lines emitted in a behaviour
          MaxAsked      \* bound: platform requests emitted in a behaviour

ASSUME SizeAssumption == /\ LineSizes \subseteq Nat
                         /\ BufferSize \in Nat \ {0}
                         /\ RequestFits \subseteq BOOLEAN
ASSUME BoundAssumption == /\ MaxRequests \in Nat \ {0}
                          /\ MaxServed \in Nat \ {0}
                          /\ MaxLines \in Nat
                          /\ MaxAsked \in Nat

VARIABLES
  logs,       \* DispatchHandle::startup_logs
  requests,   \* DispatchHandle::platform_requests
  startup,    \* DispatchHandle::startup_state
  lastError,  \* DispatchHandle::last_error: what it is the diagnostic of
  opening,    \* the startup worker is inside open_game
  frame,      \* where the shell's frame is
  polled,     \* cached_startup_state, of the shell
  tickFailed, \* did the frame's engine_tick fail
  served,     \* how many requests this frame has taken
  cached,     \* AetherRuntimePlayer::last_error_
  bytes,      \* out_bytes_written of the latest drain
  emitted,    \* history: number of log lines emitted
  shown,      \* history: the lines the shell has received
  asked,      \* history: number of platform requests made
  taken       \* history: the requests the shell has received

reportsVars == <<logs, requests, startup, lastError, opening, frame, polled, tickFailed,
                 served, cached, bytes, emitted, shown, asked, taken>>

\* The shell has just opened a game asynchronously: engine_open_game_async
\* returned OK, the worker runs.
ReportsInit ==
  /\ logs = <<>> /\ requests = <<>>
  /\ startup = "running" /\ lastError = "none" /\ opening = TRUE
  /\ frame = "begin" /\ polled = "running" /\ tickFailed = FALSE /\ served = 0
  /\ cached = "none" /\ bytes = 0
  /\ emitted = 0 /\ shown = <<>> /\ asked = 0 /\ taken = <<>>

-----------------------------------------------------------------------------
(* The runtime's side. *)

Line(n, size) == [n |-> n, size |-> size]

\* HostLog, from the startup worker, the runtime's own thread or inside a tick.
HostLog ==
  /\ emitted < MaxLines
  /\ emitted' = emitted + 1
  /\ \E size \in LineSizes : logs' = Append(logs, Line(emitted', size))
  /\ UNCHANGED <<requests, startup, lastError, opening, frame, polled, tickFailed, served,
                 cached, bytes, shown, asked, taken>>

\* Mutant: the newest request is the one dropped when the queue is full.
Bounded_DropsNewest(q) == IF Len(q) >= MaxRequests THEN Front(q) ELSE q

\* "Bound hostile or broken script spam without losing the newest request."
Bounded(q) == IF Len(q) >= MaxRequests THEN Tail(q) ELSE q

\* HostPlatformRequest: operations abstracted to their number.
HostPlatformRequest ==
  /\ asked < MaxAsked
  /\ asked' = asked + 1
  /\ \E fits \in RequestFits :
        requests' = Append(Bounded(requests), [n |-> asked', fits |-> fits])
  /\ UNCHANGED <<logs, startup, lastError, opening, frame, polled, tickFailed, served,
                 cached, bytes, emitted, shown, taken>>

\* A media callback reports through last_error as well; a runtime that failed to
\* open its game makes none.
HostMediaCall ==
  /\ startup # "failed"
  /\ lastError' \in {"none", "other"}
  /\ UNCHANGED <<logs, requests, startup, opening, frame, polled, tickFailed, served,
                 cached, bytes, emitted, shown, asked, taken>>

\* The startup worker publishes the outcome of open_game, a last log line and
\* its diagnostic, under the handle's mutex.
WorkerPublishes ==
  /\ opening
  /\ opening' = FALSE
  /\ \/ startup' = "succeeded" /\ lastError' = "none"
     \/ startup' = "failed" /\ lastError' = "startup"
  /\ emitted' = emitted + 1
  /\ \E size \in LineSizes : logs' = Append(logs, Line(emitted', size))
  /\ UNCHANGED <<requests, frame, polled, tickFailed, served, cached, bytes, shown,
                 asked, taken>>

-----------------------------------------------------------------------------
(* The shell's frame: resize, drain the logs, poll the startup state, then tick *)
(* and serve the platform requests, or report the failure. *)

\* set_surface_size is called when the window has changed size.
SyncSurface ==
  /\ frame = "begin"
  /\ lastError' \in {lastError, "none", "other"}
  /\ frame' = "drain"
  /\ UNCHANGED <<logs, requests, startup, opening, polled, tickFailed, served, cached,
                 bytes, emitted, shown, asked, taken>>

\* Bytes that the first n lines of the queue take, with their newlines.
Bytes(n) ==
  LET sum[m \in 0..Len(logs)] == IF m = 0 THEN 0 ELSE sum[m - 1] + logs[m].size + 1
  IN sum[n]

\* Mutant: a line must leave a byte for the terminating NUL.
Drainable_KeepsNul ==
  CHOOSE n \in 0..Len(logs) :
    /\ Bytes(n) < BufferSize
    /\ n = Len(logs) \/ Bytes(n + 1) >= BufferSize

\* DrainProviderStartupLogs takes lines off the queue until one does not fit.
Drainable ==
  CHOOSE n \in 0..Len(logs) :
    /\ Bytes(n) <= BufferSize
    /\ n = Len(logs) \/ Bytes(n + 1) > BufferSize

\* engine_drain_startup_logs.
DrainLogs ==
  /\ frame = "drain"
  /\ shown' = shown \o [i \in 1..Drainable |-> logs[i].n]
  /\ logs' = SubSeq(logs, Drainable + 1, Len(logs))
  /\ bytes' = Bytes(Drainable)
  /\ lastError' = "none"   \* Route() clears it
  /\ frame' = "poll"
  /\ UNCHANGED <<requests, startup, opening, polled, tickFailed, served, cached, emitted,
                 asked, taken>>

\* LOG_DRAIN_INTERVAL has not elapsed.
NoDrain ==
  /\ frame = "drain"
  /\ frame' = "poll"
  /\ UNCHANGED <<logs, requests, startup, lastError, opening, polled, tickFailed, served,
                 cached, bytes, emitted, shown, asked, taken>>

\* app_lifecycle_paused, or neither SUCCEEDED nor STARTUP_POLL_INTERVAL elapsed.
NoPoll ==
  /\ frame = "poll"
  /\ frame' = "begin"
  /\ UNCHANGED <<logs, requests, startup, lastError, opening, polled, tickFailed, served,
                 cached, bytes, emitted, shown, asked, taken>>

\* engine_get_startup_state; then the player reads engine_get_last_error.
PollStartup ==
  /\ frame = "poll"
  /\ polled' = startup
  /\ frame' = "polled"
  /\ UNCHANGED <<logs, requests, startup, lastError, opening, tickFailed, served, cached,
                 bytes, emitted, shown, asked, taken>>

\* Mutant: a failure is treated as a startup that still runs.
AfterPoll_IgnoresFailure ==
  /\ frame = "polled"
  /\ cached' = lastError
  /\ frame' = IF polled = "succeeded" THEN "tick" ELSE "begin"
  /\ UNCHANGED <<logs, requests, startup, lastError, opening, polled, tickFailed, served,
                 bytes, emitted, shown, asked, taken>>

AfterPoll ==
  /\ frame = "polled"
  /\ cached' = lastError
  /\ frame' = [running |-> "begin", succeeded |-> "tick", failed |-> "failed"][polled]
  /\ UNCHANGED <<logs, requests, startup, lastError, opening, polled, tickFailed, served,
                 bytes, emitted, shown, asked, taken>>

\* The text translation model is still loading: no tick in this frame.
AwaitTranslation ==
  /\ frame = "tick"
  /\ frame' = "begin"
  /\ UNCHANGED <<logs, requests, startup, lastError, opening, polled, tickFailed, served,
                 cached, bytes, emitted, shown, asked, taken>>

Tick ==
  /\ frame = "tick"
  /\ \/ tickFailed' = FALSE /\ lastError' = "none"
     \/ tickFailed' = TRUE /\ lastError' = "tick"
  /\ frame' = "serve"
  /\ UNCHANGED <<logs, requests, startup, opening, polled, served, cached, bytes, emitted, shown,
                 asked, taken>>

CanServe == served < MaxServed /\ requests # <<>> /\ Head(requests).fits

\* One turn of drain_platform_requests. Serving a request may submit a response,
\* which reports through last_error too.
ServeRequest ==
  /\ frame = "serve"
  /\ CanServe
  /\ requests' = Tail(requests)
  /\ taken' = Append(taken, Head(requests).n)
  /\ served' = served + 1
  /\ lastError' \in {lastError, "none", "other"}
  /\ UNCHANGED <<logs, startup, opening, frame, polled, tickFailed, cached, bytes, emitted,
                 shown, asked>>

\* No request, one that does not fit the buffers, or enough for this frame; the
\* player then reads the last error of the tick.
ServingEnds ==
  /\ frame = "serve"
  /\ ~ CanServe
  /\ cached' = lastError
  /\ served' = 0
  /\ frame' = IF tickFailed THEN "failed" ELSE "begin"
  /\ UNCHANGED <<logs, requests, startup, lastError, opening, polled, tickFailed, bytes,
                 emitted, shown, asked, taken>>

\* The game is over for the shell, which stops calling the runtime.
ReportFailure ==
  /\ frame = "failed"
  /\ frame' = "stopped"
  /\ UNCHANGED <<logs, requests, startup, lastError, opening, polled, tickFailed, served,
                 cached, bytes, emitted, shown, asked, taken>>

ShellStep ==
  \/ SyncSurface \/ DrainLogs \/ NoDrain \/ NoPoll \/ PollStartup \/ AfterPoll
  \/ AwaitTranslation \/ Tick \/ ServeRequest \/ ServingEnds \/ ReportFailure

ReportsNext == HostLog \/ HostPlatformRequest \/ HostMediaCall \/ WorkerPublishes \/ ShellStep

ReportsSpec == ReportsInit /\ [][ReportsNext]_reportsVars

-----------------------------------------------------------------------------
(* Properties. *)

\* Whatever a drain leaves behind, and whichever threads log meanwhile, the shell
\* receives every line once and in order: the lines shown and the lines queued
\* are all the lines emitted; and a drain never writes past the buffer.
LogsInOrder ==
  /\ shown \o [i \in 1..Len(logs) |-> logs[i].n] = [n \in 1..emitted |-> n]
  /\ bytes <= BufferSize

\* A platform request disappears without being served only when MaxRequests newer
\* ones have been made since ("without losing the newest request"), and requests
\* are served in the order they were made.
OnlyOldRequestsDropped ==
  LET known == taken \o [i \in 1..Len(requests) |-> requests[i].n] IN
  /\ \A n \in 1..asked : n \in ToSet(known) \/ n + MaxRequests <= asked
  /\ \A i \in 1..(Len(known) - 1) : known[i] < known[i + 1]
  /\ Len(requests) <= MaxRequests

\* Neither queue between the engine and the shell loses or reorders what it holds.
QueuesFaithful == LogsInOrder /\ OnlyOldRequestsDropped

-----------------------------------------------------------------------------
(* Fairness and liveness. *)

\* open_game returns; the shell runs frame after frame, is not paused for ever,
\* drains the logs every LOG_DRAIN_INTERVAL, polls every STARTUP_POLL_INTERVAL
\* and ticks once its translation model is loaded or has failed.
ReportsFairness ==
  /\ WF_reportsVars(WorkerPublishes)
  /\ WF_reportsVars(ShellStep)
  /\ SF_reportsVars(DrainLogs)
  /\ SF_reportsVars(PollStartup)
  /\ SF_reportsVars(Tick)

ReportsFairSpec == ReportsSpec /\ ReportsFairness

\* Line n is queued and neither it nor a line before it exceeds the buffer.
Showable(n) == \E i \in DOMAIN logs :
                  /\ logs[i].n = n
                  /\ \A j \in 1..i : logs[j].size + 1 <= BufferSize

\* A line that fits the buffer is shown, unless a longer one stands before it or
\* the shell has stopped ("messages cannot remain hidden in the native queue").
LinesShown == \A n \in 1..(MaxLines + 1) :
                Showable(n) ~> n \in ToSet(shown) \/ frame = "stopped"

\* Request n is queued and it and every request before it fit the buffers.
Servable(n) == \E i \in DOMAIN requests :
                  requests[i].n = n /\ \A j \in 1..i : requests[j].fits

\* Such a request made during a startup that succeeds is served, or dropped for
\* newer ones, unless the shell stops.
RequestsServed == \A n \in 1..MaxAsked :
                    Servable(n) ~> \/ n \notin {requests[i].n : i \in DOMAIN requests}
                                   \/ frame = "stopped"

\* Neither queue holds anything back for ever that it can deliver.
Served == LinesShown /\ RequestsServed

\* A startup that fails stops the shell's game, whatever the runtime still logs.
FailureNoticed == startup = "failed" ~> frame = "stopped"

=============================================================================
