---------------------------- MODULE RuntimeTiming ----------------------------
(***************************************************************************)
(* The host's time on its way to the runtime: ArtemisLogicalFramePacer and *)
(* RuntimeTickMillisecondQuantizer (bridge/godot_extension/src/            *)
(* RuntimeTickPacer.h) as AetherRuntimePlayer::tick uses them, the frame   *)
(* rate limit of the KiriKiri backend's engine_tick, and the fades of the  *)
(* background music, which take the same time as the ticks                 *)
(* (update_runtime_audio and update_runtime_audio_fades).                  *)
(*                                                                         *)
(* Time is counted in units of which Milli make a millisecond and Frame a  *)
(* logical frame; a fade takes one step of the volume per unit of its      *)
(* interval.  The quantizer's saturation at 2^32 milliseconds, seven weeks *)
(* in one tick, is left out.                                               *)
(***************************************************************************)
EXTENDS Integers

CONSTANTS
  Milli,    \* units in a millisecond
  LogicalFrame,    \* units in a logical frame
  Interval, \* units in a frame of the limited rate
  Deltas,   \* what the host may pass to tick, in units
  MaxTime,  \* bound: time of the host between two resets
  Tracks,   \* names of the music
  Volumes,  \* volumes the runtime asks for
  Full,     \* the volume a new player has
  MaxLoads, \* bound: requests for music that load a file
  NoName     \* no music in the slot

ASSUME RuntimeTimingAssumption ==
  /\ Milli \in Nat \ {0} /\ LogicalFrame \in Nat \ {0} /\ Interval \in Nat \ {0}
  /\ Deltas \subseteq Nat \ {0}
  /\ MaxTime \in Nat /\ MaxLoads \in Nat
  /\ Volumes \subseteq Nat /\ Full \in Nat \ {0}
  /\ NoName \notin Tracks

VARIABLES
  paced,         \* artemis_logical_frame_pacing_
  phaseSeconds,   \* phase_seconds_
  pendingSeconds, \* pending_seconds_
  remainder,      \* remainder_milliseconds_
  host,           \* history: time the host passed since the last reset
  given,          \* history: of it, what engine_tick was called for
  millis,         \* history: milliseconds engine_tick was given
  ticks,          \* history: calls of engine_tick for a paced runtime
  limiter,        \* engine_handle_s::fps, with the frames it has let through
  loads,          \* players created so far: a player is the number of its load
  bgm,            \* runtime_audio_players_[0] and runtime_audio_names_[0]
  fadeIn,         \* runtime_bgm_fade_in_
  fadeOut,        \* runtime_bgm_fade_out_
  volume,         \* get_volume_linear of the players
  playing         \* the players that play

clock == <<phaseSeconds, pendingSeconds, remainder, host, given, millis, ticks>>
music == <<loads, bgm, fadeIn, fadeOut, volume, playing>>
timingVars == <<paced, clock, limiter, music>>

Players == 1..MaxLoads
NoPlayer == 0
NoFade == [player |-> NoPlayer, target |-> 0]

\* age is the time since last_render_time, elapsed the time since the first
\* frame, steady whether no two ticks were further apart than the interval.
Unlimited == [limit |-> FALSE, initialized |-> FALSE, age |-> 0,
              elapsed |-> 0, rendered |-> 0, steady |-> TRUE]

TimingInit ==
  /\ paced \in BOOLEAN
  /\ phaseSeconds = 0 /\ pendingSeconds = 0 /\ remainder = 0
  /\ host = 0 /\ given = 0 /\ millis = 0 /\ ticks = 0
  /\ limiter = Unlimited
  /\ loads = 0 /\ bgm = [player |-> NoPlayer, name |-> NoName]
  /\ fadeIn = NoFade /\ fadeOut = NoFade
  /\ volume = [p \in Players |-> Full] /\ playing = {}

-----------------------------------------------------------------------------
(* The clocks. *)

\* std::round of a quotient: halves go away from zero.  (The sum of a positive
\* delta and a remainder is never below minus a half.)
Rounded(n) == (2 * n + Milli) \div (2 * Milli)

Quantized(d) == Rounded(d + remainder)
Remaining(d) == d + remainder - Quantized(d) * Milli

\* ArtemisLogicalFramePacer::Advance: all frames that are completed count as one.
Completed(d) == (phaseSeconds + d) \div LogicalFrame
PhaseAfter(d) == phaseSeconds + d - Completed(d) * LogicalFrame
PendingAfter_Mutant(d) == 0
PendingAfter(d) == pendingSeconds + d

\* The limit of engine_tick, t after the tick before: the deadline advances by one
\* interval, or snaps to the present when more than a whole one was missed.
AgeAfter(late) == IF late > Interval THEN 0 ELSE late

Limited(l, t) ==
  CASE ~l.limit -> l
    [] l.limit /\ ~l.initialized -> [l EXCEPT !.initialized = TRUE, !.rendered = 1]
    [] OTHER ->
         LET age == l.age + t
             due == age >= Interval
         IN [l EXCEPT !.age = IF due THEN AgeAfter(age - Interval) ELSE age,
                      !.rendered = IF due THEN @ + 1 ELSE @,
                      !.elapsed = @ + t,
                      !.steady = @ /\ t <= Interval]

\* update_runtime_audio_fades over d: a fade takes as many steps as its
\* interval has passed, and one that reached its target ends; a player faded
\* out is stopped.
Towards(v, t, n) == IF v < t THEN (IF v + n > t THEN t ELSE v + n)
                    ELSE (IF v - n < t THEN t ELSE v - n)
Fade(d) ==
  LET stepped(f) == Towards(volume[f.player], f.target, d)
      ended(f) == f.player # NoPlayer /\ stepped(f) = f.target
  IN /\ volume' = [p \in Players |->
                     IF p = fadeIn.player THEN stepped(fadeIn)
                     ELSE IF p = fadeOut.player THEN stepped(fadeOut)
                     ELSE volume[p]]
     /\ playing' = IF ended(fadeOut) THEN playing \ {fadeOut.player} ELSE playing
     /\ fadeIn' = IF ended(fadeIn) THEN NoFade ELSE fadeIn
     /\ fadeOut' = IF ended(fadeOut) THEN NoFade ELSE fadeOut
     /\ UNCHANGED <<loads, bgm>>

\* engine_tick and what follows it, for the time d.
RuntimeTick(d) ==
  /\ given' = given + d
  /\ millis' = millis + Quantized(d) /\ remainder' = Remaining(d)
  /\ Fade(d)

\* tick of a runtime that is not paced.  (A delta that is not positive is taken
\* for none: it ticks an unpaced runtime with no time and a paced one not at all.)
\* The limit goes by a clock of its own, not by what the host passes.
TickUnpaced ==
  /\ ~paced
  /\ \E d \in Deltas :
       /\ host + d <= MaxTime /\ host' = host + d
       /\ RuntimeTick(d)
  /\ \E t \in Deltas :
       /\ limiter.elapsed + t <= MaxTime
       /\ limiter' = Limited(limiter, t)
  /\ UNCHANGED <<paced, phaseSeconds, pendingSeconds, ticks>>

TickPaced ==
  /\ paced
  /\ \E d \in Deltas :
       /\ host + d <= MaxTime /\ host' = host + d
       /\ IF Completed(d) = 0
          THEN /\ phaseSeconds' = phaseSeconds + d /\ pendingSeconds' = PendingAfter(d)
               /\ UNCHANGED <<given, millis, remainder, ticks, music>>
          ELSE /\ phaseSeconds' = PhaseAfter(d) /\ pendingSeconds' = 0 /\ ticks' = ticks + 1
               /\ RuntimeTick(PendingAfter(d))
  /\ UNCHANGED <<paced, limiter>>

\* engine_set_option of fps_limit.
SetFpsLimit ==
  /\ ~paced
  /\ limiter' \in {Unlimited, [Unlimited EXCEPT !.limit = TRUE]}
  /\ UNCHANGED <<paced, clock, music>>

\* reset_runtime_tick_timing, at a pause, a resume and the opening of a game.
Reset ==
  /\ host > 0
  /\ phaseSeconds' = 0 /\ pendingSeconds' = 0 /\ remainder' = 0
  /\ host' = 0 /\ given' = 0 /\ millis' = 0 /\ ticks' = 0
  /\ UNCHANGED <<paced, limiter, music>>

-----------------------------------------------------------------------------
(* update_runtime_audio for slot 0, the background music. *)

\* The track that plays already: only its volume changes, at once or in steps.
SameTrack ==
  /\ bgm.player # NoPlayer /\ bgm.name # NoName
  /\ \E target \in Volumes, faded \in BOOLEAN :
       IF ~faded \/ volume[bgm.player] = target
       THEN /\ volume' = [volume EXCEPT ![bgm.player] = target]
            /\ fadeIn' = NoFade
       ELSE /\ fadeIn' = [player |-> bgm.player, target |-> target]
            /\ UNCHANGED volume
  /\ UNCHANGED <<paced, clock, limiter, loads, bgm, fadeOut, playing>>

OldFadeStops == {fadeOut.player}

FadeInLeft_Mutant == fadeIn
FadeInLeft == IF fadeIn.player = bgm.player THEN NoFade ELSE fadeIn

FadesOut(faded) == faded /\ bgm.player # NoPlayer /\ volume[bgm.player] > 0
FadedOut(faded) ==
  IF FadesOut(faded) THEN [player |-> bgm.player, target |-> 0] ELSE NoFade
Silenced(faded) ==
  OldFadeStops \cup IF FadesOut(faded) THEN {} ELSE {bgm.player}

StopMusic ==
  /\ bgm.player # NoPlayer
  /\ \E faded \in BOOLEAN :
       fadeOut' = FadedOut(faded) /\ playing' = playing \ Silenced(faded)
  /\ fadeIn' = FadeInLeft
  /\ bgm' = [player |-> NoPlayer, name |-> NoName]
  /\ UNCHANGED <<paced, clock, limiter, loads, volume>>

\* Another track gets a player of its own, at its volume or faded in to it.
NewTrack ==
  /\ loads < MaxLoads /\ loads' = loads + 1
  /\ \E name \in Tracks \ {bgm.name}, target \in Volumes, out, in \in BOOLEAN :
       /\ bgm' = [player |-> loads', name |-> name]
       /\ volume' = [volume EXCEPT ![loads'] = IF in THEN 0 ELSE target]
       /\ fadeIn' = IF in /\ target # 0 THEN [player |-> loads', target |-> target]
                    ELSE FadeInLeft
       /\ fadeOut' = FadedOut(out)
       /\ playing' = (playing \ Silenced(out)) \cup {loads'}
  /\ UNCHANGED <<paced, clock, limiter>>

\* One that cannot be loaded leaves a player that does not play, without a name, at the
\* volume it was created with.
LoadFails ==
  /\ loads < MaxLoads /\ loads' = loads + 1
  /\ bgm' = [player |-> loads', name |-> NoName]
  /\ fadeIn' = FadeInLeft
  /\ \E out \in BOOLEAN :
       fadeOut' = FadedOut(out) /\ playing' = playing \ Silenced(out)
  /\ UNCHANGED <<paced, clock, limiter, volume>>

TimingNext ==
  \/ TickUnpaced \/ TickPaced \/ Reset \/ SetFpsLimit
  \/ SameTrack \/ StopMusic \/ NewTrack \/ LoadFails

TimingSpec == TimingInit /\ [][TimingNext]_timingVars

-----------------------------------------------------------------------------
(* Properties. *)

Fades == [player : Players \cup {NoPlayer}, target : Nat]

\* Every variable keeps its type.
TypeOK ==
  /\ paced \in BOOLEAN
  /\ {phaseSeconds, pendingSeconds, host, given, millis, ticks} \subseteq Nat
  /\ remainder \in Int
  /\ limiter \in [limit : BOOLEAN, initialized : BOOLEAN, age : Nat,
                  elapsed : Nat, rendered : Nat, steady : BOOLEAN]
  /\ loads \in 0..MaxLoads
  /\ bgm \in [player : Players \cup {NoPlayer}, name : Tracks \cup {NoName}]
  /\ fadeIn \in Fades /\ fadeOut \in Fades
  /\ volume \in [Players -> Nat] /\ playing \subseteq Players

\* "the full elapsed time remains available to time-based effects": what the
\* pacer holds back is given to a later tick, to the last unit.
TimeConserved == given + pendingSeconds = host

\* The runtime is ticked at most once per logical frame, and frames a slow
\* host missed are not made up for in a burst.
NoBurst == paced => (phaseSeconds = host % LogicalFrame /\ ticks <= host \div LogicalFrame)

\* The milliseconds engine_tick is given never drift from the time they stand
\* for by more than half of one, however the deltas are cut.
MillisecondsFollow ==
  /\ millis * Milli + remainder = given
  /\ 2 * remainder \in -Milli..Milli

\* A limited engine never renders more frames than its rate allows, and one that
\* is ticked often enough renders every one of them: "This eliminates the
\* cumulative drift".
RateKept ==
  limiter.initialized =>
    /\ limiter.rendered <= limiter.elapsed \div Interval + 1
    /\ limiter.steady => limiter.rendered = limiter.elapsed \div Interval + 1

\* The runtime's clocks agree with the host's.
ClocksAgree == TimeConserved /\ NoBurst /\ MillisecondsFollow /\ RateKept

\* Every music that plays can still be stopped: its player is the slot's or the
\* one fading out; and no fade works on a player that was freed or on both.
MusicInHand ==
  /\ playing \subseteq {bgm.player, fadeOut.player}
  /\ fadeIn.player \in {NoPlayer, bgm.player}
  /\ fadeOut.player # NoPlayer => fadeOut.player # bgm.player

=============================================================================
