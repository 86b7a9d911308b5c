---------------------------- MODULE ProviderSession ----------------------------
(***************************************************************************)
(* One engine handle and its runtime provider                              *)
(* (abi/src/engine_api_dispatch.cpp, abi/src/engine_runtime_provider.cpp): *)
(* which backend the first opening selects, how the options and the        *)
(* surface size set before are handed to the runtime it creates, and how   *)
(* pause, resume and tick deal with a host audio session that is not yet   *)
(* active. Every action is one API call, made under the handle's mutex.    *)
(***************************************************************************)
EXTENDS Integers, SequencesExt

CONSTANTS Providers,   \* ids of the providers that may register
          Priority,    \* their priorities
          Scores,      \* what their probes may answer
          Options,     \* option keys
          Values,      \* option values
          Sizes,       \* surface sizes
          None

ASSUME ProviderAssumption == /\ Priority \in [Providers -> Int]
                             /\ Scores \subseteq Int
ASSUME NoneAssumption == None \notin Providers \cup Values \cup Sizes

VARIABLES
  registry,     \* g_providers, the built-in KiriKiri entry left out
  requested,    \* DispatchHandle::requested_runtime
  backend,      \* DispatchHandle::backend
  provider,     \* DispatchHandle::provider
  options,      \* DispatchHandle::pending_options
  surface,      \* DispatchHandle::surface_width/height, None before they are set
  resumePending,\* DispatchHandle::provider_resume_pending
  runtime,      \* DispatchHandle::runtime and what its last opening came to
  given,        \* the value of each option last given to the runtime
  rtSurface,    \* the surface size the runtime has accepted
  paused,       \* is the runtime paused
  audioActive,  \* is the audio session of the host application active
  hostPaused,   \* history: the host's last successful request was to pause
  replayStopped \* history: the replay of options and surface size was cut short

handle == <<requested, backend, provider, options, surface, resumePending>>
inner  == <<runtime, given, rtSurface, paused>>
past   == <<hostPaused, replayStopped>>
vars   == <<registry, handle, inner, audioActive, past>>

Nothing == [o \in Options |-> None]

Init == /\ registry = <<>>
        /\ requested = "auto"
        /\ backend = "undecided"
        /\ provider = None
        /\ options = Nothing
        /\ surface = None
        /\ resumePending = FALSE
        /\ runtime = "none"
        /\ given = Nothing
        /\ rtSurface = None
        /\ paused = FALSE
        /\ audioActive \in BOOLEAN
        /\ hostPaused = FALSE
        /\ replayStopped = FALSE

-----------------------------------------------------------------------------
(* Registration and selection. *)

\* engine_register_runtime_provider: an id is registered once.
Register(p) ==
  /\ p \notin ToSet(registry)
  /\ registry' = Append(registry, p)
  /\ UNCHANGED <<handle, inner, audioActive, past>>

\* Mutant: a later provider wins a draw.
Beats_Later(p, q, scores) ==
  scores[p] > scores[q] \/ (scores[p] = scores[q] /\ Priority[p] >= Priority[q])

\* May candidate p replace q, which is registered before it?
Beats(p, q, scores) ==
  scores[p] > scores[q] \/ (scores[p] = scores[q] /\ Priority[p] > Priority[q])

\* The loop of SelectBackendLocked: each probed provider in turn may replace the
\* best of those before it.
Better(best, p, scores) ==
  IF scores[p] > 0 /\ (best = None \/ Beats(p, best, scores)) THEN p ELSE best

Selected(scores) ==
  LET best[n \in 0..Len(registry)] ==
        IF n = 0 THEN None ELSE Better(best[n - 1], registry[n], scores)
  IN best[Len(registry)]

\* What an opening may select; None is the built-in KiriKiri backend.
Selectable == CASE requested = "auto"              -> {Selected(s) : s \in [Providers -> Scores]}
             [] requested = "kirikiri"          -> {None}
             [] requested \in ToSet(registry)   -> {requested}
             [] OTHER                           -> {}

-----------------------------------------------------------------------------
(* Settings. *)

\* engine_set_option("runtime", ...), refused once the backend is decided.
SetRuntime(id) ==
  /\ backend = "undecided"
  /\ requested' = id
  /\ UNCHANGED <<registry, backend, provider, options, surface, resumePending, inner,
                 audioActive, past>>

\* Mutant: an option set after the opening is recorded but not passed on.
SetOption_OnlyRecords(o, v) ==
  /\ options' = [options EXCEPT ![o] = v]
  /\ UNCHANGED <<registry, requested, backend, provider, surface, resumePending, inner,
                 audioActive, past>>

\* engine_set_option: recorded, and passed on once there is a runtime.
SetOption(o, v) ==
  /\ options' = [options EXCEPT ![o] = v]
  /\ given' = IF backend = "provider" THEN [given EXCEPT ![o] = v] ELSE given
  /\ UNCHANGED <<registry, requested, backend, provider, surface, resumePending, runtime,
                 rtSurface, paused, audioActive, past>>

\* engine_set_surface_size, recorded only when it is accepted.
SetSurface(s) ==
  /\ surface' = s
  /\ rtSurface' = IF backend = "provider" THEN s ELSE rtSurface
  /\ UNCHANGED <<registry, requested, backend, provider, options, resumePending, runtime,
                 given, paused, audioActive, past>>

-----------------------------------------------------------------------------
(* Opening a game. *)

OpenLegacy ==
  /\ backend = "undecided"
  /\ None \in Selectable
  /\ backend' = "legacy"
  /\ UNCHANGED <<registry, requested, provider, options, surface, resumePending, inner,
                 audioActive, past>>

\* The provider's create fails: the backend stays undecided.
CreateFails ==
  /\ backend = "undecided"
  /\ provider' \in Selectable \ {None}
  /\ UNCHANGED <<registry, requested, backend, options, surface, resumePending, inner,
                 audioActive, past>>

\* The runtime is given the options with these keys.
Give(keys) == given' = [o \in Options |-> IF o \in keys THEN options[o] ELSE None]

Recorded == {o \in Options : options[o] # None}

\* Every recorded option and the surface size are replayed; an option that the
\* runtime does not support is passed over.
ReplayDone == /\ Give(Recorded)
              /\ rtSurface' = surface
              /\ UNCHANGED replayStopped

\* An option fails for another reason, or the surface size is refused.
ReplayStops == /\ replayStopped' = TRUE
               /\ rtSurface' = None
               /\ \/ \E keys \in SUBSET Recorded : keys # {} /\ Give(keys)
                  \/ surface # None /\ Give(Recorded)

\* CheckBetaRuntimeAccess or the translation settings refuse the opening, or the
\* provider's open_game returns.
Outcome(before) == {before, "open", "failed"}

OpenFirst ==
  /\ backend = "undecided"
  /\ provider' \in Selectable \ {None}
  /\ backend' = "provider"
  /\ \/ ReplayDone /\ runtime' \in Outcome("created")
     \/ ReplayStops /\ runtime' = "created"
  /\ UNCHANGED <<registry, requested, options, surface, resumePending, paused, audioActive,
                 hostPaused>>

\* SelectBackendLocked returns at once when the backend is decided.
OpenAgain ==
  /\ backend = "provider"
  /\ runtime' \in Outcome(runtime)
  /\ UNCHANGED <<registry, handle, given, rtSurface, paused, audioActive, past>>

-----------------------------------------------------------------------------
(* Pausing, resuming and ticking a provider's runtime. *)

\* Mutant: pausing forgets the resume that waits.
Pause_KeepsPending ==
  /\ backend = "provider"
  /\ UNCHANGED resumePending
  /\ \/ paused' = TRUE /\ hostPaused' = TRUE
     \/ UNCHANGED <<paused, hostPaused>>
  /\ UNCHANGED <<registry, requested, backend, provider, options, surface, runtime, given,
                 rtSurface, audioActive, replayStopped>>

\* engine_pause; the provider may refuse.
Pause ==
  /\ backend = "provider"
  /\ resumePending' = FALSE
  /\ \/ paused' = TRUE /\ hostPaused' = TRUE
     \/ UNCHANGED <<paused, hostPaused>>
  /\ UNCHANGED <<registry, requested, backend, provider, options, surface, runtime, given,
                 rtSurface, audioActive, replayStopped>>

\* ActivateProviderAudioSessionForHost, then the provider's resume.
RuntimeResumes == audioActive /\ paused' = FALSE /\ resumePending' = FALSE

\* engine_resume: done, held until the audio session is active, or refused.
Resume ==
  /\ backend = "provider"
  /\ hostPaused' = FALSE
  /\ \/ RuntimeResumes
     \/ ~ audioActive /\ resumePending' = TRUE /\ UNCHANGED paused
     \/ audioActive /\ UNCHANGED <<resumePending, paused>>
  /\ UNCHANGED <<registry, requested, backend, provider, options, surface, runtime, given,
                 rtSurface, audioActive, replayStopped>>

\* Mutant: only a runtime that is paused is resumed.
TickResumes_IfPaused ==
  /\ backend = "provider"
  /\ resumePending /\ paused
  /\ RuntimeResumes
  /\ UNCHANGED <<registry, requested, backend, provider, options, surface, runtime, given,
                 rtSurface, audioActive, past>>

\* engine_tick completes a resume that is held; otherwise it changes nothing here.
TickResumes ==
  /\ backend = "provider"
  /\ resumePending
  /\ RuntimeResumes
  /\ UNCHANGED <<registry, requested, backend, provider, options, surface, runtime, given,
                 rtSurface, audioActive, past>>

\* The operating system gives the audio session to the application, or takes it.
AudioChanges ==
  /\ audioActive' = ~ audioActive
  /\ UNCHANGED <<registry, handle, inner, past>>

-----------------------------------------------------------------------------

Next ==
  \/ \E p \in Providers : Register(p)
  \/ \E id \in Providers \cup {"auto", "kirikiri"} : SetRuntime(id)
  \/ \E o \in Options, v \in Values : SetOption(o, v)
  \/ \E s \in Sizes : SetSurface(s)
  \/ OpenLegacy \/ CreateFails \/ OpenFirst \/ OpenAgain
  \/ Pause \/ Resume \/ TickResumes \/ AudioChanges

Spec == Init /\ [][Next]_vars

-----------------------------------------------------------------------------
(* Properties. *)

\* "The host chooses the highest score, then priority, then registration order":
\* the loop keeps, of the providers that claim a game, one that no other precedes,
\* whatever the order of registration.
SelectionIsBest ==
  LET order(p) == CHOOSE i \in DOMAIN registry : registry[i] = p
      precedes(p, q, s) == \/ s[p] > s[q]
                           \/ s[p] = s[q] /\ Priority[p] > Priority[q]
                           \/ s[p] = s[q] /\ Priority[p] = Priority[q] /\ order(p) < order(q)
  IN backend = "undecided" =>
     \A s \in [Providers -> Scores] :
       LET claiming == {p \in ToSet(registry) : s[p] > 0} IN
       IF claiming = {} THEN Selected(s) = None
       ELSE /\ Selected(s) \in claiming
            /\ \A q \in claiming \ {Selected(s)} : precedes(Selected(s), q, s)

\* Whenever they were set, the runtime has been given every option's latest value
\* and the latest surface size, unless their replay was cut short.
SettingsReachRuntime ==
  runtime # "none" /\ ~ replayStopped => given = options /\ rtSurface = surface

\* A runtime that the host has paused stays paused until the host resumes it, also
\* when an earlier resume was still held for the audio session.
PausedStaysPaused == hostPaused => paused

\* The runtime never comes out of a pause against an inactive audio session.
ResumesOnlyActive == [][paused /\ ~ paused' => audioActive]_vars

-----------------------------------------------------------------------------
(* Fairness and liveness. *)

\* An application in the foreground gets its audio session at some time, and may
\* lose it again; the host ticks its runtime frame after frame, and the resume of a
\* provider that is tried again and again succeeds at last.
Fairness == /\ WF_vars(~ audioActive /\ AudioChanges)
            /\ SF_vars(TickResumes)

FairSpec == Spec /\ Fairness

\* A resume that the audio session holds back is completed or overtaken by a pause.
HeldResumeEnds == resumePending ~> ~ resumePending

=============================================================================
