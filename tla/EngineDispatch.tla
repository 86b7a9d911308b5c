---------------------------- MODULE EngineDispatch ----------------------------
(***************************************************************************)
(* The public C API of the engine (abi/src/engine_api_dispatch.cpp): the   *)
(* handle registry, the two recursive mutexes every call takes in the same *)
(* order (g_dispatch_registry_mutex, then the handle's own), the startup   *)
(* worker of engine_open_game_async, which takes only the handle's mutex,  *)
(* the callbacks a provider's own thread makes into its host, and the      *)
(* destruction of a handle, which holds no lock while it joins and frees.  *)
(*                                                                         *)
(* A step is what happens between two points where another thread can      *)
(* interfere: acquiring a mutex, a provider call that runs for a while,    *)
(* waiting for a thread.                                                   *)
(***************************************************************************)
EXTENDS Naturals, FiniteSets

CONSTANTS Hosts,     \* host threads calling the API
          Handles,   \* addresses of DispatchHandle objects, reused after delete
          Media,     \* media player handles of the legacy backend
          HostOps,   \* the API functions host threads call
          RuntimeOps,\* those a runtime's own thread calls
          None

\* engine_create apart, "route" stands for every call made through Route().
AllOps   == {"open", "openAsync", "route", "mediaOpen", "mediaUse", "mediaDestroy",
             "destroy"}
MediaOps == {"mediaUse", "mediaDestroy"}

\* A handle also names the thread that its provider's runtime starts; such a
\* thread (the ONScripter one) calls back only the public media functions.
ASSUME ThreadAssumption == /\ Hosts \cap Handles = {}
                           /\ None \notin Hosts \cup Handles \cup Media
ASSUME OpsAssumption == /\ HostOps \subseteq AllOps
                        /\ RuntimeOps \subseteq MediaOps \cup {"mediaOpen"}

\* What else a handle holds is not one of its players (see Promise).
ASSUME ResourcesAssumption == {"runtime", "legacy"} \cap Media = {}

VARIABLES
  registered,    \* g_dispatch_handles
  mediaOwner,    \* g_dispatch_media_handles
  registryLock,  \* owner of g_dispatch_registry_mutex
  handleLock,    \* owner of each DispatchHandle::mutex
  allocated,     \* the DispatchHandle objects that exist
  backend,       \* DispatchHandle::backend
  runtime,       \* DispatchHandle::runtime, the provider's instance
  legacy,        \* handles whose DispatchHandle::legacy is not null
  hostMedia,     \* DispatchHandle::provider_media_handles
  joinable,      \* handles whose startup_thread is joinable
  startup,       \* DispatchHandle::startup_state
  players,       \* media players that exist in the legacy backend
  worker,        \* what each handle's startup worker is doing
  pc,            \* where each host or runtime thread is
  call,          \* the API call it is making
  owned          \* engine_destroy's local owned_media

vars == <<registered, mediaOwner, registryLock, handleLock, allocated, backend,
          runtime, legacy, hostMedia, joinable, startup, players, worker, pc,
          call, owned>>

Threads == Hosts \cup Handles

NoCall == [op |-> "none", h |-> None, m |-> None]

Calls == [op : AllOps \cup {"none"}, h : Handles \cup {None}, m : Media \cup {None}]

\* Where a thread is between two calls.
Rest(t) == IF t \in Hosts THEN "idle" ELSE "running"

Init == /\ registered = {}
        /\ mediaOwner = [m \in Media |-> None]
        /\ registryLock = None
        /\ handleLock = [h \in Handles |-> None]
        /\ allocated = {}
        /\ backend = [h \in Handles |-> "undecided"]
        /\ runtime = [h \in Handles |-> "none"]
        /\ legacy = {}
        /\ hostMedia = [h \in Handles |-> {}]
        /\ joinable = {}
        /\ startup = [h \in Handles |-> "idle"]
        /\ players = {}
        /\ worker = [h \in Handles |-> "off"]
        /\ pc = [t \in Threads |-> IF t \in Hosts THEN "idle" ELSE "off"]
        /\ call = [t \in Threads |-> NoCall]
        /\ owned = [t \in Hosts |-> {}]

-----------------------------------------------------------------------------
(* Helpers of the actions. *)

GoTo(t, at) == pc' = [pc EXCEPT ![t] = at]

\* The lock_guards of an API call unlock as it returns.
Return(t) == /\ registryLock' = None
             /\ handleLock' = [handleLock EXCEPT ![call[t].h] = None]
             /\ GoTo(t, Rest(t))
             /\ call' = [call EXCEPT ![t] = NoCall]

\* EnsureLegacyLocked: the legacy backend exists afterwards, or is refused
\* (no services installed, or their create failed).
EnsureLegacy(h) == legacy' = legacy \cup {h}

\* The media players that handle h answers for.
PlayersOf(h) == hostMedia[h] \cup {m \in Media : mediaOwner[m] = h}

\* What ValidateHandleLocked checks: the caller's handle, or for a media call
\* the handle that RouteMedia finds to own the player.
Target(t) == IF call[t].op \in MediaOps
             THEN mediaOwner[call[t].m] ELSE call[t].h

-----------------------------------------------------------------------------
(* Creating a handle and entering a call. *)

\* engine_create: a new object at a free address, published under the registry.
Create(t, h) ==
  /\ pc[t] = "idle"
  /\ registryLock = None
  /\ h \notin allocated
  /\ allocated' = allocated \cup {h}
  /\ registered' = registered \cup {h}
  /\ backend' = [backend EXCEPT ![h] = "undecided"]
  /\ startup' = [startup EXCEPT ![h] = "idle"]
  /\ UNCHANGED <<mediaOwner, registryLock, handleLock, runtime, legacy, hostMedia,
                 joinable, players, worker, pc, call, owned>>

\* A thread starts an API call with any handle or player value it may still
\* hold, stale ones included, and waits for the registry.
Call(t, op, h, m) ==
  /\ pc[t] = Rest(t)
  /\ GoTo(t, "registry")
  /\ call' = [call EXCEPT ![t] = [op |-> op, h |-> h, m |-> m]]
  /\ UNCHANGED <<registered, mediaOwner, registryLock, handleLock, allocated, backend,
                 runtime, legacy, hostMedia, joinable, startup, players, worker, owned>>

HostCall(t) ==
  \/ \E op \in HostOps \ MediaOps, h \in Handles : Call(t, op, h, None)
  \/ \E op \in HostOps \cap MediaOps, m \in Media : Call(t, op, None, m)

RuntimeCall(h) ==
  \/ \E op \in RuntimeOps \ MediaOps : Call(h, op, h, None)
  \/ \E op \in RuntimeOps \cap MediaOps, m \in Media : Call(h, op, None, m)

\* The registry mutex is taken and the handle found invalid or destroyed:
\* INVALID_ARGUMENT.
EnterRejected(t) ==
  /\ pc[t] = "registry"
  /\ registryLock = None
  /\ Target(t) \notin registered
  /\ GoTo(t, Rest(t))
  /\ call' = [call EXCEPT ![t] = NoCall]
  /\ UNCHANGED <<registered, mediaOwner, registryLock, handleLock, allocated, backend,
                 runtime, legacy, hostMedia, joinable, startup, players, worker, owned>>

\* The registry mutex is taken and held for the rest of the call.
EnterValidated(t) ==
  /\ pc[t] = "registry"
  /\ call[t].op # "destroy"
  /\ registryLock = None
  /\ Target(t) \in registered
  /\ registryLock' = t
  /\ GoTo(t, "mutex")
  /\ call' = [call EXCEPT ![t].h = Target(t)]
  /\ UNCHANGED <<registered, mediaOwner, handleLock, allocated, backend, runtime,
                 legacy, hostMedia, joinable, startup, players, worker, owned>>

LockHandle(t) ==
  /\ pc[t] = "mutex"
  /\ handleLock[call[t].h] = None
  /\ handleLock' = [handleLock EXCEPT ![call[t].h] = t]
  /\ GoTo(t, "body")
  /\ UNCHANGED <<registered, mediaOwner, registryLock, allocated, backend, runtime,
                 legacy, hostMedia, joinable, startup, players, worker, call, owned>>

-----------------------------------------------------------------------------
(* Opening a game. *)

\* Mutant: reopening does not look at the startup thread.
StartupThreadBusy_Never(h) == FALSE

\* engine_open_game and engine_open_game_async refuse while startup_thread is
\* joinable (INVALID_STATE).
StartupThreadBusy(h) == h \in joinable

Opening(t) == pc[t] = "body" /\ call[t].op \in {"open", "openAsync"}

OpenRefused(t) ==
  /\ Opening(t)
  /\ StartupThreadBusy(call[t].h)
  /\ Return(t)
  /\ UNCHANGED <<registered, mediaOwner, allocated, backend, runtime, legacy, hostMedia,
                 joinable, startup, players, worker, owned>>

\* SelectBackendLocked: the first opening decides the backend. A provider whose
\* create fails leaves it undecided; the KiriKiri backend is decided even when
\* EnsureLegacyLocked then fails.
SelectProvider(t) ==
  LET h == call[t].h IN
  /\ Opening(t)
  /\ ~ StartupThreadBusy(h)
  /\ backend[h] = "undecided"
  /\ \/ /\ backend' = [backend EXCEPT ![h] = "provider"]
        /\ runtime' = [runtime EXCEPT ![h] = "created"]
        /\ GoTo(t, "selected")
        /\ UNCHANGED <<registryLock, handleLock, call>>
     \/ /\ Return(t)
        /\ UNCHANGED <<backend, runtime>>
  /\ UNCHANGED <<registered, mediaOwner, allocated, legacy, hostMedia, joinable, startup,
                 players, worker, owned>>

SelectLegacy(t) ==
  LET h == call[t].h IN
  /\ Opening(t)
  /\ ~ StartupThreadBusy(h)
  /\ backend[h] = "undecided"
  /\ backend' = [backend EXCEPT ![h] = "legacy"]
  /\ \/ EnsureLegacy(h) /\ GoTo(t, "selected") /\ UNCHANGED <<registryLock, handleLock, call>>
     \/ UNCHANGED legacy /\ Return(t)
  /\ UNCHANGED <<registered, mediaOwner, allocated, runtime, hostMedia, joinable, startup,
                 players, worker, owned>>

AlreadySelected(t) ==
  /\ Opening(t)
  /\ ~ StartupThreadBusy(call[t].h)
  /\ backend[call[t].h] # "undecided"
  /\ GoTo(t, "selected")
  /\ UNCHANGED <<registered, mediaOwner, registryLock, handleLock, allocated, backend,
                 runtime, legacy, hostMedia, joinable, startup, players, worker, call, owned>>

\* EnsureLegacyLocked fails, or an option, the surface size, the beta gate or the
\* translation model is refused.
SelectedRefused(t) ==
  /\ pc[t] = "selected"
  /\ Return(t)
  /\ UNCHANGED <<registered, mediaOwner, allocated, backend, runtime, legacy, hostMedia,
                 joinable, startup, players, worker, owned>>

\* The KiriKiri backend opens the game itself.
OpenLegacy(t) ==
  /\ pc[t] = "selected"
  /\ backend[call[t].h] = "legacy"
  /\ EnsureLegacy(call[t].h)
  /\ Return(t)
  /\ UNCHANGED <<registered, mediaOwner, allocated, backend, runtime, hostMedia, joinable,
                 startup, players, worker, owned>>

\* engine_open_game: the provider's open_game runs under both mutexes.
OpenBegins(t) ==
  LET h == call[t].h IN
  /\ pc[t] = "selected"
  /\ call[t].op = "open"
  /\ backend[h] = "provider"
  /\ startup' = [startup EXCEPT ![h] = "running"]
  /\ GoTo(t, "opening")
  /\ UNCHANGED <<registered, mediaOwner, registryLock, handleLock, allocated, backend,
                 runtime, legacy, hostMedia, joinable, players, worker, call, owned>>

OpenReturns(t) ==
  /\ pc[t] = "opening"
  /\ \E outcome \in {"succeeded", "failed"} :
        startup' = [startup EXCEPT ![call[t].h] = outcome]
  /\ Return(t)
  /\ UNCHANGED <<registered, mediaOwner, allocated, backend, runtime, legacy, hostMedia,
                 joinable, players, worker, owned>>

\* Mutant: the catch block does not settle the startup state.
ThreadCreationThrows_StaysRunning(h) ==
  /\ startup' = [startup EXCEPT ![h] = "running"]
  /\ UNCHANGED <<joinable, worker>>

\* engine_open_game_async: the startup thread is created, or its creation throws.
ThreadCreationThrows(h) ==
  /\ startup' = [startup EXCEPT ![h] = "failed"]
  /\ UNCHANGED <<joinable, worker>>

OpenAsync(t) ==
  LET h == call[t].h IN
  /\ pc[t] = "selected"
  /\ call[t].op = "openAsync"
  /\ backend[h] = "provider"
  /\ \/ /\ startup' = [startup EXCEPT ![h] = "running"]
        /\ joinable' = joinable \cup {h}
        /\ worker' = [worker EXCEPT ![h] = "opening"]
     \/ ThreadCreationThrows(h)
  /\ Return(t)
  /\ UNCHANGED <<registered, mediaOwner, allocated, backend, runtime, legacy, hostMedia,
                 players, owned>>

\* The worker's RunProviderOpen returns; it holds no mutex.
WorkerReturns(h) ==
  /\ worker[h] = "opening"
  /\ worker' = [worker EXCEPT ![h] = "publishing"]
  /\ UNCHANGED <<registered, mediaOwner, registryLock, handleLock, allocated, backend, runtime,
                 legacy, hostMedia, joinable, startup, players, pc, call, owned>>

\* It then takes the handle's mutex to publish the outcome, and ends.
WorkerPublishes(h) ==
  /\ worker[h] = "publishing"
  /\ handleLock[h] = None
  /\ \E outcome \in {"succeeded", "failed"} :
        startup' = [startup EXCEPT ![h] = outcome]
  /\ worker' = [worker EXCEPT ![h] = "done"]
  /\ UNCHANGED <<registered, mediaOwner, registryLock, handleLock, allocated, backend, runtime,
                 legacy, hostMedia, joinable, players, pc, call, owned>>

-----------------------------------------------------------------------------
(* The other routed calls: tick, pause, resume, input, frames, options... *)

\* Without a selected provider a routed call creates and calls the legacy backend.
RouteLegacy(t) ==
  LET h == call[t].h IN
  /\ pc[t] = "body"
  /\ call[t].op = "route"
  /\ backend[h] # "provider"
  /\ EnsureLegacy(h) \/ UNCHANGED legacy
  /\ Return(t)
  /\ UNCHANGED <<registered, mediaOwner, allocated, backend, runtime, hostMedia, joinable,
                 startup, players, worker, owned>>

RouteProvider(t) ==
  /\ pc[t] = "body"
  /\ call[t].op = "route"
  /\ backend[call[t].h] = "provider"
  /\ GoTo(t, "inProvider")
  /\ UNCHANGED <<registered, mediaOwner, registryLock, handleLock, allocated, backend,
                 runtime, legacy, hostMedia, joinable, startup, players, worker, call, owned>>

ProviderReturns(t) ==
  /\ pc[t] = "inProvider"
  /\ Return(t)
  /\ UNCHANGED <<registered, mediaOwner, allocated, backend, runtime, legacy, hostMedia,
                 joinable, startup, players, worker, owned>>

-----------------------------------------------------------------------------
(* The public media API. *)

MediaOpen(t) ==
  LET h == call[t].h IN
  /\ pc[t] = "body"
  /\ call[t].op = "mediaOpen"
  /\ \/ /\ EnsureLegacy(h)
        /\ \E m \in Media \ players :
              /\ players' = players \cup {m}
              /\ mediaOwner' = [mediaOwner EXCEPT ![m] = h]
     \/ /\ EnsureLegacy(h) \/ UNCHANGED legacy
        /\ UNCHANGED <<players, mediaOwner>>
  /\ Return(t)
  /\ UNCHANGED <<registered, allocated, backend, runtime, hostMedia, joinable, startup,
                 worker, owned>>

\* RouteMedia: play, pause, seek, read a frame... run in the player for a while.
MediaUse(t) ==
  /\ pc[t] = "body"
  /\ call[t].op = "mediaUse"
  /\ GoTo(t, "inMedia")
  /\ UNCHANGED <<registered, mediaOwner, registryLock, handleLock, allocated, backend,
                 runtime, legacy, hostMedia, joinable, startup, players, worker, call, owned>>

MediaReturns(t) ==
  /\ pc[t] = "inMedia"
  /\ Return(t)
  /\ UNCHANGED <<registered, mediaOwner, allocated, backend, runtime, legacy, hostMedia,
                 joinable, startup, players, worker, owned>>

MediaDestroy(t) ==
  LET m == call[t].m IN
  /\ pc[t] = "body"
  /\ call[t].op = "mediaDestroy"
  /\ players' = players \ {m}
  /\ mediaOwner' = [mediaOwner EXCEPT ![m] = None]
  /\ Return(t)
  /\ UNCHANGED <<registered, allocated, backend, runtime, legacy, hostMedia, joinable,
                 startup, worker, owned>>

-----------------------------------------------------------------------------
(* Callbacks of a provider into its host. They take only the handle's mutex. *)

HostMediaOpen(h) ==
  \/ /\ EnsureLegacy(h)
     /\ \E m \in Media \ players :
           /\ players' = players \cup {m}
           /\ hostMedia' = [hostMedia EXCEPT ![h] = @ \cup {m}]
  \/ /\ EnsureLegacy(h) \/ UNCHANGED legacy
     /\ UNCHANGED <<players, hostMedia>>

HostMediaDestroy(h) ==
  /\ \E m \in hostMedia[h] :
        /\ players' = players \ {m}
        /\ hostMedia' = [hostMedia EXCEPT ![h] = @ \ {m}]
  /\ UNCHANGED legacy

\* HostLog, HostPlatformRequest and the other media calls change nothing here.
CallbackBody(h) == \/ HostMediaOpen(h)
                   \/ HostMediaDestroy(h)
                   \/ UNCHANGED <<players, hostMedia, legacy>>

\* A provider may start a thread of its own while it opens a game.
RuntimeThreadStarts(h) ==
  /\ pc[h] = "off"
  /\ worker[h] = "opening" \/ \E t \in Hosts : pc[t] = "opening" /\ call[t].h = h
  /\ GoTo(h, "running")
  /\ UNCHANGED <<registered, mediaOwner, registryLock, handleLock, allocated, backend, runtime,
                 legacy, hostMedia, joinable, startup, players, worker, call, owned>>

RuntimeCallsBack(h) ==
  /\ pc[h] = "running"
  /\ GoTo(h, "callback")
  /\ UNCHANGED <<registered, mediaOwner, registryLock, handleLock, allocated, backend, runtime,
                 legacy, hostMedia, joinable, startup, players, worker, call, owned>>

CallbackLocks(h) ==
  /\ pc[h] = "callback"
  /\ handleLock[h] = None
  /\ handleLock' = [handleLock EXCEPT ![h] = h]
  /\ GoTo(h, "inCallback")
  /\ UNCHANGED <<registered, mediaOwner, registryLock, allocated, backend, runtime, legacy,
                 hostMedia, joinable, startup, players, worker, call, owned>>

\* Mutant: a media callback also locks the registry, inside the handle's mutex.
CallbackReturns_NeedsRegistry(h) ==
  /\ pc[h] = "inCallback"
  /\ registryLock = None
  /\ CallbackBody(h)
  /\ handleLock' = [handleLock EXCEPT ![h] = None]
  /\ GoTo(h, "running")
  /\ UNCHANGED <<registered, mediaOwner, registryLock, allocated, backend, runtime, joinable,
                 startup, worker, call, owned>>

CallbackReturns(h) ==
  /\ pc[h] = "inCallback"
  /\ CallbackBody(h)
  /\ handleLock' = [handleLock EXCEPT ![h] = None]
  /\ GoTo(h, "running")
  /\ UNCHANGED <<registered, mediaOwner, registryLock, allocated, backend, runtime, joinable,
                 startup, worker, call, owned>>

\* Callbacks made by a thread that is inside a provider function: a host thread,
\* which already owns the recursive mutex; the startup worker; or the thread in
\* engine_destroy, whose provider->destroy may close the media it opened.
NestedCallback(h) ==
  /\ \/ \E t \in Hosts : pc[t] \in {"opening", "inProvider"} /\ call[t].h = h
     \/ worker[h] = "opening" /\ handleLock[h] = None
     \/ \E t \in Hosts : pc[t] = "stopping" /\ call[t].h = h /\ handleLock[h] = None
  /\ CallbackBody(h)
  /\ UNCHANGED <<registered, mediaOwner, registryLock, handleLock, allocated, backend, runtime,
                 joinable, startup, worker, pc, call, owned>>

\* The runtime's thread ends once its provider is being destroyed.
RuntimeThreadEnds(h) ==
  /\ pc[h] = "running"
  /\ runtime[h] = "stopping"
  /\ GoTo(h, "off")
  /\ UNCHANGED <<registered, mediaOwner, registryLock, handleLock, allocated, backend, runtime,
                 legacy, hostMedia, joinable, startup, players, worker, call, owned>>

-----------------------------------------------------------------------------
(* engine_destroy. *)

\* Mutant: the players a host opened are forgotten.
CollectMedia_Nothing(h) == {}

\* Under the registry mutex: the handle and its players leave both tables.
CollectMedia(h) == {m \in Media : mediaOwner[m] = h}

Unregister(t) ==
  LET h == call[t].h IN
  /\ pc[t] = "registry"
  /\ call[t].op = "destroy"
  /\ registryLock = None
  /\ h \in registered
  /\ owned' = [owned EXCEPT ![t] = CollectMedia(h)]
  /\ mediaOwner' = [m \in Media |-> IF mediaOwner[m] = h THEN None ELSE mediaOwner[m]]
  /\ registered' = registered \ {h}
  /\ GoTo(t, "takeThread")
  /\ UNCHANGED <<registryLock, handleLock, allocated, backend, runtime, legacy, hostMedia,
                 joinable, startup, players, worker, call>>

\* Under the handle's mutex: startup_thread is moved to a local.
TakeThread(t) ==
  LET h == call[t].h IN
  /\ pc[t] = "takeThread"
  /\ handleLock[h] = None
  /\ joinable' = joinable \ {h}
  /\ GoTo(t, IF h \in joinable THEN "join" ELSE "destroyRuntime")
  /\ UNCHANGED <<registered, mediaOwner, registryLock, handleLock, allocated, backend, runtime,
                 legacy, hostMedia, startup, players, worker, call, owned>>

Join(t) ==
  LET h == call[t].h IN
  /\ pc[t] = "join"
  /\ worker[h] = "done"
  /\ worker' = [worker EXCEPT ![h] = "off"]
  /\ GoTo(t, "destroyRuntime")
  /\ UNCHANGED <<registered, mediaOwner, registryLock, handleLock, allocated, backend, runtime,
                 legacy, hostMedia, joinable, startup, players, call, owned>>

\* provider->destroy stops and joins the runtime's own thread.
DestroyRuntime(t) ==
  LET h == call[t].h IN
  /\ pc[t] = "destroyRuntime"
  /\ IF runtime[h] = "created"
     THEN GoTo(t, "stopping") /\ runtime' = [runtime EXCEPT ![h] = "stopping"]
     ELSE GoTo(t, "releaseMedia") /\ UNCHANGED runtime
  /\ UNCHANGED <<registered, mediaOwner, registryLock, handleLock, allocated, backend, legacy,
                 hostMedia, joinable, startup, players, worker, call, owned>>

\* Mutant: provider->destroy does not wait for the runtime's thread.
RuntimeDestroyed_NoWait(t) ==
  LET h == call[t].h IN
  /\ pc[t] = "stopping"
  /\ runtime' = [runtime EXCEPT ![h] = "none"]
  /\ GoTo(t, "releaseMedia")
  /\ UNCHANGED <<registered, mediaOwner, registryLock, handleLock, allocated, backend, legacy,
                 hostMedia, joinable, startup, players, worker, call, owned>>

RuntimeDestroyed(t) ==
  LET h == call[t].h IN
  /\ pc[t] = "stopping"
  /\ pc[h] = "off"
  /\ runtime' = [runtime EXCEPT ![h] = "none"]
  /\ GoTo(t, "releaseMedia")
  /\ UNCHANGED <<registered, mediaOwner, registryLock, handleLock, allocated, backend, legacy,
                 hostMedia, joinable, startup, players, worker, call, owned>>

\* Both loops over media_destroy: the provider's players, then the public ones.
ReleaseMedia(t) ==
  LET h == call[t].h IN
  /\ pc[t] = "releaseMedia"
  /\ players' = players \ (hostMedia[h] \cup owned[t])
  /\ hostMedia' = [hostMedia EXCEPT ![h] = {}]
  /\ owned' = [owned EXCEPT ![t] = {}]
  /\ GoTo(t, "destroyLegacy")
  /\ UNCHANGED <<registered, mediaOwner, registryLock, handleLock, allocated, backend, runtime,
                 legacy, joinable, startup, worker, call>>

DestroyLegacy(t) ==
  /\ pc[t] = "destroyLegacy"
  /\ legacy' = legacy \ {call[t].h}
  /\ GoTo(t, "delete")
  /\ UNCHANGED <<registered, mediaOwner, registryLock, handleLock, allocated, backend, runtime,
                 hostMedia, joinable, startup, players, worker, call, owned>>

Delete(t) ==
  /\ pc[t] = "delete"
  /\ allocated' = allocated \ {call[t].h}
  /\ GoTo(t, "idle")
  /\ call' = [call EXCEPT ![t] = NoCall]
  /\ UNCHANGED <<registered, mediaOwner, registryLock, handleLock, backend, runtime, legacy,
                 hostMedia, joinable, startup, players, worker, owned>>

-----------------------------------------------------------------------------

\* Steps of a call by a host thread or, for the media API, a runtime's thread.
CallStep(t) ==
  \/ EnterRejected(t) \/ EnterValidated(t) \/ LockHandle(t)
  \/ MediaOpen(t) \/ MediaUse(t) \/ MediaReturns(t) \/ MediaDestroy(t)

OpenStep(t) ==
  \/ OpenRefused(t) \/ SelectProvider(t) \/ SelectLegacy(t) \/ AlreadySelected(t)
  \/ SelectedRefused(t) \/ OpenLegacy(t) \/ OpenBegins(t) \/ OpenReturns(t) \/ OpenAsync(t)

RouteStep(t) == RouteLegacy(t) \/ RouteProvider(t) \/ ProviderReturns(t)

DestroyStep(t) ==
  \/ Unregister(t) \/ TakeThread(t) \/ Join(t) \/ DestroyRuntime(t) \/ RuntimeDestroyed(t)
  \/ ReleaseMedia(t) \/ DestroyLegacy(t) \/ Delete(t)

RuntimeStep(h) ==
  \/ RuntimeThreadStarts(h) \/ RuntimeCall(h) \/ RuntimeCallsBack(h) \/ CallbackLocks(h)
  \/ CallbackReturns(h) \/ NestedCallback(h) \/ RuntimeThreadEnds(h)

Next ==
  \/ \E t \in Hosts : \/ \E h \in Handles : Create(t, h)
                      \/ HostCall(t) \/ OpenStep(t) \/ RouteStep(t) \/ DestroyStep(t)
  \/ \E t \in Threads : CallStep(t)
  \/ \E h \in Handles : WorkerReturns(h) \/ WorkerPublishes(h) \/ RuntimeStep(h)

Spec == Init /\ [][Next]_vars

-----------------------------------------------------------------------------
(* Properties. *)

HostPcs == {"idle", "registry", "mutex", "body", "selected", "opening", "inProvider",
            "inMedia", "takeThread", "join", "destroyRuntime", "stopping",
            "releaseMedia", "destroyLegacy", "delete"}
RuntimePcs == {"off", "running", "registry", "mutex", "body", "inMedia", "callback",
               "inCallback"}

\* The type invariant.
TypeOK ==
  /\ registered \subseteq Handles
  /\ mediaOwner \in [Media -> Handles \cup {None}]
  /\ registryLock \in Threads \cup {None}
  /\ handleLock \in [Handles -> Threads \cup {None}]
  /\ allocated \subseteq Handles
  /\ backend \in [Handles -> {"undecided", "legacy", "provider"}]
  /\ runtime \in [Handles -> {"none", "created", "stopping"}]
  /\ legacy \subseteq Handles
  /\ hostMedia \in [Handles -> SUBSET Media]
  /\ joinable \subseteq Handles
  /\ startup \in [Handles -> {"idle", "running", "succeeded", "failed"}]
  /\ players \subseteq Media
  /\ worker \in [Handles -> {"off", "opening", "publishing", "done"}]
  /\ pc \in [Threads -> HostPcs \cup RuntimePcs]
  /\ \A t \in Hosts : pc[t] \in HostPcs
  /\ \A h \in Handles : pc[h] \in RuntimePcs
  /\ call \in [Threads -> Calls]
  /\ owned \in [Hosts -> SUBSET Media]

\* The points of a call at which its handle's memory is about to be used.
CallPcs    == {"mutex", "body", "selected", "opening", "inProvider", "inMedia"}
DestroyPcs == {"takeThread", "join", "destroyRuntime", "stopping", "releaseMedia",
               "destroyLegacy", "delete"}

\* No thread ever uses a DispatchHandle that has been deleted: not a caller that
\* validated its handle before another thread destroyed it, not the startup
\* worker that captured the pointer, not the runtime's thread calling back with
\* it as user_data (engine_destroy deletes only after joining both).
HandleMemorySafe ==
  /\ \A t \in Threads : pc[t] \in CallPcs \cup DestroyPcs => call[t].h \in allocated
  /\ \A h \in Handles : worker[h] # "off" => h \in allocated
  /\ \A h \in Handles : pc[h] # "off" => h \in allocated

\* Calls into a provider's runtime happen only between its create and its
\* destroy: an opening under the locks, one on the startup worker, a routed call,
\* and the runtime's own thread ("created/destroyed exactly once by the host").
RuntimeUsedAlive ==
  /\ \A t \in Hosts : pc[t] \in {"opening", "inProvider"} => runtime[call[t].h] = "created"
  /\ \A h \in Handles : worker[h] = "opening" => runtime[h] = "created"
  /\ \A h \in Handles : pc[h] # "off" => runtime[h] # "none"

\* What is freed is not used: neither a handle nor a runtime.
NothingUsedAfterFree == HandleMemorySafe /\ RuntimeUsedAlive

\* A media call runs on a player that exists, and every player that exists is
\* in exactly one handle's charge, a handle whose legacy backend exists: no
\* player is leaked by, or outlives, engine_destroy.
PlayersInCharge ==
  /\ \A t \in Threads : pc[t] = "inMedia" => call[t].m \in players
  /\ \A m \in players : \E h \in legacy :
        LET inCharge(g) == m \in PlayersOf(g)
                           \/ \E t \in Hosts : call[t].h = g /\ m \in owned[t]
        IN inCharge(h) /\ \A g \in Handles \ {h} : ~ inCharge(g)

\* An opening of h is executing, or its outcome is not published yet.
OpeningInProgress(h) ==
  \/ worker[h] \in {"opening", "publishing"}
  \/ \E t \in Hosts : pc[t] = "opening" /\ call[t].h = h

\* A host polling the startup state sees RUNNING exactly while an opening is in
\* progress, and a provider never runs two openings of one runtime at once, with
\* synchronous and asynchronous opens mixed over several host threads.
StartupTruthful ==
  \A h \in Handles :
    /\ h \in allocated => (startup[h] = "running" <=> OpeningInProgress(h))
    /\ Cardinality({t \in Hosts : pc[t] = "opening" /\ call[t].h = h})
         + (IF worker[h] \in {"opening", "publishing"} THEN 1 ELSE 0) <= 1

\* The promise of engine_api.h, kept through every interleaving: see EngineLifecycle.
Promise == INSTANCE EngineLifecycle WITH
  phase   <- [h \in Handles |-> IF h \in registered THEN "live"
                                ELSE IF h \in allocated THEN "closing" ELSE "absent"],
  session <- startup,
  held    <- [h \in Handles |->
                 (IF runtime[h] # "none" THEN {"runtime"} ELSE {})
                 \cup (IF h \in legacy THEN {"legacy"} ELSE {})
                 \cup PlayersOf(h)
                 \cup UNION {IF call[t].h = h THEN owned[t] ELSE {} : t \in Hosts}]

KeepsPromise == Promise!Spec

-----------------------------------------------------------------------------
(* Fairness and liveness. *)

\* A thread inside a call keeps moving: provider functions return, and a mutex
\* that is freed again and again is eventually obtained by each thread waiting for
\* it. A runtime's thread eventually notices that it is being stopped. Nothing
\* obliges a host or a runtime to make a call.
HostProceeds(t)    == OpenStep(t) \/ RouteStep(t) \/ DestroyStep(t) \/ CallStep(t)
RuntimeProceeds(h) == CallStep(h) \/ CallbackLocks(h) \/ CallbackReturns(h)
WorkerProceeds(h)  == WorkerReturns(h) \/ WorkerPublishes(h)

Fairness ==
  /\ \A t \in Hosts : SF_vars(HostProceeds(t))
  /\ \A h \in Handles : /\ SF_vars(RuntimeProceeds(h))
                        /\ SF_vars(RuntimeThreadEnds(h))
                        /\ SF_vars(WorkerProceeds(h))

FairSpec == Spec /\ Fairness

\* engine_destroy returns: joining the worker and stopping the runtime never
\* wait for a thread that waits for a lock the destroyer holds.
DestroyCompletes == \A t \in Hosts : pc[t] = "takeThread" ~> pc[t] = "idle"

\* Every call gets through both mutexes and returns, whichever threads hold them,
\* and so does a destroy that has left the registry.
CallsReturn ==
  /\ \A t \in Hosts : pc[t] = "registry" ~> pc[t] = "idle"
  /\ DestroyCompletes

=============================================================================
