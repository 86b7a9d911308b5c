------------------------- MODULE EngineDispatchProofs -------------------------
(***************************************************************************)
(* Proofs about EngineDispatch for every set of host threads, handles and  *)
(* media players: the type invariant; that no thread ever uses a           *)
(* DispatchHandle that engine_destroy has deleted, nor a provider's        *)
(* runtime before its create or after its destroy; that the startup state  *)
(* is told truly and every player is in one handle's charge; and that the  *)
(* dispatcher keeps the promise of EngineLifecycle.                        *)
(***************************************************************************)
EXTENDS EngineDispatch, FiniteSetTheorems, TLAPS

-----------------------------------------------------------------------------
(* The inductive invariant. *)

\* A caller past validation owns the registry, so its handle stays registered.
CallsValidated ==
  \A t \in Threads : pc[t] \in CallPcs => registryLock = t /\ call[t].h \in registered

\* A destroyer has taken its handle out of the registry, alone, and has not
\* deleted it yet.
DestroyersOwn ==
  /\ \A t \in Hosts : pc[t] \in DestroyPcs => call[t].h \in allocated \ registered
  /\ \A s, t \in Hosts :
        pc[s] \in DestroyPcs /\ pc[t] \in DestroyPcs /\ call[s].h = call[t].h => s = t

\* Some destroyer of h has got as far as one of the points pcs.
DestroyerAt(h, pcs) == \E t \in Hosts : pc[t] \in pcs /\ call[t].h = h

\* A startup worker that exists has its std::thread in the handle, or in the local
\* of the destroyer that is joining it; the handle is registered, or its destroyer
\* has not taken the thread yet.
WorkersJoined ==
  /\ \A h \in Handles : worker[h] # "off" => h \in joinable \/ DestroyerAt(h, {"join"})
  /\ \A h \in joinable : h \in registered \/ DestroyerAt(h, {"takeThread"})

\* A runtime exists as long as a thread of its own runs, and is destroyed by the
\* destroyer of its handle, between the join and the release of the media.
BeforeRuntimeGone == {"takeThread", "join", "destroyRuntime", "stopping"}

RuntimesDestroyed ==
  /\ \A h \in Handles : pc[h] # "off" => runtime[h] # "none"
  /\ \A h \in Handles :
        runtime[h] # "none" => h \in registered \/ DestroyerAt(h, BeforeRuntimeGone)
  /\ \A h \in Handles : runtime[h] = "stopping" => DestroyerAt(h, {"stopping"})

\* Whoever calls into a runtime finds it created.
RuntimesCreated ==
  /\ \A h \in Handles : worker[h] = "opening" => runtime[h] = "created"
  /\ \A t \in Hosts : pc[t] \in {"opening", "inProvider"} => runtime[call[t].h] = "created"
  /\ \A h \in registered : backend[h] = "provider" => runtime[h] = "created"

IInv == /\ TypeOK
        /\ CallsValidated
        /\ registered \subseteq allocated
        /\ DestroyersOwn
        /\ WorkersJoined
        /\ RuntimesDestroyed
        /\ RuntimesCreated

-----------------------------------------------------------------------------
(* Type correctness. *)

\* What TypeOK says of the control state.
PcTyped   == /\ pc \in [Threads -> HostPcs \cup RuntimePcs]
             /\ \A t \in Hosts : pc[t] \in HostPcs
             /\ \A h \in Handles : pc[h] \in RuntimePcs
CallTyped == call \in [Threads -> Calls]
LockTyped == /\ registryLock \in Threads \cup {None}
             /\ handleLock \in [Handles -> Threads \cup {None}]

\* A thread moves to a program point of its kind.
LEMMA GoToTyped ==
  ASSUME PcTyped, NEW t \in Threads, NEW at, GoTo(t, at),
         t \in Hosts => at \in HostPcs, t \in Handles => at \in RuntimePcs
  PROVE  PcTyped'
BY ThreadAssumption DEF PcTyped, GoTo, Threads

\* Returning from a call leaves the control state and the locks well typed.
LEMMA ReturnTyped ==
  ASSUME TypeOK, NEW t \in Threads, Return(t)
  PROVE  PcTyped' /\ CallTyped' /\ LockTyped'
<1>1. PcTyped'
  <2>1. Rest(t) \in {"idle", "running"} /\ (t \in Hosts => Rest(t) = "idle")
        /\ (t \in Handles => Rest(t) = "running")
    BY ThreadAssumption DEF Rest
  <2>2. GoTo(t, Rest(t)) /\ PcTyped
    BY DEF Return, TypeOK, PcTyped
  <2>3. QED
    BY <2>1, <2>2, GoToTyped DEF HostPcs, RuntimePcs
<1>2. CallTyped'
  BY DEF Return, TypeOK, CallTyped, NoCall, Calls
<1>3. LockTyped'
  BY DEF Return, TypeOK, LockTyped
<1>4. QED
  BY <1>1, <1>2, <1>3

\* The steps of a call by any thread preserve the types.
LEMMA TypeCallStep ==
  ASSUME TypeOK, CallsValidated, NEW t \in Threads, CallStep(t)
  PROVE  TypeOK'
<1>a. PcTyped /\ CallTyped /\ LockTyped /\ call[t] \in Calls
  BY DEF TypeOK, PcTyped, CallTyped, LockTyped
<1>1. CASE EnterRejected(t)
  <2>1. PcTyped'
    BY <1>1, <1>a, GoToTyped, ThreadAssumption DEF EnterRejected, Rest, HostPcs, RuntimePcs
  <2>2. CallTyped'
    BY <1>1, <1>a DEF EnterRejected, CallTyped, Calls, NoCall
  <2>3. QED
    BY <1>1, <2>1, <2>2 DEF EnterRejected, TypeOK, PcTyped, CallTyped
<1>2. CASE EnterValidated(t)
  <2>1. PcTyped'
    BY <1>2, <1>a, GoToTyped, ThreadAssumption DEF EnterValidated, HostPcs, RuntimePcs
  <2>2. [call[t] EXCEPT !.h = Target(t)] \in Calls
    BY <1>2, <1>a DEF EnterValidated, Calls, TypeOK
  <2>3. CallTyped'
    BY <1>2, <1>a, <2>2 DEF EnterValidated, CallTyped
  <2>4. QED
    BY <1>2, <2>1, <2>3 DEF EnterValidated, TypeOK, PcTyped, CallTyped
<1>3. CASE LockHandle(t)
  BY <1>3 DEF LockHandle, GoTo, TypeOK, Threads, HostPcs, RuntimePcs
<1>4. CASE MediaOpen(t)
  <2>1. pc[t] = "body"
    BY <1>4 DEF MediaOpen
  <2>2. call[t].h \in Handles
    BY <2>1 DEF CallsValidated, CallPcs, TypeOK
  <2>3. legacy' \subseteq Handles /\ players' \subseteq Media
        /\ mediaOwner' \in [Media -> Handles \cup {None}]
    BY <1>4, <2>2 DEF MediaOpen, EnsureLegacy, TypeOK
  <2>4. QED
    BY <1>4, <2>3, ReturnTyped DEF MediaOpen, TypeOK, PcTyped, CallTyped, LockTyped
<1>5. CASE MediaUse(t)
  BY <1>5 DEF MediaUse, GoTo, TypeOK, Threads, HostPcs, RuntimePcs
<1>6. CASE MediaReturns(t)
  BY <1>6, ReturnTyped DEF MediaReturns, TypeOK, PcTyped, CallTyped, LockTyped
<1>7. CASE MediaDestroy(t)
  BY <1>7, ReturnTyped DEF MediaDestroy, TypeOK, PcTyped, CallTyped, LockTyped
<1>8. QED
  BY <1>1, <1>2, <1>3, <1>4, <1>5, <1>6, <1>7 DEF CallStep

\* The steps of opening a game preserve the types.
LEMMA TypeOpenStep ==
  ASSUME TypeOK, CallsValidated, NEW t \in Hosts, OpenStep(t)
  PROVE  TypeOK'
<1>a. t \in Threads /\ t \notin Handles
  BY ThreadAssumption DEF Threads
<1>b. pc[t] \in {"body", "selected", "opening"}
  BY DEF OpenStep, OpenRefused, SelectProvider, SelectLegacy, AlreadySelected, SelectedRefused,
         OpenLegacy, OpenBegins, OpenReturns, OpenAsync, Opening
<1>c. call[t].h \in Handles
  BY <1>a, <1>b DEF CallsValidated, CallPcs, TypeOK
<1>d. \A at \in HostPcs : GoTo(t, at) => PcTyped'
  BY <1>a, GoToTyped DEF TypeOK, PcTyped
<1> USE <1>a, <1>c DEF TypeOK
<1>1. CASE OpenRefused(t)
  BY <1>1, ReturnTyped DEF OpenRefused, PcTyped, CallTyped, LockTyped
<1>2. CASE SelectProvider(t)
  <2>1. CASE Return(t)
    BY <1>2, <2>1, ReturnTyped DEF SelectProvider, PcTyped, CallTyped, LockTyped
  <2>2. CASE GoTo(t, "selected")
    BY <1>2, <2>2, <1>d, ReturnTyped DEF SelectProvider, PcTyped, CallTyped, LockTyped, HostPcs
  <2>3. QED
    BY <1>2, <2>1, <2>2 DEF SelectProvider
<1>3. CASE SelectLegacy(t)
  <2>1. CASE Return(t)
    BY <1>3, <2>1, ReturnTyped DEF SelectLegacy, EnsureLegacy, PcTyped, CallTyped, LockTyped
  <2>2. CASE GoTo(t, "selected")
    BY <1>3, <2>2, <1>d, ReturnTyped
       DEF SelectLegacy, EnsureLegacy, PcTyped, CallTyped, LockTyped, HostPcs
  <2>3. QED
    BY <1>3, <2>1, <2>2 DEF SelectLegacy
<1>4. CASE AlreadySelected(t)
  BY <1>4, <1>d DEF AlreadySelected, PcTyped, HostPcs
<1>5. CASE SelectedRefused(t)
  BY <1>5, ReturnTyped DEF SelectedRefused, PcTyped, CallTyped, LockTyped
<1>6. CASE OpenLegacy(t)
  BY <1>6, ReturnTyped DEF OpenLegacy, EnsureLegacy, PcTyped, CallTyped, LockTyped
<1>7. CASE OpenBegins(t)
  BY <1>7, <1>d DEF OpenBegins, PcTyped, HostPcs
<1>8. CASE OpenReturns(t)
  BY <1>8, ReturnTyped DEF OpenReturns, PcTyped, CallTyped, LockTyped
<1>9. CASE OpenAsync(t)
  BY <1>9, ReturnTyped DEF OpenAsync, ThreadCreationThrows, PcTyped, CallTyped, LockTyped
<1>10. QED
  BY <1>1, <1>2, <1>3, <1>4, <1>5, <1>6, <1>7, <1>8, <1>9 DEF OpenStep

\* The steps of a routed call preserve the types.
LEMMA TypeRouteStep ==
  ASSUME TypeOK, CallsValidated, NEW t \in Hosts, RouteStep(t)
  PROVE  TypeOK'
<1>a. t \in Threads /\ t \notin Handles
  BY ThreadAssumption DEF Threads
<1>b. pc[t] \in {"body", "inProvider"}
  BY DEF RouteStep, RouteLegacy, RouteProvider, ProviderReturns
<1>c. call[t].h \in Handles
  BY <1>a, <1>b DEF CallsValidated, CallPcs, TypeOK
<1> USE <1>a, <1>c DEF TypeOK
<1>1. CASE RouteLegacy(t)
  BY <1>1, ReturnTyped DEF RouteLegacy, EnsureLegacy, PcTyped, CallTyped, LockTyped
<1>2. CASE RouteProvider(t)
  BY <1>2, GoToTyped DEF RouteProvider, PcTyped, HostPcs
<1>3. CASE ProviderReturns(t)
  BY <1>3, ReturnTyped DEF ProviderReturns, PcTyped, CallTyped, LockTyped
<1>4. QED
  BY <1>1, <1>2, <1>3 DEF RouteStep

\* The steps of engine_destroy preserve the types.
LEMMA TypeDestroyStep ==
  ASSUME TypeOK, NEW t \in Hosts, DestroyStep(t)
  PROVE  TypeOK'
<1>a. t \in Threads /\ t \notin Handles
  BY ThreadAssumption DEF Threads
<1>b. \A at \in HostPcs : GoTo(t, at) => PcTyped'
  BY <1>a, GoToTyped DEF TypeOK, PcTyped
<1> USE <1>a DEF TypeOK
<1>1. CASE Unregister(t)
  BY <1>1, <1>b DEF Unregister, CollectMedia, PcTyped, HostPcs
<1>2. CASE TakeThread(t)
  BY <1>2, <1>b DEF TakeThread, PcTyped, HostPcs
<1>3. CASE Join(t)
  BY <1>3, <1>b DEF Join, PcTyped, HostPcs
<1>4. CASE DestroyRuntime(t)
  BY <1>4, <1>b DEF DestroyRuntime, PcTyped, HostPcs
<1>5. CASE RuntimeDestroyed(t)
  BY <1>5, <1>b DEF RuntimeDestroyed, PcTyped, HostPcs
<1>6. CASE ReleaseMedia(t)
  BY <1>6, <1>b DEF ReleaseMedia, PcTyped, HostPcs
<1>7. CASE DestroyLegacy(t)
  BY <1>7, <1>b DEF DestroyLegacy, PcTyped, HostPcs
<1>8. CASE Delete(t)
  BY <1>8, <1>b DEF Delete, PcTyped, HostPcs, Calls, NoCall
<1>9. QED
  BY <1>1, <1>2, <1>3, <1>4, <1>5, <1>6, <1>7, <1>8 DEF DestroyStep

\* The steps of a startup worker, of a runtime's thread and of its callbacks
\* preserve the types.
LEMMA TypeRuntimeStep ==
  ASSUME TypeOK, NEW h \in Handles, WorkerReturns(h) \/ WorkerPublishes(h) \/ RuntimeStep(h)
  PROVE  TypeOK'
<1>a. h \in Threads /\ h \notin Hosts
  BY ThreadAssumption DEF Threads
<1>b. \A at \in RuntimePcs : GoTo(h, at) => PcTyped'
  BY <1>a, GoToTyped DEF TypeOK, PcTyped
<1>c. CallbackBody(h) => /\ legacy' \subseteq Handles /\ players' \subseteq Media
                         /\ hostMedia' \in [Handles -> SUBSET Media]
  BY DEF CallbackBody, HostMediaOpen, HostMediaDestroy, EnsureLegacy, TypeOK
<1> USE <1>a DEF TypeOK
<1>1. CASE WorkerReturns(h)
  BY <1>1 DEF WorkerReturns
<1>2. CASE WorkerPublishes(h)
  BY <1>2 DEF WorkerPublishes
<1>3. CASE RuntimeThreadStarts(h)
  BY <1>3, <1>b DEF RuntimeThreadStarts, PcTyped, RuntimePcs
<1>4. CASE RuntimeCall(h)
  <2>1. PICK op \in RuntimeOps, m \in Media \cup {None}, g \in Handles \cup {None} :
             Call(h, op, g, m)
    BY <1>4 DEF RuntimeCall
  <2>2. CallTyped'
    BY <2>1, OpsAssumption DEF Call, Calls, AllOps, MediaOps, CallTyped
  <2>3. QED
    BY <2>1, <2>2, <1>b DEF Call, PcTyped, CallTyped, RuntimePcs
<1>5. CASE RuntimeCallsBack(h)
  BY <1>5, <1>b DEF RuntimeCallsBack, PcTyped, RuntimePcs
<1>6. CASE CallbackLocks(h)
  BY <1>6, <1>b DEF CallbackLocks, PcTyped, RuntimePcs
<1>7. CASE CallbackReturns(h)
  BY <1>7, <1>b, <1>c DEF CallbackReturns, PcTyped, RuntimePcs
<1>8. CASE NestedCallback(h)
  BY <1>8, <1>c DEF NestedCallback
<1>9. CASE RuntimeThreadEnds(h)
  BY <1>9, <1>b DEF RuntimeThreadEnds, PcTyped, RuntimePcs
<1>10. QED
  BY <1>1, <1>2, <1>3, <1>4, <1>5, <1>6, <1>7, <1>8, <1>9 DEF RuntimeStep

\* Every step preserves the types.
LEMMA TypeNext == ASSUME TypeOK, CallsValidated, [Next]_vars PROVE TypeOK'
<1>1. ASSUME NEW t \in Hosts, NEW h \in Handles, Create(t, h) PROVE TypeOK'
  BY <1>1 DEF Create, TypeOK
<1>2. ASSUME NEW t \in Hosts, HostCall(t) PROVE TypeOK'
  <2>1. PICK op \in HostOps, m \in Media \cup {None}, g \in Handles \cup {None} :
             Call(t, op, g, m)
    BY <1>2 DEF HostCall
  <2>2. t \in Threads /\ PcTyped
    BY DEF Threads, TypeOK, PcTyped
  <2>3. PcTyped'
    BY <2>1, <2>2, GoToTyped, ThreadAssumption DEF Call, HostPcs, RuntimePcs
  <2>4. CallTyped'
    BY <2>1, <2>2, OpsAssumption DEF Call, Calls, AllOps, CallTyped, TypeOK
  <2>5. QED
    BY <2>1, <2>3, <2>4 DEF Call, TypeOK, PcTyped, CallTyped
<1>3. CASE UNCHANGED vars
  BY <1>3 DEF vars, TypeOK
<1>4. QED
  BY <1>1, <1>2, <1>3, TypeCallStep, TypeOpenStep, TypeRouteStep, TypeDestroyStep, TypeRuntimeStep
     DEF Next

-----------------------------------------------------------------------------
(* The inductive invariant is preserved. *)

\* What IInv says besides the types.
Owned == /\ CallsValidated
         /\ registered \subseteq allocated
         /\ DestroyersOwn
         /\ WorkersJoined
         /\ RuntimesDestroyed
         /\ RuntimesCreated

\* A step of one thread that is in no engine_destroy.
OutsideDestroy(t) == /\ pc[t] \notin DestroyPcs /\ pc'[t] \notin DestroyPcs
                     /\ \A s \in Threads \ {t} : pc'[s] = pc[s] /\ call'[s] = call[s]

\* Moreover, it creates and ends nothing.
Quiet(t) == /\ OutsideDestroy(t)
            /\ pc[t] = "off" => pc'[t] = "off"
            /\ UNCHANGED <<registered, allocated, joinable, worker, runtime>>

\* Destroyers stay where they are.
LEMMA DestroyersStay ==
  ASSUME NEW t \in Threads, OutsideDestroy(t)
  PROVE  \A h, pcs : pcs \subseteq DestroyPcs => (DestroyerAt(h, pcs)' <=> DestroyerAt(h, pcs))
BY DEF OutsideDestroy, DestroyerAt, Threads

\* They still own their handles.
LEMMA DestroyersOwnStill ==
  ASSUME IInv, NEW t \in Threads, OutsideDestroy(t), UNCHANGED <<registered, allocated>>
  PROVE  DestroyersOwn' /\ registered' \subseteq allocated'
BY DEF IInv, DestroyersOwn, OutsideDestroy, Threads

\* A quiet step disturbs nothing that destroyers and runtimes rely on.
LEMMA QuietStep ==
  ASSUME IInv, NEW t \in Threads, Quiet(t)
  PROVE  /\ registered' \subseteq allocated' /\ DestroyersOwn'
         /\ WorkersJoined' /\ RuntimesDestroyed'
<1> USE DEF IInv, Quiet, Threads
<1>1. \A h, pcs : pcs \subseteq DestroyPcs => (DestroyerAt(h, pcs)' <=> DestroyerAt(h, pcs))
  BY DestroyersStay
<1>2. registered' \subseteq allocated' /\ DestroyersOwn'
  BY DestroyersOwnStill
<1>3. WorkersJoined'
  BY <1>1 DEF WorkersJoined, DestroyPcs
<1>4. RuntimesDestroyed'
  BY <1>1 DEF RuntimesDestroyed, BeforeRuntimeGone, DestroyPcs, OutsideDestroy
<1>5. QED
  BY <1>2, <1>3, <1>4

\* Steps of a call by any thread.
LEMMA OwnedCallStep ==
  ASSUME IInv, TypeOK', NEW t \in Threads, CallStep(t)
  PROVE  Owned'
<1> USE ThreadAssumption DEF IInv, TypeOK, Threads, DestroyPcs
<1>1. CASE EnterRejected(t)
  <2>1. Quiet(t)
    BY <1>1 DEF EnterRejected, GoTo, Rest, Quiet, OutsideDestroy
  <2>2. CallsValidated' /\ RuntimesCreated'
    BY <1>1 DEF EnterRejected, GoTo, Rest, CallsValidated, RuntimesCreated, CallPcs
  <2>3. QED
    BY <2>1, <2>2, QuietStep DEF Owned
<1>2. CASE EnterValidated(t)
  <2>1. Quiet(t)
    BY <1>2 DEF EnterValidated, GoTo, Quiet, OutsideDestroy
  <2>2. CallsValidated' /\ RuntimesCreated'
    BY <1>2 DEF EnterValidated, GoTo, CallsValidated, RuntimesCreated, CallPcs
  <2>3. QED
    BY <2>1, <2>2, QuietStep DEF Owned
<1>3. CASE LockHandle(t)
  <2>1. Quiet(t)
    BY <1>3 DEF LockHandle, GoTo, Quiet, OutsideDestroy
  <2>2. CallsValidated' /\ RuntimesCreated'
    BY <1>3 DEF LockHandle, GoTo, CallsValidated, RuntimesCreated, CallPcs
  <2>3. QED
    BY <2>1, <2>2, QuietStep DEF Owned
<1>4. CASE MediaOpen(t)
  <2>1. Quiet(t)
    BY <1>4 DEF MediaOpen, Return, GoTo, Rest, Quiet, OutsideDestroy
  <2>2. CallsValidated' /\ RuntimesCreated'
    BY <1>4 DEF MediaOpen, Return, GoTo, Rest, CallsValidated, RuntimesCreated, CallPcs
  <2>3. QED
    BY <2>1, <2>2, QuietStep DEF Owned
<1>5. CASE MediaUse(t)
  <2>1. Quiet(t)
    BY <1>5 DEF MediaUse, GoTo, Quiet, OutsideDestroy
  <2>2. CallsValidated' /\ RuntimesCreated'
    BY <1>5 DEF MediaUse, GoTo, CallsValidated, RuntimesCreated, CallPcs
  <2>3. QED
    BY <2>1, <2>2, QuietStep DEF Owned
<1>6. CASE MediaReturns(t)
  <2>1. Quiet(t)
    BY <1>6 DEF MediaReturns, Return, GoTo, Rest, Quiet, OutsideDestroy
  <2>2. CallsValidated' /\ RuntimesCreated'
    BY <1>6 DEF MediaReturns, Return, GoTo, Rest, CallsValidated, RuntimesCreated, CallPcs
  <2>3. QED
    BY <2>1, <2>2, QuietStep DEF Owned
<1>7. CASE MediaDestroy(t)
  <2>1. Quiet(t)
    BY <1>7 DEF MediaDestroy, Return, GoTo, Rest, Quiet, OutsideDestroy
  <2>2. CallsValidated' /\ RuntimesCreated'
    BY <1>7 DEF MediaDestroy, Return, GoTo, Rest, CallsValidated, RuntimesCreated, CallPcs
  <2>3. QED
    BY <2>1, <2>2, QuietStep DEF Owned
<1>8. QED
  BY <1>1, <1>2, <1>3, <1>4, <1>5, <1>6, <1>7 DEF CallStep

\* Steps of opening a game. The runtime is created, and its startup worker started,
\* for a handle that is still registered.
LEMMA OwnedOpenStep ==
  ASSUME IInv, TypeOK', NEW t \in Hosts, OpenStep(t)
  PROVE  Owned'
<1>a. t \in Threads /\ t \notin Handles
  BY ThreadAssumption DEF Threads
<1>b. pc[t] \in {"body", "selected", "opening"}
  BY DEF OpenStep, OpenRefused, SelectProvider, SelectLegacy, AlreadySelected, SelectedRefused,
         OpenLegacy, OpenBegins, OpenReturns, OpenAsync, Opening
<1>c. call[t].h \in registered /\ call[t].h \in Handles /\ registryLock = t
  BY <1>a, <1>b DEF IInv, CallsValidated, CallPcs, TypeOK
<1> USE ThreadAssumption, <1>a, <1>c DEF IInv, TypeOK, Threads, DestroyPcs
<1>1. CASE OpenRefused(t)
  <2>1. Quiet(t)
    BY <1>1 DEF OpenRefused, Return, GoTo, Rest, Opening, Quiet, OutsideDestroy
  <2>2. CallsValidated' /\ RuntimesCreated'
    BY <1>1 DEF OpenRefused, Return, GoTo, Rest, Opening, CallsValidated, RuntimesCreated, CallPcs
  <2>3. QED
    BY <2>1, <2>2, QuietStep DEF Owned
<1>2. CASE SelectProvider(t)
  <2>1. OutsideDestroy(t) /\ UNCHANGED <<registered, allocated, joinable, worker>>
    BY <1>2 DEF SelectProvider, Return, GoTo, Rest, Opening, OutsideDestroy
  <2>2. CallsValidated'
    BY <1>2 DEF SelectProvider, Return, GoTo, Rest, Opening, CallsValidated, CallPcs
  <2>3. \A h \in Handles : \/ runtime'[h] = runtime[h]
                           \/ h \in registered /\ runtime'[h] = "created"
    BY <1>2 DEF SelectProvider
  <2>4. \A h, pcs : pcs \subseteq DestroyPcs => (DestroyerAt(h, pcs)' <=> DestroyerAt(h, pcs))
    BY <2>1, DestroyersStay
  <2>5. DestroyersOwn' /\ registered' \subseteq allocated'
    BY <2>1, DestroyersOwnStill
  <2>6. WorkersJoined'
    BY <2>1, <2>4 DEF WorkersJoined
  <2>7. \A h \in Handles : pc'[h] = pc[h]
    BY <2>1 DEF OutsideDestroy
  <2>8. RuntimesDestroyed'
    BY <2>1, <2>3, <2>4, <2>7 DEF RuntimesDestroyed, BeforeRuntimeGone
  <2>9. RuntimesCreated'
    <3>1. \A h \in Handles : runtime[h] = "created" => runtime'[h] = "created"
      BY <2>3
    <3>2. \A s \in Hosts : pc'[s] \in {"opening", "inProvider"} =>
             pc[s] = pc'[s] /\ call'[s] = call[s]
      BY <1>2, <2>1 DEF SelectProvider, Return, GoTo, Rest, OutsideDestroy
    <3>3. \A s \in Hosts : pc'[s] \in {"opening", "inProvider"} => call[s].h \in Handles
      BY <3>2 DEF CallsValidated, CallPcs
    <3>4. \A h \in registered : backend'[h] = "provider" => runtime'[h] = "created"
      BY <1>2, <3>1 DEF SelectProvider, RuntimesCreated
    <3>5. QED
      BY <2>1, <3>1, <3>2, <3>3, <3>4 DEF RuntimesCreated
  <2>10. QED
    BY <2>2, <2>5, <2>6, <2>8, <2>9 DEF Owned
<1>3. CASE SelectLegacy(t)
  <2>1. Quiet(t)
    <3>1. CASE Return(t)
      BY <1>3, <3>1 DEF SelectLegacy, Return, GoTo, Rest, Opening, Quiet, OutsideDestroy
    <3>2. CASE GoTo(t, "selected") /\ UNCHANGED call
      BY <1>3, <3>2 DEF SelectLegacy, GoTo, Opening, Quiet, OutsideDestroy
    <3>3. QED
      BY <1>3, <3>1, <3>2 DEF SelectLegacy
  <2>2. CallsValidated' /\ RuntimesCreated'
    BY <1>3
       DEF SelectLegacy, Return, GoTo, Rest, Opening, CallsValidated, RuntimesCreated, CallPcs
  <2>3. QED
    BY <2>1, <2>2, QuietStep DEF Owned
<1>4. CASE AlreadySelected(t)
  <2>1. Quiet(t)
    BY <1>4 DEF AlreadySelected, GoTo, Opening, Quiet, OutsideDestroy
  <2>2. CallsValidated' /\ RuntimesCreated'
    BY <1>4 DEF AlreadySelected, GoTo, Opening, CallsValidated, RuntimesCreated, CallPcs
  <2>3. QED
    BY <2>1, <2>2, QuietStep DEF Owned
<1>5. CASE SelectedRefused(t)
  <2>1. Quiet(t)
    BY <1>5 DEF SelectedRefused, Return, GoTo, Rest, Quiet, OutsideDestroy
  <2>2. CallsValidated' /\ RuntimesCreated'
    BY <1>5 DEF SelectedRefused, Return, GoTo, Rest, CallsValidated, RuntimesCreated, CallPcs
  <2>3. QED
    BY <2>1, <2>2, QuietStep DEF Owned
<1>6. CASE OpenLegacy(t)
  <2>1. Quiet(t)
    BY <1>6 DEF OpenLegacy, Return, GoTo, Rest, Quiet, OutsideDestroy
  <2>2. CallsValidated' /\ RuntimesCreated'
    BY <1>6 DEF OpenLegacy, Return, GoTo, Rest, CallsValidated, RuntimesCreated, CallPcs
  <2>3. QED
    BY <2>1, <2>2, QuietStep DEF Owned
<1>7. CASE OpenBegins(t)
  <2>1. Quiet(t)
    BY <1>7 DEF OpenBegins, GoTo, Quiet, OutsideDestroy
  <2>2. CallsValidated' /\ RuntimesCreated'
    BY <1>7 DEF OpenBegins, GoTo, CallsValidated, RuntimesCreated, CallPcs
  <2>3. QED
    BY <2>1, <2>2, QuietStep DEF Owned
<1>8. CASE OpenReturns(t)
  <2>1. Quiet(t)
    BY <1>8 DEF OpenReturns, Return, GoTo, Rest, Quiet, OutsideDestroy
  <2>2. CallsValidated' /\ RuntimesCreated'
    BY <1>8 DEF OpenReturns, Return, GoTo, Rest, CallsValidated, RuntimesCreated, CallPcs
  <2>3. QED
    BY <2>1, <2>2, QuietStep DEF Owned
<1>9. CASE OpenAsync(t)
  <2> DEFINE h == call[t].h
  <2>1. OutsideDestroy(t) /\ UNCHANGED <<registered, allocated, runtime, backend>>
    BY <1>9 DEF OpenAsync, Return, GoTo, Rest, OutsideDestroy
  <2>2. CallsValidated'
    BY <1>9 DEF OpenAsync, Return, GoTo, Rest, CallsValidated, CallPcs
  <2>3. runtime[h] = "created"
    BY <1>9 DEF OpenAsync, RuntimesCreated
  <2>4. CASE ThreadCreationThrows(h)
    <3>1. Quiet(t)
      BY <1>b, <2>1, <2>4 DEF ThreadCreationThrows, Quiet
    <3>2. RuntimesCreated'
      BY <1>9, <2>1, <2>4 DEF OpenAsync, Return, GoTo, Rest, ThreadCreationThrows, RuntimesCreated
    <3>3. QED
      BY <2>2, <3>1, <3>2, QuietStep DEF Owned
  <2>5. CASE joinable' = joinable \cup {h} /\ worker' = [worker EXCEPT ![h] = "opening"]
    <3>1. \A g, pcs : pcs \subseteq DestroyPcs => (DestroyerAt(g, pcs)' <=> DestroyerAt(g, pcs))
      BY <2>1, DestroyersStay
    <3>2. DestroyersOwn' /\ registered' \subseteq allocated'
      BY <2>1, DestroyersOwnStill
    <3>3. WorkersJoined'
      BY <2>1, <2>5, <3>1 DEF WorkersJoined
    <3>4. RuntimesDestroyed'
      BY <2>1, <3>1 DEF RuntimesDestroyed, BeforeRuntimeGone, OutsideDestroy
    <3>5. RuntimesCreated'
      BY <1>9, <2>1, <2>3, <2>5 DEF OpenAsync, Return, GoTo, Rest, RuntimesCreated
    <3>6. QED
      BY <2>2, <3>2, <3>3, <3>4, <3>5 DEF Owned
  <2>6. QED
    BY <1>9, <2>4, <2>5 DEF OpenAsync
<1>10. QED
  BY <1>1, <1>2, <1>3, <1>4, <1>5, <1>6, <1>7, <1>8, <1>9 DEF OpenStep

\* Steps of the other routed calls.
LEMMA OwnedRouteStep ==
  ASSUME IInv, TypeOK', NEW t \in Hosts, RouteStep(t)
  PROVE  Owned'
<1>a. t \in Threads /\ t \notin Handles
  BY ThreadAssumption DEF Threads
<1> USE ThreadAssumption, <1>a DEF IInv, TypeOK, Threads, DestroyPcs
<1>1. CASE RouteLegacy(t)
  <2>1. Quiet(t)
    BY <1>1 DEF RouteLegacy, Return, GoTo, Rest, Quiet, OutsideDestroy
  <2>2. CallsValidated' /\ RuntimesCreated'
    BY <1>1 DEF RouteLegacy, Return, GoTo, Rest, CallsValidated, RuntimesCreated, CallPcs
  <2>3. QED
    BY <2>1, <2>2, QuietStep DEF Owned
<1>2. CASE RouteProvider(t)
  <2>1. Quiet(t)
    BY <1>2 DEF RouteProvider, GoTo, Quiet, OutsideDestroy
  <2>2. CallsValidated' /\ RuntimesCreated'
    BY <1>2 DEF RouteProvider, GoTo, CallsValidated, RuntimesCreated, CallPcs
  <2>3. QED
    BY <2>1, <2>2, QuietStep DEF Owned
<1>3. CASE ProviderReturns(t)
  <2>1. Quiet(t)
    BY <1>3 DEF ProviderReturns, Return, GoTo, Rest, Quiet, OutsideDestroy
  <2>2. CallsValidated' /\ RuntimesCreated'
    BY <1>3 DEF ProviderReturns, Return, GoTo, Rest, CallsValidated, RuntimesCreated, CallPcs
  <2>3. QED
    BY <2>1, <2>2, QuietStep DEF Owned
<1>4. QED
  BY <1>1, <1>2, <1>3 DEF RouteStep

\* Steps of engine_destroy. A handle has one destroyer, which joins the startup worker
\* before it destroys the runtime, and deletes the handle last.
LEMMA OwnedDestroyStep ==
  ASSUME IInv, TypeOK', NEW t \in Hosts, DestroyStep(t)
  PROVE  Owned'
<1>a. t \in Threads /\ t \notin Handles
  BY ThreadAssumption DEF Threads
<1> USE ThreadAssumption, <1>a DEF IInv, TypeOK, Threads, DestroyPcs
<1>1. CASE Unregister(t)
  <2>1. CallsValidated'
    BY <1>1 DEF Unregister, GoTo, CallsValidated, CallPcs
  <2>2. registered' \subseteq allocated' /\ DestroyersOwn'
    BY <1>1 DEF Unregister, GoTo, DestroyersOwn
  <2>3. WorkersJoined'
    BY <1>1 DEF Unregister, GoTo, WorkersJoined, DestroyersOwn, DestroyerAt
  <2>4. RuntimesDestroyed'
    BY <1>1 DEF Unregister, GoTo, RuntimesDestroyed, DestroyersOwn, DestroyerAt, BeforeRuntimeGone
  <2>5. RuntimesCreated'
    BY <1>1 DEF Unregister, GoTo, RuntimesCreated
  <2>6. QED
    BY <2>1, <2>2, <2>3, <2>4, <2>5 DEF Owned
<1>2. CASE TakeThread(t)
  <2>1. CallsValidated'
    BY <1>2 DEF TakeThread, GoTo, CallsValidated, CallPcs
  <2>2. registered' \subseteq allocated' /\ DestroyersOwn'
    BY <1>2 DEF TakeThread, GoTo, DestroyersOwn
  <2>3. WorkersJoined'
    BY <1>2 DEF TakeThread, GoTo, WorkersJoined, DestroyersOwn, DestroyerAt
  <2>4. RuntimesDestroyed'
    BY <1>2 DEF TakeThread, GoTo, RuntimesDestroyed, DestroyersOwn, DestroyerAt, BeforeRuntimeGone
  <2>5. RuntimesCreated'
    BY <1>2 DEF TakeThread, GoTo, RuntimesCreated, CallsValidated, CallPcs
  <2>6. QED
    BY <2>1, <2>2, <2>3, <2>4, <2>5 DEF Owned
<1>3. CASE Join(t)
  <2>1. CallsValidated'
    BY <1>3 DEF Join, GoTo, CallsValidated, CallPcs
  <2>2. registered' \subseteq allocated' /\ DestroyersOwn'
    BY <1>3 DEF Join, GoTo, DestroyersOwn
  <2>3. WorkersJoined'
    BY <1>3 DEF Join, GoTo, WorkersJoined, DestroyersOwn, DestroyerAt
  <2>4. RuntimesDestroyed'
    BY <1>3 DEF Join, GoTo, RuntimesDestroyed, DestroyersOwn, DestroyerAt, BeforeRuntimeGone
  <2>5. RuntimesCreated'
    BY <1>3 DEF Join, GoTo, RuntimesCreated
  <2>6. QED
    BY <2>1, <2>2, <2>3, <2>4, <2>5 DEF Owned
<1>4. CASE DestroyRuntime(t)
  <2> DEFINE h == call[t].h
  <2>1. /\ pc[t] = "destroyRuntime" /\ pc'[t] \in {"stopping", "releaseMedia"}
        /\ \A s \in Threads \ {t} : pc'[s] = pc[s]
        /\ UNCHANGED <<registered, registryLock, allocated, backend, joinable, worker, call>>
    BY <1>4 DEF DestroyRuntime, GoTo
  <2>2. h \in allocated \ registered /\ h \in Handles
    BY <2>1 DEF DestroyersOwn
  <2>3. \A s \in Hosts : pc[s] \in DestroyPcs /\ call[s].h = h => pc[s] = "destroyRuntime"
    BY <2>1 DEF DestroyersOwn
  <2>4. worker[h] = "off" /\ h \notin joinable /\ runtime[h] # "stopping"
    <3>1. /\ ~ DestroyerAt(h, {"takeThread"}) /\ ~ DestroyerAt(h, {"join"})
          /\ ~ DestroyerAt(h, {"stopping"})
      BY <2>3 DEF DestroyerAt
    <3>2. QED
      BY <2>2, <3>1 DEF WorkersJoined, RuntimesDestroyed
  <2>5. CallsValidated'
    BY <2>1 DEF CallsValidated, CallPcs
  <2>6. DestroyersOwn' /\ registered' \subseteq allocated'
    BY <2>1 DEF DestroyersOwn
  <2>7. WorkersJoined'
    BY <2>1 DEF WorkersJoined, DestroyerAt
  <2>8. CASE runtime[h] = "created"
    <3>1. pc'[t] = "stopping" /\ runtime' = [runtime EXCEPT ![h] = "stopping"]
      BY <1>4, <2>8 DEF DestroyRuntime, GoTo
    <3>2. \A g \in Handles : runtime[g] = "none" <=> runtime'[g] = "none"
      BY <2>8, <3>1
    <3>3. DestroyerAt(h, {"stopping"})' /\ DestroyerAt(h, BeforeRuntimeGone)'
      BY <2>1, <3>1 DEF DestroyerAt, BeforeRuntimeGone
    <3>4. \A g \in Handles \ {h}, pcs \in SUBSET DestroyPcs :
             DestroyerAt(g, pcs)' <=> DestroyerAt(g, pcs)
      BY <2>1 DEF DestroyerAt
    <3>5. RuntimesDestroyed'
      BY <2>1, <2>2, <3>1, <3>2, <3>3, <3>4
         DEF RuntimesDestroyed, BeforeRuntimeGone, DestroyPcs
    <3>6. \A s \in Hosts : pc'[s] \in {"opening", "inProvider"} =>
             pc[s] = pc'[s] /\ call[s].h \in registered /\ call[s].h \in Handles
      BY <2>1 DEF CallsValidated, CallPcs
    <3>7. RuntimesCreated'
      BY <2>1, <2>2, <2>4, <3>1, <3>6 DEF RuntimesCreated
    <3>8. QED
      BY <2>5, <2>6, <2>7, <3>5, <3>7 DEF Owned
  <2>9. CASE runtime[h] = "none"
    <3>1. pc'[t] = "releaseMedia" /\ runtime' = runtime
      BY <1>4, <2>9 DEF DestroyRuntime, GoTo
    <3>2. \A g \in Handles \ {h}, pcs \in SUBSET DestroyPcs :
             DestroyerAt(g, pcs)' <=> DestroyerAt(g, pcs)
      BY <2>1 DEF DestroyerAt
    <3>3. RuntimesDestroyed'
      BY <2>1, <2>9, <3>1, <3>2 DEF RuntimesDestroyed, BeforeRuntimeGone, DestroyPcs
    <3>4. RuntimesCreated'
      BY <2>1, <3>1 DEF RuntimesCreated
    <3>5. QED
      BY <2>5, <2>6, <2>7, <3>3, <3>4 DEF Owned
  <2>10. QED
    BY <2>2, <2>4, <2>8, <2>9
<1>5. CASE RuntimeDestroyed(t)
  <2>1. CallsValidated'
    BY <1>5 DEF RuntimeDestroyed, GoTo, CallsValidated, CallPcs
  <2>2. registered' \subseteq allocated' /\ DestroyersOwn'
    BY <1>5 DEF RuntimeDestroyed, GoTo, DestroyersOwn
  <2>3. WorkersJoined'
    BY <1>5 DEF RuntimeDestroyed, GoTo, WorkersJoined, DestroyersOwn, DestroyerAt
  <2>4. RuntimesDestroyed'
    BY <1>5
       DEF RuntimeDestroyed, GoTo, RuntimesDestroyed,
           DestroyersOwn, DestroyerAt, BeforeRuntimeGone
  <2>5. RuntimesCreated'
    BY <1>5
       DEF RuntimeDestroyed, GoTo, RuntimesCreated, RuntimesDestroyed,
           WorkersJoined, DestroyersOwn, DestroyerAt, CallsValidated, CallPcs
  <2>6. QED
    BY <2>1, <2>2, <2>3, <2>4, <2>5 DEF Owned
<1>6. CASE ReleaseMedia(t)
  <2>1. CallsValidated'
    BY <1>6 DEF ReleaseMedia, GoTo, CallsValidated, CallPcs
  <2>2. registered' \subseteq allocated' /\ DestroyersOwn'
    BY <1>6 DEF ReleaseMedia, GoTo, DestroyersOwn
  <2>3. WorkersJoined'
    BY <1>6 DEF ReleaseMedia, GoTo, WorkersJoined, DestroyersOwn, DestroyerAt
  <2>4. RuntimesDestroyed'
    BY <1>6
       DEF ReleaseMedia, GoTo, RuntimesDestroyed, DestroyersOwn, DestroyerAt, BeforeRuntimeGone
  <2>5. RuntimesCreated'
    BY <1>6 DEF ReleaseMedia, GoTo, RuntimesCreated
  <2>6. QED
    BY <2>1, <2>2, <2>3, <2>4, <2>5 DEF Owned
<1>7. CASE DestroyLegacy(t)
  <2>1. CallsValidated'
    BY <1>7 DEF DestroyLegacy, GoTo, CallsValidated, CallPcs
  <2>2. registered' \subseteq allocated' /\ DestroyersOwn'
    BY <1>7 DEF DestroyLegacy, GoTo, DestroyersOwn
  <2>3. WorkersJoined'
    BY <1>7 DEF DestroyLegacy, GoTo, WorkersJoined, DestroyersOwn, DestroyerAt
  <2>4. RuntimesDestroyed'
    BY <1>7
       DEF DestroyLegacy, GoTo, RuntimesDestroyed, DestroyersOwn, DestroyerAt, BeforeRuntimeGone
  <2>5. RuntimesCreated'
    BY <1>7 DEF DestroyLegacy, GoTo, RuntimesCreated
  <2>6. QED
    BY <2>1, <2>2, <2>3, <2>4, <2>5 DEF Owned
<1>8. CASE Delete(t)
  <2>1. CallsValidated'
    BY <1>8 DEF Delete, GoTo, NoCall, CallsValidated, CallPcs
  <2>2. registered' \subseteq allocated' /\ DestroyersOwn'
    BY <1>8 DEF Delete, GoTo, NoCall, DestroyersOwn
  <2>3. WorkersJoined'
    BY <1>8 DEF Delete, GoTo, NoCall, WorkersJoined, DestroyersOwn, DestroyerAt
  <2>4. RuntimesDestroyed'
    BY <1>8
       DEF Delete, GoTo, NoCall, RuntimesDestroyed, DestroyersOwn, DestroyerAt, BeforeRuntimeGone
  <2>5. RuntimesCreated'
    BY <1>8 DEF Delete, GoTo, NoCall, RuntimesCreated
  <2>6. QED
    BY <2>1, <2>2, <2>3, <2>4, <2>5 DEF Owned
<1>9. QED
  BY <1>1, <1>2, <1>3, <1>4, <1>5, <1>6, <1>7, <1>8 DEF DestroyStep

\* Steps of a startup worker, of a runtime's thread and of its callbacks. The thread
\* starts while the runtime is created and ends before the runtime is gone.
LEMMA OwnedRuntimeStep ==
  ASSUME IInv, TypeOK', NEW h \in Handles,
         WorkerReturns(h) \/ WorkerPublishes(h) \/ RuntimeStep(h)
  PROVE  Owned'
<1>a. h \in Threads /\ h \notin Hosts
  BY ThreadAssumption DEF Threads
<1> USE ThreadAssumption, <1>a DEF IInv, TypeOK, Threads, DestroyPcs
<1>1. CASE WorkerReturns(h)
  <2>1. CallsValidated'
    BY <1>1 DEF WorkerReturns, CallsValidated, CallPcs
  <2>2. registered' \subseteq allocated' /\ DestroyersOwn'
    BY <1>1 DEF WorkerReturns, DestroyersOwn
  <2>3. WorkersJoined'
    BY <1>1 DEF WorkerReturns, WorkersJoined, DestroyersOwn, DestroyerAt
  <2>4. RuntimesDestroyed'
    BY <1>1 DEF WorkerReturns, RuntimesDestroyed, DestroyersOwn, DestroyerAt, BeforeRuntimeGone
  <2>5. RuntimesCreated'
    BY <1>1 DEF WorkerReturns, RuntimesCreated
  <2>6. QED
    BY <2>1, <2>2, <2>3, <2>4, <2>5 DEF Owned
<1>2. CASE WorkerPublishes(h)
  <2>1. CallsValidated'
    BY <1>2 DEF WorkerPublishes, CallsValidated, CallPcs
  <2>2. registered' \subseteq allocated' /\ DestroyersOwn'
    BY <1>2 DEF WorkerPublishes, DestroyersOwn
  <2>3. WorkersJoined'
    BY <1>2 DEF WorkerPublishes, WorkersJoined, DestroyersOwn, DestroyerAt
  <2>4. RuntimesDestroyed'
    BY <1>2 DEF WorkerPublishes, RuntimesDestroyed, DestroyersOwn, DestroyerAt, BeforeRuntimeGone
  <2>5. RuntimesCreated'
    BY <1>2 DEF WorkerPublishes, RuntimesCreated
  <2>6. QED
    BY <2>1, <2>2, <2>3, <2>4, <2>5 DEF Owned
<1>3. CASE RuntimeThreadStarts(h)
  <2>1. CallsValidated'
    BY <1>3 DEF RuntimeThreadStarts, GoTo, CallsValidated, CallPcs
  <2>2. registered' \subseteq allocated' /\ DestroyersOwn'
    BY <1>3 DEF RuntimeThreadStarts, GoTo, DestroyersOwn
  <2>3. WorkersJoined'
    BY <1>3 DEF RuntimeThreadStarts, GoTo, WorkersJoined, DestroyersOwn, DestroyerAt
  <2>4. RuntimesDestroyed'
    <3>1. runtime[h] = "created"
      BY <1>3 DEF RuntimeThreadStarts, RuntimesCreated
    <3>2. \A g \in Handles : pc'[g] # "off" => runtime[g] # "none"
      BY <1>3, <3>1 DEF RuntimeThreadStarts, GoTo, RuntimesDestroyed
    <3>3. QED
      BY <1>3, <3>2 DEF RuntimeThreadStarts, GoTo, RuntimesDestroyed, DestroyerAt
  <2>5. RuntimesCreated'
    BY <1>3 DEF RuntimeThreadStarts, GoTo, RuntimesCreated
  <2>6. QED
    BY <2>1, <2>2, <2>3, <2>4, <2>5 DEF Owned
<1>4. CASE RuntimeCall(h)
  <2>1. PICK op \in RuntimeOps, m \in Media \cup {None}, g \in Handles \cup {None} :
             Call(h, op, g, m)
    BY <1>4 DEF RuntimeCall
  <2>2. Quiet(h)
    BY <2>1 DEF Call, GoTo, Rest, Quiet, OutsideDestroy
  <2>3. CallsValidated' /\ RuntimesCreated'
    BY <2>1 DEF Call, GoTo, Rest, CallsValidated, RuntimesCreated, CallPcs
  <2>4. QED
    BY <2>2, <2>3, QuietStep DEF Owned
<1>5. CASE RuntimeCallsBack(h)
  <2>1. Quiet(h)
    BY <1>5 DEF RuntimeCallsBack, GoTo, Quiet, OutsideDestroy
  <2>2. CallsValidated' /\ RuntimesCreated'
    BY <1>5 DEF RuntimeCallsBack, GoTo, CallsValidated, RuntimesCreated, CallPcs
  <2>3. QED
    BY <2>1, <2>2, QuietStep DEF Owned
<1>6. CASE CallbackLocks(h)
  <2>1. Quiet(h)
    BY <1>6 DEF CallbackLocks, GoTo, Quiet, OutsideDestroy
  <2>2. CallsValidated' /\ RuntimesCreated'
    BY <1>6 DEF CallbackLocks, GoTo, CallsValidated, RuntimesCreated, CallPcs
  <2>3. QED
    BY <2>1, <2>2, QuietStep DEF Owned
<1>7. CASE CallbackReturns(h)
  <2>1. Quiet(h)
    BY <1>7 DEF CallbackReturns, GoTo, Quiet, OutsideDestroy
  <2>2. CallsValidated' /\ RuntimesCreated'
    BY <1>7 DEF CallbackReturns, GoTo, CallsValidated, RuntimesCreated, CallPcs
  <2>3. QED
    BY <2>1, <2>2, QuietStep DEF Owned
<1>8. CASE NestedCallback(h)
  <2>1. Quiet(h)
    BY <1>8 DEF NestedCallback, Quiet, OutsideDestroy, RuntimePcs
  <2>2. CallsValidated' /\ RuntimesCreated'
    BY <1>8 DEF NestedCallback, CallsValidated, RuntimesCreated, CallPcs
  <2>3. QED
    BY <2>1, <2>2, QuietStep DEF Owned
<1>9. CASE RuntimeThreadEnds(h)
  <2>1. CallsValidated'
    BY <1>9 DEF RuntimeThreadEnds, GoTo, CallsValidated, CallPcs
  <2>2. registered' \subseteq allocated' /\ DestroyersOwn'
    BY <1>9 DEF RuntimeThreadEnds, GoTo, DestroyersOwn
  <2>3. WorkersJoined'
    BY <1>9 DEF RuntimeThreadEnds, GoTo, WorkersJoined, DestroyersOwn, DestroyerAt
  <2>4. RuntimesDestroyed'
    BY <1>9
       DEF RuntimeThreadEnds, GoTo, RuntimesDestroyed,
           DestroyersOwn, DestroyerAt, BeforeRuntimeGone
  <2>5. RuntimesCreated'
    BY <1>9 DEF RuntimeThreadEnds, GoTo, RuntimesCreated
  <2>6. QED
    BY <2>1, <2>2, <2>3, <2>4, <2>5 DEF Owned
<1>10. QED
  BY <1>1, <1>2, <1>3, <1>4, <1>5, <1>6, <1>7, <1>8, <1>9 DEF RuntimeStep

\* Every step preserves the inductive invariant.
LEMMA OwnedNext == ASSUME IInv, TypeOK', [Next]_vars PROVE Owned'
<1> USE ThreadAssumption DEF IInv, TypeOK, Threads, DestroyPcs
<1>1. ASSUME NEW t \in Hosts, NEW h \in Handles, Create(t, h) PROVE Owned'
  <2>1. CallsValidated'
    BY <1>1 DEF Create, CallsValidated, CallPcs
  <2>2. registered' \subseteq allocated' /\ DestroyersOwn'
    BY <1>1 DEF Create, DestroyersOwn
  <2>3. WorkersJoined'
    BY <1>1 DEF Create, WorkersJoined, DestroyersOwn, DestroyerAt
  <2>4. RuntimesDestroyed'
    BY <1>1 DEF Create, RuntimesDestroyed, DestroyersOwn, DestroyerAt, BeforeRuntimeGone
  <2>5. RuntimesCreated'
    BY <1>1 DEF Create, RuntimesCreated, CallsValidated, CallPcs
  <2>6. QED
    BY <2>1, <2>2, <2>3, <2>4, <2>5 DEF Owned
<1>2. ASSUME NEW t \in Hosts, HostCall(t) PROVE Owned'
  <2>1. PICK op \in HostOps, m \in Media \cup {None}, g \in Handles \cup {None} :
             Call(t, op, g, m)
    BY <1>2 DEF HostCall
  <2>2. Quiet(t)
    BY <2>1 DEF Call, GoTo, Rest, Quiet, OutsideDestroy
  <2>3. CallsValidated' /\ RuntimesCreated'
    BY <2>1 DEF Call, GoTo, Rest, CallsValidated, RuntimesCreated, CallPcs
  <2>4. QED
    BY <2>2, <2>3, QuietStep DEF Owned
<1>3. CASE UNCHANGED vars
  BY <1>3 DEF vars, Owned, CallsValidated, DestroyersOwn, WorkersJoined, RuntimesDestroyed,
     RuntimesCreated, DestroyerAt, CallPcs
<1>4. QED
  BY <1>1, <1>2, <1>3, OwnedCallStep, OwnedOpenStep, OwnedRouteStep, OwnedDestroyStep,
     OwnedRuntimeStep
     DEF Next

-----------------------------------------------------------------------------
(* The theorems. *)

\* Initially no handle, worker or runtime exists.
LEMMA InitIInv == Init => IInv
<1> SUFFICES ASSUME Init PROVE IInv
  OBVIOUS
<1>1. TypeOK
  BY ThreadAssumption DEF Init, TypeOK, Threads, Calls, NoCall, HostPcs, RuntimePcs
<1>2. \A t \in Threads : pc[t] \in {"idle", "off"} /\ (t \in Hosts => pc[t] = "idle")
                         /\ (t \in Handles => pc[t] = "off")
  BY ThreadAssumption DEF Init, Threads
<1>3. CallsValidated /\ DestroyersOwn
  BY <1>2 DEF CallsValidated, DestroyersOwn, CallPcs, DestroyPcs, Threads
<1>4. WorkersJoined /\ RuntimesDestroyed /\ RuntimesCreated /\ registered \subseteq allocated
  BY <1>2 DEF Init, WorkersJoined, RuntimesDestroyed, RuntimesCreated, Threads
<1>5. QED
  BY <1>1, <1>3, <1>4 DEF IInv

\* The inductive invariant holds in every reachable state.
THEOREM Inductive == Spec => []IInv
<1>1. IInv /\ [Next]_vars => IInv'
  <2>1. ASSUME IInv, [Next]_vars PROVE TypeOK'
    BY <2>1, TypeNext DEF IInv
  <2>2. ASSUME IInv, [Next]_vars PROVE IInv'
    BY <2>1, <2>2, OwnedNext DEF IInv, Owned
  <2>3. QED
    BY <2>2
<1>2. QED
  BY InitIInv, <1>1, PTL DEF Spec

\* Every reachable state is well typed.
THEOREM TypeCorrect == Spec => []TypeOK
<1>1. IInv => TypeOK
  BY DEF IInv
<1>2. QED
  BY <1>1, Inductive, PTL

\* No thread uses a deleted DispatchHandle, for any number of host threads,
\* handles and runtimes.
THEOREM MemorySafe == Spec => []HandleMemorySafe
<1>1. IInv => HandleMemorySafe
  <2> SUFFICES ASSUME IInv PROVE HandleMemorySafe
    OBVIOUS
  <2> USE DEF IInv
  <2>1. \A h \in Handles : DestroyerAt(h, DestroyPcs) => h \in allocated
    BY DEF DestroyerAt, DestroyersOwn
  <2>2. \A t \in Threads : pc[t] \in CallPcs \cup DestroyPcs => call[t].h \in allocated
    BY DEF CallsValidated, DestroyersOwn, Threads, TypeOK, DestroyPcs, RuntimePcs
  <2>3. \A h \in Handles : worker[h] # "off" => h \in allocated
    BY <2>1 DEF WorkersJoined, DestroyerAt, DestroyPcs, TypeOK
  <2>4. \A h \in Handles : pc[h] # "off" => h \in allocated
    BY <2>1 DEF RuntimesDestroyed, DestroyerAt, BeforeRuntimeGone, DestroyPcs
  <2>5. QED
    BY <2>2, <2>3, <2>4 DEF HandleMemorySafe
<1>2. QED
  BY <1>1, Inductive, PTL

\* A provider's runtime is called only between its create and its destroy.
THEOREM RuntimeSafe == Spec => []RuntimeUsedAlive
<1>1. IInv => RuntimeUsedAlive
  BY DEF IInv, RuntimesCreated, RuntimesDestroyed, RuntimeUsedAlive
<1>2. QED
  BY <1>1, Inductive, PTL

\* engine_destroy frees nothing that is still used, neither the handle nor its runtime.
THEOREM NothingFreedIsUsed == Spec => []NothingUsedAfterFree
  BY MemorySafe, RuntimeSafe, PTL DEF NothingUsedAfterFree

-----------------------------------------------------------------------------
(* Openings and players: what has to be added to the inductive invariant. *)

\* The points of engine_destroy at which the handle may still answer for players,
\* and those at which it may still have its legacy backend.
Releasing  == {"takeThread", "join", "destroyRuntime", "stopping", "releaseMedia"}
Unfinished == Releasing \cup {"destroyLegacy"}

\* Who has passed the check of the startup thread keeps the registry, so that no
\* other call starts one.
OpenersAlone ==
  \A t \in Hosts : pc[t] \in {"selected", "opening"} => call[t].h \notin joinable

\* The startup state of a handle that exists is RUNNING while an opening is.
StatesTold ==
  \A h \in allocated : startup[h] = "running" <=> OpeningInProgress(h)

\* A media call names a player, and past validation the handle that owns it.
MediaCall(t) ==
  /\ call[t].op \in MediaOps => call[t].m \in Media
  /\ pc[t] \in {"mutex", "body", "inMedia"} /\ call[t].op \in MediaOps =>
        mediaOwner[call[t].m] = call[t].h
  /\ pc[t] = "inMedia" => call[t].op \in MediaOps

MediaCalls == \A t \in Threads : MediaCall(t)

\* A player opened through the public API exists and has a registered owner.
PublicPlayers ==
  \A m \in Media : mediaOwner[m] # None =>
     m \in players /\ mediaOwner[m] \in registered /\ mediaOwner[m] \in legacy

\* A player opened by a provider exists, is its handle's alone, and that handle has
\* not released its players yet.
HostPlayers ==
  \A h \in Handles, m \in Media : m \in hostMedia[h] =>
     /\ m \in players /\ h \in legacy /\ mediaOwner[m] = None
     /\ h \in registered \/ DestroyerAt(h, Releasing)
     /\ \A g \in Handles : m \in hostMedia[g] => g = h

\* So is a player in the hands of the destroyer of its handle.
OwnedPlayers ==
  \A t \in Hosts, m \in Media : m \in owned[t] =>
     /\ m \in players /\ call[t].h \in legacy /\ mediaOwner[m] = None
     /\ pc[t] \in Releasing
     /\ \A h \in Handles : m \notin hostMedia[h]
     /\ \A s \in Hosts : m \in owned[s] => s = t

\* There is no other player.
Accounted ==
  \A m \in players : \/ mediaOwner[m] # None
                     \/ \E h \in Handles : m \in hostMedia[h]
                     \/ \E t \in Hosts : m \in owned[t]

\* A legacy backend is that of a handle whose destroyer will free it.
LegacyOwned == \A h \in legacy : h \in registered \/ DestroyerAt(h, Unfinished)

\* What is added, and the whole.
Openings == OpenersAlone /\ StatesTold
Players  == PublicPlayers /\ HostPlayers /\ OwnedPlayers /\ Accounted /\ LegacyOwned

JInv == IInv /\ Openings /\ MediaCalls /\ Players

-----------------------------------------------------------------------------
(* What a step of thread t may leave alone. *)

\* No other thread moves.
OthersStay(t) == \A s \in Threads \ {t} : pc'[s] = pc[s] /\ call'[s] = call[s]

\* The startup worker has not published its outcome yet.
Publishing(h) == worker[h] \in {"opening", "publishing"}

\* It starts and ends no opening.
OpeningsKept(t) ==
  /\ OthersStay(t)
  /\ startup' = startup /\ allocated' \subseteq allocated /\ joinable' \subseteq joinable
  /\ \A h \in Handles : Publishing(h)' <=> Publishing(h)
  /\ pc[t] # "opening" /\ pc'[t] # "opening"
  /\ pc'[t] = "selected" => call'[t].h \notin joinable'

\* It leaves the players alone, and the destroyers their handles.
PlayersKept(t) ==
  /\ OthersStay(t)
  /\ UNCHANGED <<hostMedia, mediaOwner, players, owned>>
  /\ registered \subseteq registered' /\ legacy \subseteq legacy'
  /\ \A h \in legacy' \ legacy : h \in registered' \/ DestroyerAt(h, Unfinished)'
  /\ pc[t] \in Releasing => pc'[t] \in Releasing /\ call'[t] = call[t]
  /\ pc[t] # "destroyLegacy"

\* It changes nothing that the promise speaks of.
Calm(t) ==
  /\ OpeningsKept(t) /\ PlayersKept(t)
  /\ UNCHANGED <<registered, allocated, legacy>>
  /\ \A h \in Handles : (runtime[h] = "none")' <=> runtime[h] = "none"

\* Openings go on as they were.
LEMMA OpeningsStay ==
  ASSUME JInv, NEW t \in Threads, OpeningsKept(t)
  PROVE  Openings'
<1> USE ThreadAssumption DEF OpeningsKept, OthersStay, Threads
<1>1. OpenersAlone'
  BY DEF JInv, Openings, OpenersAlone
<1>2. \A h \in Handles : OpeningInProgress(h)' <=> OpeningInProgress(h)
  BY DEF OpeningInProgress, Publishing
<1>3. StatesTold'
  BY <1>2 DEF JInv, IInv, TypeOK, Openings, StatesTold
<1> QED
  BY <1>1, <1>3 DEF Openings

\* Players stay in charge of whoever had them.
LEMMA PlayersStay ==
  ASSUME JInv, NEW t \in Threads, PlayersKept(t)
  PROVE  Players'
<1> USE ThreadAssumption DEF PlayersKept, OthersStay, Threads
<1>1. \A h \in Handles :
         /\ DestroyerAt(h, Releasing) => DestroyerAt(h, Releasing)'
         /\ DestroyerAt(h, Unfinished) => DestroyerAt(h, Unfinished)'
  BY DEF DestroyerAt, Releasing, Unfinished
<1>2. PublicPlayers' /\ HostPlayers' /\ Accounted'
  BY <1>1 DEF JInv, Players, PublicPlayers, HostPlayers, Accounted
<1>3. OwnedPlayers'
  BY DEF JInv, Players, OwnedPlayers
<1>4. LegacyOwned'
  BY <1>1 DEF JInv, IInv, TypeOK, Players, LegacyOwned
<1> QED
  BY <1>2, <1>3, <1>4 DEF Players

\* A media call goes on with the player it has validated, as long as no other
\* thread changes an owner.
LEMMA MediaCallsStay ==
  ASSUME JInv, NEW t \in Threads, OthersStay(t), MediaCall(t)',
         mediaOwner' = mediaOwner \/ registryLock \in {t, None}
  PROVE  MediaCalls'
<1>1. ASSUME NEW s \in Threads \ {t} PROVE MediaCall(s)'
  <2>1. MediaCall(s) /\ pc'[s] = pc[s] /\ call'[s] = call[s]
    BY DEF JInv, MediaCalls, OthersStay
  <2>2. CASE mediaOwner' = mediaOwner
    BY <2>1, <2>2 DEF MediaCall
  <2>3. CASE registryLock \in {t, None}
    <3>1. pc[s] \notin CallPcs
      BY <2>3, ThreadAssumption DEF JInv, IInv, CallsValidated, Threads
    <3> QED
      BY <2>1, <3>1 DEF MediaCall, CallPcs
  <2> QED
    BY <2>2, <2>3
<1> QED
  BY <1>1 DEF MediaCalls

-----------------------------------------------------------------------------
(* The abstract handle that a state stands for, see EngineDispatch.Promise. *)

\* Its phase.
Phase == [h \in Handles |-> IF h \in registered THEN "live"
                            ELSE IF h \in allocated THEN "closing" ELSE "absent"]

\* The resources it holds.
HeldBy(h) == (IF runtime[h] # "none" THEN {"runtime"} ELSE {})
             \cup (IF h \in legacy THEN {"legacy"} ELSE {})
             \cup PlayersOf(h)
             \cup UNION {IF call[t].h = h THEN owned[t] ELSE {} : t \in Hosts}

Held == [h \in Handles |-> HeldBy(h)]

\* What a handle holds.
Holds(h, x) ==
  \/ x = "runtime" /\ runtime[h] # "none"
  \/ x = "legacy" /\ h \in legacy
  \/ x \in hostMedia[h]
  \/ x \in Media /\ mediaOwner[x] = h
  \/ \E t \in Hosts : call[t].h = h /\ x \in owned[t]

\* A handle holds its runtime, its backend, its players and those that its
\* destroyer is about to release.
LEMMA HeldIs ==
  /\ \A h \in Handles : \A x : x \in Held[h] <=> Holds(h, x)
  /\ \A h \in Handles : \A x : (x \in Held[h])' <=> Holds(h, x)'
BY DEF Held, HeldBy, Holds, PlayersOf

\* What is held stays.
LEMMA MapsHeld == ASSUME \A g \in Handles : \A x : Holds(g, x)' <=> Holds(g, x) PROVE Held' = Held
<1>1. \A g \in Handles : Held[g]' = Held[g]
  BY HeldIs
<1> QED
  BY <1>1 DEF Held

\* Nothing abstract happens when the handles, what they hold and the startup states
\* stay as they are.
LEMMA MapsStutter ==
  ASSUME UNCHANGED <<registered, allocated, startup>>,
         \A h \in Handles : \A x : Holds(h, x)' <=> Holds(h, x)
  PROVE  UNCHANGED Promise!vars
<1>1. Held' = Held
  BY MapsHeld
<1>2. Phase' = Phase
  BY DEF Phase
<1> QED
  BY <1>1, <1>2 DEF Promise!vars, Phase, Held, HeldBy

\* A handle that exists may acquire resources, and no player that is held already.
LEMMA MapsAcquire ==
  ASSUME NEW h \in Handles, NEW got \in SUBSET ({"runtime", "legacy"} \cup Media),
         h \in registered \/ h \in allocated,
         UNCHANGED <<registered, allocated, startup>>,
         \A g \in Handles : \A m \in got \cap Media : ~ Holds(g, m),
         \A g \in Handles : \A x : Holds(g, x)' <=> Holds(g, x) \/ (g = h /\ x \in got)
  PROVE  Promise!Next
<1>1. Held' = [Held EXCEPT ![h] = @ \cup got]
  <2>1. \A g \in Handles : Held[g]' = IF g = h THEN Held[g] \cup got ELSE Held[g]
    BY HeldIs
  <2> QED
    BY <2>1 DEF Held
<1>2. Phase' = Phase /\ Phase[h] # "absent"
  BY DEF Phase
<1>3. \A g \in Handles : got \cap Held[g] \cap Media = {}
  BY HeldIs
<1>4. Promise!Acquire(h)
  BY <1>1, <1>2, <1>3 DEF Promise!Acquire, Promise!Resources, Phase, Held, HeldBy
<1> QED
  BY <1>4 DEF Promise!Next

\* It may release some.
LEMMA MapsRelease ==
  ASSUME NEW h \in Handles, NEW gone, \A x \in gone : Holds(h, x),
         h \in registered \/ h \in allocated,
         UNCHANGED <<registered, allocated, startup>>,
         \A g \in Handles : \A x : Holds(g, x)' <=> Holds(g, x) /\ ~ (g = h /\ x \in gone)
  PROVE  Promise!Next
<1>1. Held' = [Held EXCEPT ![h] = @ \ gone]
  <2>1. \A g \in Handles : Held[g]' = IF g = h THEN Held[g] \ gone ELSE Held[g]
    BY HeldIs
  <2> QED
    BY <2>1 DEF Held
<1>2. Phase' = Phase /\ Phase[h] # "absent"
  BY DEF Phase
<1>3. gone \in SUBSET Held[h]
  BY HeldIs
<1>4. Promise!Release(h)
  BY <1>1, <1>2, <1>3 DEF Promise!Release, Phase, Held, HeldBy
<1> QED
  BY <1>4 DEF Promise!Next

\* A step that leaves the players alone leaves them in the same hands.
LEMMA HeldStays ==
  ASSUME JInv, NEW t \in Threads, PlayersKept(t)
  PROVE  \A h \in Handles : \A x :
           /\ (\E s \in Hosts : call[s].h = h /\ x \in owned[s])'
                <=> (\E s \in Hosts : call[s].h = h /\ x \in owned[s])
           /\ (x \in hostMedia[h])' <=> x \in hostMedia[h]
           /\ (x \in Media /\ mediaOwner[x] = h)' <=> (x \in Media /\ mediaOwner[x] = h)
<1>1. \A s \in Hosts : \A x : x \in owned[s] => call'[s] = call[s]
  BY ThreadAssumption
  DEF JInv, IInv, TypeOK, Players, OwnedPlayers, PlayersKept, OthersStay, Threads
<1> QED
  BY <1>1 DEF PlayersKept

\* A calm step is none of the abstract handles' business.
LEMMA CalmStep ==
  ASSUME JInv, NEW t \in Threads, Calm(t)
  PROVE  Openings' /\ Players' /\ UNCHANGED Promise!vars
<1>1. Openings' /\ Players'
  BY OpeningsStay, PlayersStay DEF Calm
<1>2. \A h \in Handles : \A x : Holds(h, x)' <=> Holds(h, x)
  BY HeldStays DEF Calm, Holds
<1>3. UNCHANGED <<registered, allocated, startup>>
  BY DEF Calm, OpeningsKept
<1> QED
  BY <1>1, <1>2, <1>3, MapsStutter


-----------------------------------------------------------------------------
(* Every step keeps the invariant and the promise. *)

\* What is to be shown of a step.
Faithful == Openings' /\ MediaCalls' /\ Players' /\ (Promise!Next \/ UNCHANGED Promise!vars)

\* A calm step does.
LEMMA CalmFaithful ==
  ASSUME JInv, NEW t \in Threads, Calm(t), MediaCall(t)'
  PROVE  Faithful
BY CalmStep, MediaCallsStay DEF Calm, PlayersKept, Faithful

\* So does one that may create the legacy backend of a handle on its way.
LEMMA LegacyFaithful ==
  ASSUME JInv, NEW t \in Threads, NEW h \in Handles, h \in registered \/ h \in allocated,
         legacy' = legacy \/ legacy' = legacy \cup {h},
         OpeningsKept(t), PlayersKept(t), MediaCall(t)',
         UNCHANGED <<registered, allocated>>,
         \A g \in Handles : (runtime[g] = "none")' <=> runtime[g] = "none"
  PROVE  Faithful
<1>1. Openings' /\ Players' /\ MediaCalls'
  BY OpeningsStay, PlayersStay, MediaCallsStay DEF OpeningsKept, PlayersKept
<1>2. startup' = startup
  BY DEF OpeningsKept
<1>3. CASE legacy' = legacy
  <2>1. \A g \in Handles : \A x : Holds(g, x)' <=> Holds(g, x)
    BY <1>3, HeldStays DEF Holds
  <2> QED
    BY <1>1, <1>2, <2>1, MapsStutter DEF Faithful
<1>4. CASE legacy' = legacy \cup {h}
  <2>1. \A g \in Handles : \A x : Holds(g, x)' <=> Holds(g, x) \/ (g = h /\ x \in {"legacy"})
    BY <1>4, HeldStays DEF Holds
  <2>2. {"legacy"} \cap Media = {}
    BY ResourcesAssumption
  <2>3. Promise!Next
    BY <1>2, <2>1, <2>2, MapsAcquire
  <2> QED
    BY <1>1, <2>3 DEF Faithful
<1> QED
  BY <1>3, <1>4

\* A new player is in no one's charge.
LEMMA NewPlayer ==
  ASSUME JInv, NEW m \in Media \ players
  PROVE  /\ mediaOwner[m] = None
         /\ \A h \in Handles : m \notin hostMedia[h]
         /\ \A t \in Hosts : m \notin owned[t]
         /\ \A h \in Handles : ~ Holds(h, m)
BY ThreadAssumption, ResourcesAssumption
DEF JInv, Players, PublicPlayers, HostPlayers, OwnedPlayers, Holds

\* Steps of a call by any thread. A player that is opened becomes the handle's, one
\* that is destroyed nobody's; the registry is held in between.
LEMMA FaithfulCallStep ==
  ASSUME JInv, NEW t \in Threads, CallStep(t)
  PROVE  Faithful
<1>a. /\ TypeOK /\ CallsValidated /\ MediaCall(t)
      /\ t \in Hosts => pc[t] \in HostPcs
      /\ t \notin Hosts => pc[t] \in RuntimePcs /\ t \in Handles
  BY DEF JInv, IInv, TypeOK, MediaCalls, Threads
<1>b. pc[t] \in CallPcs => /\ registryLock = t /\ call[t].h \in registered
                           /\ call[t].h \in Handles /\ call[t].h # None
  BY <1>a, ThreadAssumption DEF CallsValidated, TypeOK
<1>1. CASE EnterRejected(t)
  <2>1. Calm(t)
    BY <1>1, <1>a, ThreadAssumption
    DEF EnterRejected, GoTo, Rest, Calm, OpeningsKept, PlayersKept, OthersStay, Publishing,
        Releasing, TypeOK
  <2>2. MediaCall(t)'
    BY <1>1, <1>a, ThreadAssumption
    DEF EnterRejected, GoTo, Rest, NoCall, MediaCall, MediaOps, TypeOK
  <2> QED
    BY <2>1, <2>2, CalmFaithful
<1>2. CASE EnterValidated(t)
  <2>1. Calm(t)
    BY <1>2, <1>a
    DEF EnterValidated, GoTo, Calm, OpeningsKept, PlayersKept, OthersStay, Publishing,
        Releasing, TypeOK
  <2>2. MediaCall(t)'
    BY <1>2, <1>a DEF EnterValidated, GoTo, Target, MediaCall, MediaOps, TypeOK, Calls
  <2> QED
    BY <2>1, <2>2, CalmFaithful
<1>3. CASE LockHandle(t)
  <2>1. Calm(t)
    BY <1>3, <1>a
    DEF LockHandle, GoTo, Calm, OpeningsKept, PlayersKept, OthersStay, Publishing,
        Releasing, TypeOK
  <2>2. MediaCall(t)'
    BY <1>3, <1>a DEF LockHandle, GoTo, MediaCall, MediaOps, TypeOK
  <2> QED
    BY <2>1, <2>2, CalmFaithful
<1>4. CASE MediaOpen(t)
  <2> DEFINE h == call[t].h
  <2>1. /\ h \in Handles /\ h \in registered /\ h # None /\ registryLock = t /\ pc[t] = "body"
    BY <1>4, <1>b DEF MediaOpen, CallPcs
  <2>2. OpeningsKept(t) /\ MediaCall(t)' /\ OutsideDestroy(t)
        /\ UNCHANGED <<registered, allocated, startup, runtime, hostMedia, owned>>
    BY <1>4, <1>a, ThreadAssumption
    DEF MediaOpen, Return, GoTo, Rest, NoCall, MediaCall, MediaOps, OpeningsKept, OthersStay,
        Publishing, OutsideDestroy, DestroyPcs, TypeOK
  <2>3. CASE /\ legacy' = legacy \/ legacy' = legacy \cup {h}
             /\ UNCHANGED <<players, mediaOwner>>
    <3>1. PlayersKept(t)
      BY <2>1, <2>2, <2>3 DEF PlayersKept, OutsideDestroy, OthersStay, Releasing
    <3> QED
      BY <2>1, <2>2, <2>3, <3>1, LegacyFaithful
  <2>4. ASSUME NEW m \in Media \ players, legacy' = legacy \cup {h},
               players' = players \cup {m}, mediaOwner' = [mediaOwner EXCEPT ![m] = h]
        PROVE  Faithful
    <3>1. OpeningsKept(t) /\ OthersStay(t)
      BY <2>2 DEF OpeningsKept
    <3>2. Openings' /\ MediaCalls'
      BY <2>1, <2>2, <3>1, OpeningsStay, MediaCallsStay
    <3>3. \A g, pcs : pcs \subseteq DestroyPcs => (DestroyerAt(g, pcs)' <=> DestroyerAt(g, pcs))
      BY <2>2, DestroyersStay
    <3>4. \A s \in Hosts : \A k : k \in owned[s] => call'[s] = call[s] /\ pc'[s] = pc[s] /\ k # m
      BY <2>1, <3>1, NewPlayer
      DEF JInv, IInv, TypeOK, Players, OwnedPlayers, Releasing, OthersStay, Threads
    <3>5. mediaOwner \in [Media -> Handles \cup {None}] /\ players \subseteq Media
      BY <1>a DEF TypeOK
    <3>6. PublicPlayers'
      BY <2>1, <2>2, <2>4, <3>5 DEF JInv, Players, PublicPlayers
    <3>7. HostPlayers'
      BY <2>2, <2>4, <3>3, <3>5, NewPlayer DEF JInv, Players, HostPlayers, Releasing, DestroyPcs
    <3>8. OwnedPlayers'
      BY <2>2, <2>4, <3>4, <3>5, NewPlayer DEF JInv, Players, OwnedPlayers
    <3>9. Accounted'
      BY <2>1, <2>2, <2>4, <3>5 DEF JInv, Players, Accounted
    <3>10. LegacyOwned'
      BY <2>1, <2>2, <2>4, <3>3 DEF JInv, Players, LegacyOwned, Unfinished, Releasing, DestroyPcs
    <3>11. \A g \in Handles : \A x :
             Holds(g, x)' <=> Holds(g, x) \/ (g = h /\ x \in {"legacy", m})
      BY <2>1, <2>2, <2>4, <3>4, <3>5, NewPlayer DEF Holds
    <3>12. Promise!Next
      <4>1. \A g \in Handles : \A k \in {"legacy", m} \cap Media : ~ Holds(g, k)
        BY NewPlayer, ResourcesAssumption
      <4> QED
        BY <2>1, <2>2, <3>11, <4>1, MapsAcquire
    <3> QED
      BY <3>2, <3>6, <3>7, <3>8, <3>9, <3>10, <3>12 DEF Players, Faithful
  <2> QED
    BY <1>4, <2>3, <2>4 DEF MediaOpen, EnsureLegacy
<1>5. CASE MediaUse(t)
  <2>1. Calm(t)
    BY <1>5, <1>a
    DEF MediaUse, GoTo, Calm, OpeningsKept, PlayersKept, OthersStay, Publishing,
        Releasing, TypeOK
  <2>2. MediaCall(t)'
    BY <1>5, <1>a DEF MediaUse, GoTo, MediaCall, MediaOps, TypeOK
  <2> QED
    BY <2>1, <2>2, CalmFaithful
<1>6. CASE MediaReturns(t)
  <2>1. Calm(t)
    BY <1>6, <1>a
    DEF MediaReturns, Return, GoTo, Rest, Calm, OpeningsKept, PlayersKept, OthersStay, Publishing,
        Releasing, TypeOK
  <2>2. MediaCall(t)'
    BY <1>6, <1>a DEF MediaReturns, Return, GoTo, Rest, NoCall, MediaCall, MediaOps, TypeOK
  <2> QED
    BY <2>1, <2>2, CalmFaithful
<1>7. CASE MediaDestroy(t)
  <2> DEFINE h == call[t].h
             m == call[t].m
  <2>1. /\ h \in Handles /\ h \in registered /\ h # None /\ registryLock = t /\ pc[t] = "body"
        /\ m \in Media /\ mediaOwner[m] = h
    BY <1>7, <1>a, <1>b DEF MediaDestroy, CallPcs, MediaCall, MediaOps
  <2>2. OpeningsKept(t) /\ MediaCall(t)' /\ OutsideDestroy(t)
        /\ UNCHANGED <<registered, allocated, startup, runtime, legacy, hostMedia, owned>>
    BY <1>7, <1>a, ThreadAssumption
    DEF MediaDestroy, Return, GoTo, Rest, NoCall, MediaCall, MediaOps, OpeningsKept, OthersStay,
        Publishing, OutsideDestroy, DestroyPcs, TypeOK
  <2>3. players' = players \ {m} /\ mediaOwner' = [mediaOwner EXCEPT ![m] = None]
    BY <1>7 DEF MediaDestroy
  <2>4. OpeningsKept(t) /\ OthersStay(t)
    BY <2>2 DEF OpeningsKept
  <2>5. Openings' /\ MediaCalls'
    BY <2>1, <2>2, <2>4, OpeningsStay, MediaCallsStay
  <2>6. \A g, pcs : pcs \subseteq DestroyPcs => (DestroyerAt(g, pcs)' <=> DestroyerAt(g, pcs))
    BY <2>2, DestroyersStay
  <2>7. \A s \in Hosts : \A k : k \in owned[s] => call'[s] = call[s] /\ pc'[s] = pc[s] /\ k # m
    BY <2>1, <2>4
    DEF JInv, IInv, TypeOK, Players, OwnedPlayers, Releasing, OthersStay, Threads
  <2>8. \A g \in Handles : m \notin hostMedia[g]
    BY <2>1 DEF JInv, Players, HostPlayers
  <2>9. mediaOwner \in [Media -> Handles \cup {None}] /\ players \subseteq Media
    BY <1>a DEF TypeOK
  <2>10. PublicPlayers'
    BY <2>1, <2>2, <2>3, <2>9 DEF JInv, Players, PublicPlayers
  <2>11. HostPlayers'
    BY <2>2, <2>3, <2>6, <2>8, <2>9 DEF JInv, Players, HostPlayers, Releasing, DestroyPcs
  <2>12. OwnedPlayers'
    BY <2>2, <2>3, <2>7, <2>9 DEF JInv, Players, OwnedPlayers
  <2>13. Accounted'
    BY <2>1, <2>2, <2>3, <2>9 DEF JInv, Players, Accounted
  <2>14. LegacyOwned'
    BY <2>2, <2>6 DEF JInv, Players, LegacyOwned, Unfinished, Releasing, DestroyPcs
  <2>15. m \notin {"runtime", "legacy"} /\ Holds(h, m)
    BY <2>1, ResourcesAssumption DEF Holds
  <2>16. \A g \in Handles : \A x : Holds(g, x)' <=> Holds(g, x) /\ ~ (g = h /\ x \in {m})
    <3>1. ASSUME NEW g \in Handles, NEW x
          PROVE  /\ (\E s \in Hosts : call[s].h = g /\ x \in owned[s])'
                      <=> (\E s \in Hosts : call[s].h = g /\ x \in owned[s])
                 /\ x = m => ~ \E s \in Hosts : call[s].h = g /\ x \in owned[s]
      BY <2>2, <2>7
    <3>2. ASSUME NEW g \in Handles, NEW x
          PROVE  (x \in Media /\ mediaOwner[x] = g)'
                   <=> x \in Media /\ mediaOwner[x] = g /\ x # m
      BY <2>1, <2>3, <2>9, ThreadAssumption
    <3>3. ASSUME NEW g \in Handles, mediaOwner[m] = g PROVE g = h
      BY <2>1, <3>3
    <3> HIDE DEF h, m
    <3> QED
      BY <2>2, <2>8, <2>15, <3>1, <3>2, <3>3 DEF Holds
  <2>17. Promise!Next
    BY <2>1, <2>2, <2>15, <2>16, MapsRelease
  <2> QED
    BY <2>5, <2>10, <2>11, <2>12, <2>13, <2>14, <2>17 DEF Players, Faithful
<1> QED
  BY <1>1, <1>2, <1>3, <1>4, <1>5, <1>6, <1>7 DEF CallStep


\* An opening that begins or is refused at once, and one that ends.
LEMMA MapsOpening ==
  ASSUME NEW h \in Handles, NEW state,
         \/ h \in registered /\ startup[h] # "running" /\ state \in {"running", "failed"}
         \/ startup[h] = "running" /\ state \in {"succeeded", "failed"},
         startup' = [startup EXCEPT ![h] = state],
         UNCHANGED <<registered, allocated>>,
         \A g \in Handles : \A x : Holds(g, x)' <=> Holds(g, x)
  PROVE  Promise!Next
<1>1. Held' = Held
  BY MapsHeld
<1>2. Phase' = Phase
  BY DEF Phase
<1>3. CASE h \in registered /\ startup[h] # "running" /\ state \in {"running", "failed"}
  <2>1. Phase[h] = "live"
    BY <1>3 DEF Phase
  <2>2. Promise!BeginOpen(h)
    BY <1>1, <1>2, <1>3, <2>1 DEF Promise!BeginOpen, Phase, Held, HeldBy
  <2> QED
    BY <2>2 DEF Promise!Next
<1>4. CASE startup[h] = "running" /\ state \in {"succeeded", "failed"}
  <2>1. Promise!SettleOpen(h)
    BY <1>1, <1>2, <1>4 DEF Promise!SettleOpen, Phase, Held, HeldBy
  <2> QED
    BY <2>1 DEF Promise!Next
<1> QED
  BY <1>3, <1>4

\* Who has passed the check of the startup thread is alone in opening its handle.
LEMMA OpenerAlone ==
  ASSUME JInv, NEW t \in Hosts, pc[t] \in {"selected", "opening"}
  PROVE  /\ ~ Publishing(call[t].h)
         /\ \A s \in Hosts \ {t} : pc[s] \notin {"selected", "opening"}
         /\ startup[call[t].h] = "running" <=> pc[t] = "opening"
<1>1. /\ registryLock = t /\ call[t].h \in registered /\ call[t].h \in allocated
      /\ call[t].h \in Handles
  BY DEF JInv, IInv, TypeOK, CallsValidated, CallPcs, Threads
<1>2. \A s \in Hosts \ {t} : pc[s] \notin {"selected", "opening"}
  BY <1>1 DEF JInv, IInv, CallsValidated, CallPcs, Threads
<1>3. worker[call[t].h] = "off"
  <2>1. ~ DestroyerAt(call[t].h, {"join"})
    BY <1>1 DEF DestroyerAt, JInv, IInv, DestroyersOwn, DestroyPcs
  <2> QED
    BY <1>1, <2>1 DEF JInv, IInv, WorkersJoined, Openings, OpenersAlone
<1>4. startup[call[t].h] = "running" <=> pc[t] = "opening"
  BY <1>1, <1>2, <1>3 DEF JInv, Openings, StatesTold, OpeningInProgress
<1> QED
  BY <1>2, <1>3, <1>4 DEF Publishing

\* Steps of opening a game: one opening of a handle at a time, and its state told as
\* it begins and as it ends.
LEMMA FaithfulOpenStep ==
  ASSUME JInv, NEW t \in Hosts, OpenStep(t)
  PROVE  Faithful
<1>a. t \in Threads /\ t \notin Handles /\ TypeOK /\ MediaCall(t)
  BY ThreadAssumption DEF Threads, JInv, IInv, MediaCalls
<1>b. pc[t] \in {"body", "selected", "opening"}
  BY DEF OpenStep, OpenRefused, SelectProvider, SelectLegacy, AlreadySelected, SelectedRefused,
         OpenLegacy, OpenBegins, OpenReturns, OpenAsync, Opening
<1>c. PICK h \in Handles : /\ h = call[t].h /\ h \in registered /\ h \in allocated
                          /\ registryLock = t
  BY <1>a, <1>b DEF JInv, IInv, CallsValidated, CallPcs, TypeOK
<1> USE <1>a, <1>c DEF TypeOK, Threads
<1>1. CASE OpenRefused(t)
  <2>1. Calm(t) /\ MediaCall(t)'
    BY <1>1
    DEF OpenRefused, Return, GoTo, Rest, Opening, Calm, OpeningsKept, PlayersKept, OthersStay,
        Publishing, Releasing, NoCall, MediaCall, MediaOps
  <2> QED
    BY <2>1, CalmFaithful
<1>2. CASE SelectProvider(t)
  <2>1. OpeningsKept(t) /\ PlayersKept(t) /\ MediaCall(t)'
        /\ UNCHANGED <<registered, allocated, startup, legacy>>
    BY <1>2
    DEF SelectProvider, StartupThreadBusy, Return, GoTo, Rest, Opening, OpeningsKept, PlayersKept,
        OthersStay, Publishing, Releasing, NoCall, MediaCall, MediaOps
  <2>2. CASE runtime' = runtime
    <3>1. Calm(t)
      BY <2>1, <2>2 DEF Calm
    <3> QED
      BY <2>1, <3>1, CalmFaithful
  <2>3. CASE runtime' = [runtime EXCEPT ![h] = "created"]
    <3>1. \A g \in Handles : \A x : Holds(g, x)' <=> Holds(g, x) \/ (g = h /\ x \in {"runtime"})
      BY <2>1, <2>3, HeldStays DEF Holds
    <3>2. Promise!Next
      BY <2>1, <3>1, MapsAcquire, ResourcesAssumption
    <3> QED
      BY <2>1, <3>2, OpeningsStay, PlayersStay, MediaCallsStay
      DEF OpeningsKept, PlayersKept, Faithful
  <2> QED
    BY <1>2, <2>2, <2>3 DEF SelectProvider
<1>3. CASE SelectLegacy(t)
  <2>1. OpeningsKept(t) /\ PlayersKept(t) /\ MediaCall(t)'
        /\ UNCHANGED <<registered, allocated, runtime>>
        /\ (legacy' = legacy \/ legacy' = legacy \cup {h})
    BY <1>3
    DEF SelectLegacy, EnsureLegacy, StartupThreadBusy, Return, GoTo, Rest, Opening, OpeningsKept,
        PlayersKept, OthersStay, Publishing, Releasing, NoCall, MediaCall, MediaOps
  <2> QED
    BY <2>1, LegacyFaithful
<1>4. CASE AlreadySelected(t)
  <2>1. Calm(t) /\ MediaCall(t)'
    BY <1>4
    DEF AlreadySelected, StartupThreadBusy, GoTo, Opening, Calm, OpeningsKept, PlayersKept,
        OthersStay, Publishing, Releasing, MediaCall, MediaOps
  <2> QED
    BY <2>1, CalmFaithful
<1>5. CASE SelectedRefused(t)
  <2>1. Calm(t) /\ MediaCall(t)'
    BY <1>5
    DEF SelectedRefused, Return, GoTo, Rest, Calm, OpeningsKept, PlayersKept, OthersStay,
        Publishing, Releasing, NoCall, MediaCall, MediaOps
  <2> QED
    BY <2>1, CalmFaithful
<1>6. CASE OpenLegacy(t)
  <2>1. OpeningsKept(t) /\ PlayersKept(t) /\ MediaCall(t)'
        /\ UNCHANGED <<registered, allocated, runtime>>
        /\ legacy' = legacy \cup {h}
    BY <1>6
    DEF OpenLegacy, EnsureLegacy, Return, GoTo, Rest, OpeningsKept, PlayersKept, OthersStay,
        Publishing, Releasing, NoCall, MediaCall, MediaOps
  <2> QED
    BY <2>1, LegacyFaithful
<1>7. ASSUME NEW state,
             OpenBegins(t) \/ OpenReturns(t) \/ OpenAsync(t),
             startup' = [startup EXCEPT ![h] = state],
             OpeningInProgress(h)' <=> state = "running",
             pc[t] = "selected" => state \in {"running", "failed"},
             pc[t] = "opening" => state \in {"succeeded", "failed"},
             OpenersAlone'
      PROVE  Faithful
  <2>1. PlayersKept(t) /\ MediaCall(t)' /\ pc[t] \in {"selected", "opening"}
        /\ UNCHANGED <<registered, allocated, legacy, runtime>>
    BY <1>7
    DEF OpenBegins, OpenReturns, OpenAsync, Return, GoTo, Rest, PlayersKept, OthersStay,
        Releasing, NoCall, MediaCall, MediaOps
  <2>2. OthersStay(t) /\ \A g \in Handles \ {h} : worker'[g] = worker[g]
    BY <1>7, <2>1 DEF PlayersKept, OpenBegins, OpenReturns, OpenAsync, ThreadCreationThrows
  <2>3. /\ startup[h] = "running" <=> pc[t] = "opening"
        /\ \A s \in Hosts \ {t} : pc[s] \notin {"selected", "opening"}
    BY <2>1, OpenerAlone
  <2>4. pc'[t] = "opening" => call'[t] = call[t]
    BY <1>7 DEF OpenBegins, OpenReturns, OpenAsync, Return, GoTo, Rest
  <2>5. \A g \in Handles \ {h} : OpeningInProgress(g)' <=> OpeningInProgress(g)
    BY <2>2, <2>3, <2>4 DEF OpeningInProgress, OthersStay
  <2>6. StatesTold'
    BY <1>7, <2>1, <2>5 DEF JInv, Openings, StatesTold
  <2>7. \A g \in Handles : \A x : Holds(g, x)' <=> Holds(g, x)
    BY <2>1, HeldStays DEF Holds
  <2>8. Promise!Next
    BY <1>7, <2>1, <2>3, <2>7, MapsOpening
  <2> QED
    BY <1>7, <2>1, <2>6, <2>8, PlayersStay, MediaCallsStay DEF PlayersKept, Openings, Faithful

<1>8. pc[t] \in {"selected", "opening"} =>
        /\ ~ Publishing(h) /\ \A s \in Hosts \ {t} : pc[s] \notin {"selected", "opening"}
  BY OpenerAlone
<1>9. CASE OpenBegins(t)
  <2>1. pc[t] = "selected" /\ pc'[t] = "opening" /\ call' = call /\ OthersStay(t)
        /\ joinable' = joinable
    BY <1>9 DEF OpenBegins, GoTo, OthersStay
  <2>2. OpeningInProgress(h)'
    BY <2>1 DEF OpeningInProgress
  <2>3. OpenersAlone'
    BY <2>1 DEF JInv, Openings, OpenersAlone, OthersStay
  <2>4. startup' = [startup EXCEPT ![h] = "running"]
    BY <1>9 DEF OpenBegins
  <2> QED
    BY <1>7, <1>9, <2>1, <2>2, <2>3, <2>4
<1>10. CASE OpenReturns(t)
  <2>1. /\ pc[t] = "opening" /\ pc'[t] = "idle" /\ OthersStay(t)
        /\ joinable' = joinable /\ worker' = worker
    BY <1>10 DEF OpenReturns, Return, GoTo, Rest, OthersStay
  <2>2. ~ OpeningInProgress(h)'
    BY <1>8, <2>1 DEF OpeningInProgress, Publishing, OthersStay
  <2>3. OpenersAlone'
    BY <2>1 DEF JInv, Openings, OpenersAlone, OthersStay
  <2>4. PICK state \in {"succeeded", "failed"} : startup' = [startup EXCEPT ![h] = state]
    BY <1>10 DEF OpenReturns
  <2>5. state # "running"
    BY <2>4
  <2> QED
    BY <1>7, <1>10, <2>1, <2>2, <2>3, <2>4, <2>5
<1>11. CASE OpenAsync(t)
  <2>1. pc[t] = "selected" /\ pc'[t] = "idle" /\ OthersStay(t)
    BY <1>11 DEF OpenAsync, Return, GoTo, Rest, OthersStay
  <2>2. OpenersAlone'
    <3>1. \A s \in Hosts : pc'[s] \notin {"selected", "opening"}
      BY <1>8, <2>1 DEF OthersStay
    <3> QED
      BY <3>1 DEF OpenersAlone
  <2>3. CASE /\ startup' = [startup EXCEPT ![h] = "running"]
             /\ worker' = [worker EXCEPT ![h] = "opening"]
    <3>1. OpeningInProgress(h)'
      BY <2>3 DEF OpeningInProgress
    <3> QED
      BY <1>7, <1>11, <2>1, <2>2, <2>3, <3>1
  <2>4. CASE ThreadCreationThrows(h)
    <3>1. ~ OpeningInProgress(h)'
      BY <1>8, <2>1, <2>4 DEF ThreadCreationThrows, OpeningInProgress, Publishing, OthersStay
    <3>2. startup' = [startup EXCEPT ![h] = "failed"]
      BY <2>4 DEF ThreadCreationThrows
    <3> QED
      BY <1>7, <1>11, <2>1, <2>2, <3>1, <3>2
  <2> QED
    BY <1>11, <2>3, <2>4 DEF OpenAsync
<1> QED
  BY <1>1, <1>2, <1>3, <1>4, <1>5, <1>6, <1>9, <1>10, <1>11 DEF OpenStep


\* Steps of the other routed calls.
LEMMA FaithfulRouteStep ==
  ASSUME JInv, NEW t \in Hosts, RouteStep(t)
  PROVE  Faithful
<1>a. t \in Threads /\ t \notin Handles /\ TypeOK /\ MediaCall(t)
  BY ThreadAssumption DEF Threads, JInv, IInv, MediaCalls
<1>b. pc[t] \in {"body", "inProvider"}
  BY DEF RouteStep, RouteLegacy, RouteProvider, ProviderReturns
<1>c. PICK h \in Handles : h = call[t].h /\ h \in registered
  BY <1>a, <1>b DEF JInv, IInv, CallsValidated, CallPcs, TypeOK
<1> USE <1>a, <1>c DEF TypeOK, Threads
<1>1. CASE RouteLegacy(t)
  <2>1. OpeningsKept(t) /\ PlayersKept(t) /\ MediaCall(t)'
        /\ UNCHANGED <<registered, allocated, runtime>>
        /\ (legacy' = legacy \/ legacy' = legacy \cup {h})
    BY <1>1
    DEF RouteLegacy, EnsureLegacy, Return, GoTo, Rest, OpeningsKept, PlayersKept, OthersStay,
        Publishing, Releasing, NoCall, MediaCall, MediaOps
  <2> QED
    BY <2>1, LegacyFaithful
<1>2. CASE RouteProvider(t)
  <2>1. Calm(t) /\ MediaCall(t)'
    BY <1>2
    DEF RouteProvider, GoTo, Calm, OpeningsKept, PlayersKept, OthersStay, Publishing, Releasing,
        MediaCall, MediaOps
  <2> QED
    BY <2>1, CalmFaithful
<1>3. CASE ProviderReturns(t)
  <2>1. Calm(t) /\ MediaCall(t)'
    BY <1>3
    DEF ProviderReturns, Return, GoTo, Rest, Calm, OpeningsKept, PlayersKept, OthersStay,
        Publishing, Releasing, NoCall, MediaCall, MediaOps
  <2> QED
    BY <2>1, CalmFaithful
<1> QED
  BY <1>1, <1>2, <1>3 DEF RouteStep

\* A callback of a provider's runtime, by thread t: a player that the host opens for it
\* is its handle's, whose destroyer has not released the players yet.
LEMMA FaithfulCallback ==
  ASSUME JInv, NEW t \in Threads, NEW h \in Handles, CallbackBody(h),
         h \in registered \/ DestroyerAt(h, Releasing),
         OpeningsKept(t), OutsideDestroy(t), MediaCall(t)',
         UNCHANGED <<registered, allocated, mediaOwner, runtime, owned>>
  PROVE  Faithful
<1>1. h \in registered \/ h \in allocated
  BY DEF JInv, IInv, DestroyerAt, DestroyersOwn, Releasing, DestroyPcs
<1>2. \A g, pcs : pcs \subseteq DestroyPcs => (DestroyerAt(g, pcs)' <=> DestroyerAt(g, pcs))
  BY DestroyersStay
<1>3. h \in registered' \/ DestroyerAt(h, Releasing)'
  BY <1>2 DEF Releasing, DestroyPcs
<1>4. h \in registered' \/ DestroyerAt(h, Unfinished)'
  BY <1>3 DEF DestroyerAt, Unfinished
<1>5. OthersStay(t) /\ startup' = startup
  BY DEF OpeningsKept
<1>6. Openings' /\ MediaCalls'
  BY <1>5, OpeningsStay, MediaCallsStay
<1>7. \A s \in Hosts : \A k : k \in owned[s] => call'[s] = call[s] /\ pc'[s] = pc[s]
  BY <1>5 DEF JInv, IInv, TypeOK, Players, OwnedPlayers, OutsideDestroy, OthersStay, Threads,
     Releasing, DestroyPcs
<1>8. hostMedia \in [Handles -> SUBSET Media] /\ players \subseteq Media
      /\ owned \in [Hosts -> SUBSET Media]
  BY DEF JInv, IInv, TypeOK
<1>9. CASE /\ UNCHANGED <<players, hostMedia>>
           /\ legacy' = legacy \/ legacy' = legacy \cup {h}
  <2>1. PlayersKept(t)
    BY <1>4, <1>5, <1>9 DEF PlayersKept, OutsideDestroy, Releasing, DestroyPcs
  <2> QED
    BY <1>1, <1>9, <2>1, LegacyFaithful
<1>10. ASSUME NEW m \in Media \ players, legacy' = legacy \cup {h},
              players' = players \cup {m}, hostMedia' = [hostMedia EXCEPT ![h] = @ \cup {m}]
       PROVE  Faithful
  <2>1. PublicPlayers'
    BY <1>10 DEF JInv, Players, PublicPlayers
  <2>2. HostPlayers'
    BY <1>2, <1>3, <1>8, <1>10, NewPlayer DEF JInv, Players, HostPlayers, Releasing, DestroyPcs
  <2>3. OwnedPlayers'
    BY <1>7, <1>8, <1>10, NewPlayer DEF JInv, Players, OwnedPlayers
  <2>4. Accounted'
    BY <1>8, <1>10 DEF JInv, Players, Accounted
  <2>5. LegacyOwned'
    BY <1>2, <1>4, <1>10 DEF JInv, Players, LegacyOwned, Unfinished, Releasing, DestroyPcs
  <2>6. \A g \in Handles : \A x :
           Holds(g, x)' <=> Holds(g, x) \/ (g = h /\ x \in {"legacy", m})
    BY <1>7, <1>8, <1>10 DEF Holds
  <2>7. Promise!Next
    <3>1. \A g \in Handles : \A k \in {"legacy", m} \cap Media : ~ Holds(g, k)
      BY NewPlayer, ResourcesAssumption
    <3> QED
      BY <1>1, <1>5, <2>6, <3>1, MapsAcquire
  <2> QED
    BY <1>6, <2>1, <2>2, <2>3, <2>4, <2>5, <2>7 DEF Players, Faithful
<1>11. ASSUME NEW m \in hostMedia[h], legacy' = legacy,
              players' = players \ {m}, hostMedia' = [hostMedia EXCEPT ![h] = @ \ {m}]
       PROVE  Faithful
  <2>1. /\ m \in Media /\ mediaOwner[m] = None /\ \A g \in Handles : m \in hostMedia[g] => g = h
        /\ \A s \in Hosts : m \notin owned[s]
    BY <1>8 DEF JInv, Players, HostPlayers, OwnedPlayers
  <2>2. PublicPlayers'
    BY <1>11, <2>1 DEF JInv, Players, PublicPlayers
  <2>3. HostPlayers'
    BY <1>2, <1>3, <1>8, <1>11, <2>1 DEF JInv, Players, HostPlayers, Releasing, DestroyPcs
  <2>4. OwnedPlayers'
    BY <1>7, <1>8, <1>11, <2>1 DEF JInv, Players, OwnedPlayers
  <2>5. Accounted'
    BY <1>8, <1>11 DEF JInv, Players, Accounted
  <2>6. LegacyOwned'
    BY <1>2, <1>11 DEF JInv, Players, LegacyOwned, Unfinished, Releasing, DestroyPcs
  <2>7. Holds(h, m) /\ m \notin {"runtime", "legacy"}
    BY <2>1, ResourcesAssumption DEF Holds
  <2>8. \A g \in Handles : \A x : Holds(g, x)' <=> Holds(g, x) /\ ~ (g = h /\ x \in {m})
    BY <1>7, <1>8, <1>11, <2>1, <2>7, ThreadAssumption DEF Holds
  <2>9. Promise!Next
    BY <1>1, <1>5, <2>7, <2>8, MapsRelease
  <2> QED
    BY <1>6, <2>2, <2>3, <2>4, <2>5, <2>6, <2>9 DEF Players, Faithful
<1> QED
  BY <1>9, <1>10, <1>11 DEF CallbackBody, HostMediaOpen, HostMediaDestroy, EnsureLegacy


\* Steps of a startup worker, of a runtime's thread and of its callbacks.
LEMMA FaithfulRuntimeStep ==
  ASSUME JInv, NEW h \in Handles, WorkerReturns(h) \/ WorkerPublishes(h) \/ RuntimeStep(h)
  PROVE  Faithful
<1>a. h \in Threads /\ h \notin Hosts /\ TypeOK /\ MediaCall(h) /\ pc[h] \in RuntimePcs
  BY ThreadAssumption DEF Threads, JInv, IInv, MediaCalls, TypeOK
<1>b. runtime[h] # "none" => h \in registered \/ DestroyerAt(h, Releasing)
  BY DEF JInv, IInv, RuntimesDestroyed, DestroyerAt, BeforeRuntimeGone, Releasing
<1> USE <1>a DEF TypeOK, Threads
<1>1. CASE WorkerReturns(h)
  <2>1. Calm(h) /\ MediaCall(h)'
    BY <1>1
    DEF WorkerReturns, Calm, OpeningsKept, PlayersKept, OthersStay, Publishing, Releasing,
        RuntimePcs, MediaCall, MediaOps
  <2> QED
    BY <2>1, CalmFaithful
<1>2. CASE WorkerPublishes(h)
  <2>1. PlayersKept(h) /\ MediaCall(h)' /\ Publishing(h)
        /\ UNCHANGED <<registered, allocated, legacy, runtime, joinable, pc, call>>
        /\ worker' = [worker EXCEPT ![h] = "done"]
    BY <1>2
    DEF WorkerPublishes, PlayersKept, OthersStay, Publishing, Releasing, RuntimePcs,
        MediaCall, MediaOps
  <2>2. \A s \in Hosts : pc[s] = "opening" => call[s].h # h
    BY <2>1, OpenerAlone
  <2>3. PICK state \in {"succeeded", "failed"} : startup' = [startup EXCEPT ![h] = state]
    BY <1>2 DEF WorkerPublishes
  <2>4. h \in allocated
    BY <2>1 DEF JInv, IInv, WorkersJoined, DestroyersOwn, DestroyerAt, DestroyPcs, Publishing
  <2>5. startup[h] = "running"
    BY <2>1, <2>4 DEF JInv, Openings, StatesTold, OpeningInProgress, Publishing
  <2>6. Openings'
    <3>1. ~ OpeningInProgress(h)'
      BY <2>1, <2>2 DEF OpeningInProgress
    <3>2. \A g \in Handles \ {h} : OpeningInProgress(g)' <=> OpeningInProgress(g)
      BY <2>1 DEF OpeningInProgress
    <3> QED
      BY <2>1, <2>3, <3>1, <3>2 DEF JInv, Openings, OpenersAlone, StatesTold
  <2>7. \A g \in Handles : \A x : Holds(g, x)' <=> Holds(g, x)
    BY <2>1, HeldStays DEF Holds
  <2>8. Promise!Next
    BY <2>1, <2>3, <2>5, <2>7, MapsOpening
  <2> QED
    BY <2>1, <2>6, <2>8, PlayersStay, MediaCallsStay DEF PlayersKept, Faithful
<1>3. CASE RuntimeThreadStarts(h)
  <2>1. Calm(h) /\ MediaCall(h)'
    BY <1>3
    DEF RuntimeThreadStarts, GoTo, Calm, OpeningsKept, PlayersKept, OthersStay, Publishing,
        Releasing, RuntimePcs, MediaCall, MediaOps
  <2> QED
    BY <2>1, CalmFaithful
<1>4. CASE RuntimeCall(h)
  <2>1. PICK op \in RuntimeOps, m \in Media \cup {None}, g \in Handles \cup {None} :
             Call(h, op, g, m) /\ (op \in MediaOps => m \in Media)
    BY <1>4 DEF RuntimeCall
  <2>2. Calm(h)
    BY <2>1
    DEF Call, GoTo, Rest, Calm, OpeningsKept, PlayersKept, OthersStay, Publishing,
        Releasing, RuntimePcs
  <2>3. MediaCall(h)'
    BY <2>1 DEF Call, GoTo, MediaCall
  <2> QED
    BY <2>2, <2>3, CalmFaithful
<1>5. CASE RuntimeCallsBack(h)
  <2>1. Calm(h) /\ MediaCall(h)'
    BY <1>5
    DEF RuntimeCallsBack, GoTo, Calm, OpeningsKept, PlayersKept, OthersStay, Publishing,
        Releasing, RuntimePcs, MediaCall, MediaOps
  <2> QED
    BY <2>1, CalmFaithful
<1>6. CASE CallbackLocks(h)
  <2>1. Calm(h) /\ MediaCall(h)'
    BY <1>6
    DEF CallbackLocks, GoTo, Calm, OpeningsKept, PlayersKept, OthersStay, Publishing,
        Releasing, RuntimePcs, MediaCall, MediaOps
  <2> QED
    BY <2>1, CalmFaithful
<1>7. CASE CallbackReturns(h)
  <2>1. /\ OpeningsKept(h) /\ OutsideDestroy(h) /\ MediaCall(h)'
        /\ UNCHANGED <<registered, allocated, mediaOwner, runtime, owned>>
    BY <1>7
    DEF CallbackReturns, GoTo, OpeningsKept, OthersStay, Publishing, OutsideDestroy, DestroyPcs,
        MediaCall, MediaOps
  <2>2. h \in registered \/ DestroyerAt(h, Releasing)
    BY <1>b, <1>7 DEF CallbackReturns, JInv, IInv, RuntimesDestroyed
  <2> QED
    BY <1>7, <2>1, <2>2, FaithfulCallback DEF CallbackReturns
<1>8. CASE NestedCallback(h)
  <2>1. /\ OpeningsKept(h) /\ OutsideDestroy(h) /\ MediaCall(h)'
        /\ UNCHANGED <<registered, allocated, mediaOwner, runtime, owned>>
    BY <1>8
    DEF NestedCallback, OpeningsKept, OthersStay, Publishing, OutsideDestroy, DestroyPcs,
        RuntimePcs, MediaCall, MediaOps
  <2>2. h \in registered \/ DestroyerAt(h, Releasing)
    <3>1. ASSUME NEW t \in Hosts, pc[t] \in {"opening", "inProvider"}, call[t].h = h
          PROVE  h \in registered
      BY <3>1 DEF JInv, IInv, CallsValidated, CallPcs
    <3>2. worker[h] = "opening" => runtime[h] # "none"
      BY DEF JInv, IInv, RuntimesCreated
    <3>3. (\E t \in Hosts : pc[t] = "stopping" /\ call[t].h = h) => DestroyerAt(h, Releasing)
      BY DEF DestroyerAt, Releasing
    <3> QED
      BY <1>b, <1>8, <3>1, <3>2, <3>3 DEF NestedCallback
  <2> QED
    BY <1>8, <2>1, <2>2, FaithfulCallback DEF NestedCallback
<1>9. CASE RuntimeThreadEnds(h)
  <2>1. Calm(h) /\ MediaCall(h)'
    BY <1>9
    DEF RuntimeThreadEnds, GoTo, Calm, OpeningsKept, PlayersKept, OthersStay, Publishing,
        Releasing, RuntimePcs, MediaCall, MediaOps
  <2> QED
    BY <2>1, CalmFaithful
<1> QED
  BY <1>1, <1>2, <1>3, <1>4, <1>5, <1>6, <1>7, <1>8, <1>9 DEF RuntimeStep

\* What a destroyer is alone with: its handle is no longer registered, and no other
\* host destroys it.
LEMMA DestroyerAlone ==
  ASSUME JInv, NEW t \in Hosts, pc[t] \in DestroyPcs
  PROVE  /\ call[t].h \in Handles /\ call[t].h \in allocated /\ call[t].h \notin registered
         /\ \A s \in Hosts \ {t} : pc[s] \in DestroyPcs => call[s].h # call[t].h
         /\ \A pcs \in SUBSET DestroyPcs : DestroyerAt(call[t].h, pcs) => pc[t] \in pcs
         /\ \A s \in Hosts : pc[s] \in CallPcs => call[s].h # call[t].h
<1>1. /\ call[t].h \in Handles /\ call[t].h \in allocated /\ call[t].h \notin registered
      /\ \A s \in Hosts \ {t} : pc[s] \in DestroyPcs => call[s].h # call[t].h
  BY DEF JInv, IInv, TypeOK, DestroyersOwn
<1>2. \A pcs \in SUBSET DestroyPcs : DestroyerAt(call[t].h, pcs) => pc[t] \in pcs
  BY <1>1 DEF DestroyerAt
<1>3. \A s \in Hosts : pc[s] \in CallPcs => call[s].h # call[t].h
  BY <1>1 DEF JInv, IInv, CallsValidated, Threads
<1> QED
  BY <1>1, <1>2, <1>3


\* A handle is created at a free address.
LEMMA MapsCreate ==
  ASSUME NEW h \in Handles, h \notin allocated, h \notin registered,
         registered' = registered \cup {h}, allocated' = allocated \cup {h},
         startup' = [startup EXCEPT ![h] = "idle"],
         \A g \in Handles : \A x : Holds(g, x)' <=> Holds(g, x)
  PROVE  Promise!Next
<1>1. Phase[h] = "absent" /\ Phase' = [Phase EXCEPT ![h] = "live"]
  BY DEF Phase
<1>2. Promise!Create(h)
  BY <1>1, MapsHeld DEF Promise!Create, Phase, Held, HeldBy
<1> QED
  BY <1>2 DEF Promise!Next

\* It leaves the registry.
LEMMA MapsClose ==
  ASSUME NEW h \in Handles, h \in registered, h \in allocated,
         registered' = registered \ {h}, UNCHANGED <<allocated, startup>>,
         \A g \in Handles : \A x : Holds(g, x)' <=> Holds(g, x)
  PROVE  Promise!Next
<1>1. Phase[h] = "live" /\ Phase' = [Phase EXCEPT ![h] = "closing"]
  BY DEF Phase
<1>2. Promise!Close(h)
  BY <1>1, MapsHeld DEF Promise!Close, Phase, Held, HeldBy
<1> QED
  BY <1>2 DEF Promise!Next

\* It is deleted once it holds nothing and nothing opens it.
LEMMA MapsVanish ==
  ASSUME NEW h \in Handles, h \in allocated, h \notin registered,
         startup[h] # "running", \A x : ~ Holds(h, x),
         allocated' = allocated \ {h}, UNCHANGED <<registered, startup>>,
         \A g \in Handles : \A x : Holds(g, x)' <=> Holds(g, x)
  PROVE  Promise!Next
<1>1. Phase[h] = "closing" /\ Phase' = [Phase EXCEPT ![h] = "absent"]
  BY DEF Phase
<1>2. Held[h] = {}
  BY HeldIs
<1>3. Promise!Vanish(h)
  BY <1>1, <1>2, MapsHeld DEF Promise!Vanish, Phase, Held, HeldBy
<1> QED
  BY <1>3 DEF Promise!Next

\* Steps of engine_destroy. What the handle holds is released before it vanishes: its
\* public players pass into the destroyer's hands as it leaves the registry.
LEMMA FaithfulDestroyStep ==
  ASSUME JInv, NEW t \in Hosts, DestroyStep(t)
  PROVE  Faithful
<1>a. t \in Threads /\ t \notin Handles /\ TypeOK /\ MediaCall(t)
  BY ThreadAssumption DEF Threads, JInv, IInv, MediaCalls
<1> USE <1>a DEF TypeOK, Threads
<1>1. CASE Unregister(t)
  <2>1. PICK h \in Handles : h = call[t].h /\ h \in registered
    BY <1>1 DEF Unregister
  <2>2. /\ OpeningsKept(t) /\ MediaCall(t)' /\ registryLock = None
        /\ pc[t] = "registry" /\ pc'[t] = "takeThread" /\ call' = call /\ OthersStay(t)
        /\ UNCHANGED <<allocated, startup, legacy, runtime, hostMedia, players>>
        /\ registered' = registered \ {h}
        /\ mediaOwner' = [m \in Media |-> IF mediaOwner[m] = h THEN None ELSE mediaOwner[m]]
        /\ owned' = [owned EXCEPT ![t] = {m \in Media : mediaOwner[m] = h}]
    BY <1>1, <2>1
    DEF Unregister, CollectMedia, GoTo, OpeningsKept, OthersStay, Publishing, MediaCall, MediaOps
  <2>3. Openings' /\ MediaCalls'
    BY <2>2, OpeningsStay, MediaCallsStay
  <2>4. /\ \A g \in Handles, pcs \in {Releasing, Unfinished} :
             DestroyerAt(g, pcs) => DestroyerAt(g, pcs)'
        /\ DestroyerAt(h, Releasing)' /\ DestroyerAt(h, Unfinished)'
    BY <2>1, <2>2 DEF DestroyerAt, Releasing, Unfinished, OthersStay
  <2>5. owned[t] = {}
    BY <2>2 DEF JInv, Players, OwnedPlayers, Releasing
  <2>6. PublicPlayers'
    BY <2>2 DEF JInv, Players, PublicPlayers
  <2>7. HostPlayers'
    BY <2>2, <2>4 DEF JInv, Players, HostPlayers
  <2>8. \A m \in Media : mediaOwner[m] = h => 
           /\ mediaOwner[m] # None /\ m \in players /\ h \in legacy
           /\ \A g \in Handles : m \notin hostMedia[g]
           /\ \A s \in Hosts : m \notin owned[s]
    BY ThreadAssumption DEF JInv, Players, PublicPlayers, HostPlayers, OwnedPlayers
  <2>9. OwnedPlayers'
    BY <2>1, <2>2, <2>5, <2>8 DEF JInv, Players, OwnedPlayers, OthersStay, Releasing
  <2>10. Accounted'
    BY <2>2, <2>5 DEF JInv, Players, Accounted
  <2>11. LegacyOwned'
    BY <2>2, <2>4 DEF JInv, Players, LegacyOwned
  <2>12. \A g \in Handles : \A x : Holds(g, x)' <=> Holds(g, x)
    BY <2>1, <2>2, <2>5, ThreadAssumption DEF Holds
  <2>13. Promise!Next
    BY <2>1, <2>2, <2>12, MapsClose DEF JInv, IInv
  <2> QED
    BY <2>3, <2>6, <2>7, <2>9, <2>10, <2>11, <2>13 DEF Players, Faithful
<1>2. CASE TakeThread(t) \/ Join(t) \/ DestroyRuntime(t)
  <2>1. Calm(t)
    BY <1>2
    DEF TakeThread, Join, DestroyRuntime, GoTo, Calm, OpeningsKept, PlayersKept, OthersStay,
        Publishing, Releasing
  <2>2. MediaCall(t)'
    BY <1>2 DEF TakeThread, Join, DestroyRuntime, GoTo, MediaCall
  <2> QED
    BY <2>1, <2>2, CalmFaithful
<1>3. CASE RuntimeDestroyed(t)
  <2>1. PICK h \in Handles : h = call[t].h /\ h \in allocated
    BY <1>3, DestroyerAlone DEF RuntimeDestroyed, DestroyPcs
  <2>2. /\ OpeningsKept(t) /\ PlayersKept(t) /\ MediaCall(t)'
        /\ UNCHANGED <<registered, allocated, startup, legacy>>
        /\ runtime' = [runtime EXCEPT ![h] = "none"]
    BY <1>3, <2>1
    DEF RuntimeDestroyed, GoTo, OpeningsKept, PlayersKept, OthersStay, Publishing, Releasing,
        MediaCall
  <2>3. CASE runtime[h] = "none"
    <3>1. Calm(t)
      BY <2>2, <2>3 DEF Calm
    <3> QED
      BY <2>2, <3>1, CalmFaithful
  <2>4. CASE runtime[h] # "none"
    <3>1. Holds(h, "runtime")
      BY <2>4 DEF Holds
    <3>2. "runtime" \notin Media
      BY ResourcesAssumption
    <3>3. \A x : x = "runtime" => /\ x \notin hostMedia[h]
                                  /\ ~ \E s \in Hosts : call[s].h = h /\ x \in owned[s]
      BY <3>2
    <3>4. \A g \in Handles : \A x : Holds(g, x)' <=> Holds(g, x) /\ ~ (g = h /\ x \in {"runtime"})
      BY <2>2, <3>2, <3>3, HeldStays DEF Holds
    <3>5. Promise!Next
      BY <2>1, <2>2, <3>1, <3>4, MapsRelease
    <3> QED
      BY <2>2, <3>5, OpeningsStay, PlayersStay, MediaCallsStay
      DEF OpeningsKept, PlayersKept, Faithful
  <2> QED
    BY <2>3, <2>4
<1>4. CASE ReleaseMedia(t)
  <2>1. PICK h \in Handles : h = call[t].h /\ h \in allocated
    BY <1>4, DestroyerAlone DEF ReleaseMedia, DestroyPcs
  <2> DEFINE gone == hostMedia[h] \cup owned[t]
  <2>2. /\ OpeningsKept(t) /\ OthersStay(t) /\ MediaCall(t)' /\ call' = call
        /\ UNCHANGED <<registered, allocated, startup, legacy, runtime, mediaOwner>>
        /\ pc[t] = "releaseMedia" /\ pc'[t] = "destroyLegacy"
        /\ players' = players \ gone
        /\ hostMedia' = [hostMedia EXCEPT ![h] = {}] /\ owned' = [owned EXCEPT ![t] = {}]
    BY <1>4, <2>1
    DEF ReleaseMedia, GoTo, OpeningsKept, OthersStay, Publishing, MediaCall
  <2>3. Openings' /\ MediaCalls'
    BY <2>2, OpeningsStay, MediaCallsStay
  <2>4. \A s \in Hosts \ {t} : pc[s] \in DestroyPcs => call[s].h # h
    BY <2>1, <2>2, DestroyerAlone DEF DestroyPcs
  <2>5. /\ \A g \in Handles \ {h} : DestroyerAt(g, Releasing) => DestroyerAt(g, Releasing)'
        /\ \A g \in Handles : DestroyerAt(g, Unfinished) => DestroyerAt(g, Unfinished)'
    BY <2>1, <2>2 DEF DestroyerAt, Releasing, Unfinished, OthersStay
  <2>6. \A m \in gone : /\ m \in Media /\ mediaOwner[m] = None
                        /\ \A g \in Handles \ {h} : m \notin hostMedia[g]
                        /\ \A s \in Hosts \ {t} : m \notin owned[s]
    BY DEF JInv, Players, HostPlayers, OwnedPlayers
  <2>7. PublicPlayers'
    BY <2>2, <2>6 DEF JInv, Players, PublicPlayers
  <2>8. HostPlayers'
    BY <2>2, <2>5, <2>6 DEF JInv, Players, HostPlayers
  <2>9. OwnedPlayers'
    BY <2>2, <2>6 DEF JInv, Players, OwnedPlayers, OthersStay
  <2>10. Accounted'
    BY <2>2, <2>6 DEF JInv, Players, Accounted
  <2>11. LegacyOwned'
    BY <2>2, <2>5 DEF JInv, Players, LegacyOwned
  <2>12. \A s \in Hosts : \A x : x \in owned[s] /\ call[s].h = h => s = t
    BY <2>4 DEF JInv, Players, OwnedPlayers, Releasing, DestroyPcs
  <2>13. ASSUME NEW g \in Handles, NEW x
         PROVE  Holds(g, x)' <=> Holds(g, x) /\ ~ (g = h /\ x \in gone)
    <3>1. CASE g = h
      <4>1. x \in gone => x \notin {"runtime", "legacy"} /\ ~ (x \in Media /\ mediaOwner[x] = h)
        BY <2>6, ResourcesAssumption, ThreadAssumption
      <4>2. ~ (\E s \in Hosts : call[s].h = h /\ x \in owned[s])'
        BY <2>2, <2>12
      <4>3. (\E s \in Hosts : call[s].h = h /\ x \in owned[s]) <=> x \in owned[t]
        BY <2>1, <2>12
      <4> QED
        BY <2>2, <3>1, <4>1, <4>2, <4>3 DEF Holds
    <3>2. CASE g # h
      <4>1. (\E s \in Hosts : call[s].h = g /\ x \in owned[s])'
              <=> (\E s \in Hosts : call[s].h = g /\ x \in owned[s])
        BY <2>1, <2>2, <3>2
      <4> QED
        BY <2>2, <3>2, <4>1 DEF Holds
    <3> QED
      BY <3>1, <3>2
  <2>14. \A x \in gone : Holds(h, x)
    BY <2>1 DEF Holds
  <2>15. Promise!Next
    <3> HIDE DEF gone
    <3> QED
      BY <2>1, <2>2, <2>13, <2>14, MapsRelease
  <2> QED
    BY <2>3, <2>7, <2>8, <2>9, <2>10, <2>11, <2>15 DEF Players, Faithful
<1>5. CASE DestroyLegacy(t)
  <2>1. PICK h \in Handles : h = call[t].h /\ h \in allocated /\ h \notin registered
    BY <1>5, DestroyerAlone DEF DestroyLegacy, DestroyPcs
  <2>2. /\ OpeningsKept(t) /\ OthersStay(t) /\ MediaCall(t)' /\ call' = call
        /\ UNCHANGED <<registered, allocated, startup, runtime, mediaOwner, players, hostMedia,
                       owned>>
        /\ pc[t] = "destroyLegacy" /\ pc'[t] = "delete"
        /\ legacy' = legacy \ {h}
    BY <1>5, <2>1
    DEF DestroyLegacy, GoTo, OpeningsKept, OthersStay, Publishing, MediaCall
  <2>3. Openings' /\ MediaCalls'
    BY <2>2, OpeningsStay, MediaCallsStay
  <2>4. /\ \A s \in Hosts \ {t} : pc[s] \in DestroyPcs => call[s].h # h
        /\ ~ DestroyerAt(h, Releasing)
    BY <2>1, <2>2, DestroyerAlone DEF DestroyPcs, Releasing
  <2>5. /\ \A g \in Handles : DestroyerAt(g, Releasing) => DestroyerAt(g, Releasing)'
        /\ \A g \in Handles \ {h} : DestroyerAt(g, Unfinished) => DestroyerAt(g, Unfinished)'
    BY <2>1, <2>2 DEF DestroyerAt, Releasing, Unfinished, OthersStay
  <2>6. PublicPlayers' /\ Accounted'
    BY <2>1, <2>2 DEF JInv, Players, PublicPlayers, Accounted
  <2>7. HostPlayers'
    BY <2>1, <2>2, <2>4, <2>5 DEF JInv, Players, HostPlayers
  <2>8. OwnedPlayers'
    <3>1. \A s \in Hosts, m \in Media : m \in owned[s] => call[s].h # h /\ pc'[s] = pc[s]
      BY <2>2, <2>4 DEF JInv, Players, OwnedPlayers, Releasing, DestroyPcs, OthersStay
    <3> QED
      BY <2>2, <3>1 DEF JInv, Players, OwnedPlayers
  <2>9. LegacyOwned'
    BY <2>2, <2>5 DEF JInv, Players, LegacyOwned
  <2>10. CASE h \notin legacy
    <3>1. \A g \in Handles : \A x : Holds(g, x)' <=> Holds(g, x)
      BY <2>2, <2>10 DEF Holds
    <3> QED
      BY <2>2, <2>3, <2>6, <2>7, <2>8, <2>9, <3>1, MapsStutter DEF Players, Faithful
  <2>11. CASE h \in legacy
    <3>1. Holds(h, "legacy") /\ "legacy" \notin Media
      BY <2>11, ResourcesAssumption DEF Holds
    <3>2. \A x, s : x = "legacy" => x \notin hostMedia[h] /\ (s \in Hosts => x \notin owned[s])
      BY <3>1
    <3>3. \A g \in Handles : \A x : Holds(g, x)' <=> Holds(g, x) /\ ~ (g = h /\ x \in {"legacy"})
      BY <2>2, <3>1, <3>2 DEF Holds
    <3>4. Promise!Next
      BY <2>1, <2>2, <3>1, <3>3, MapsRelease
    <3> QED
      BY <2>3, <2>6, <2>7, <2>8, <2>9, <3>4 DEF Players, Faithful
  <2> QED
    BY <2>10, <2>11
<1>6. CASE Delete(t)
  <2>1. PICK h \in Handles : h = call[t].h /\ h \in allocated /\ h \notin registered
    BY <1>6, DestroyerAlone DEF Delete, DestroyPcs
  <2>2. /\ OpeningsKept(t) /\ PlayersKept(t) /\ MediaCall(t)' /\ pc[t] = "delete"
        /\ UNCHANGED <<registered, startup, runtime, legacy>> /\ allocated' = allocated \ {h}
    BY <1>6, <2>1
    DEF Delete, GoTo, NoCall, OpeningsKept, PlayersKept, OthersStay, Publishing, Releasing,
        MediaCall, MediaOps
  <2>3. /\ \A pcs \in SUBSET DestroyPcs : DestroyerAt(h, pcs) => "delete" \in pcs
        /\ \A s \in Hosts \ {t} : pc[s] \in DestroyPcs => call[s].h # h
        /\ \A s \in Hosts : pc[s] \in CallPcs => call[s].h # h
    BY <2>1, <2>2, DestroyerAlone DEF DestroyPcs
  <2>4. /\ ~ DestroyerAt(h, Releasing) /\ ~ DestroyerAt(h, Unfinished)
        /\ ~ DestroyerAt(h, {"takeThread"}) /\ ~ DestroyerAt(h, {"join"})
        /\ ~ DestroyerAt(h, BeforeRuntimeGone)
    BY <2>3 DEF Releasing, Unfinished, BeforeRuntimeGone, DestroyPcs
  <2>5. startup[h] # "running"
    <3>1. worker[h] = "off"
      BY <2>1, <2>4 DEF JInv, IInv, WorkersJoined
    <3> QED
      BY <2>1, <2>3, <3>1 DEF JInv, Openings, StatesTold, OpeningInProgress, CallPcs
  <2>6. \A x : ~ Holds(h, x)
    <3>1. runtime[h] = "none" /\ h \notin legacy
      BY <2>1, <2>4 DEF JInv, IInv, RuntimesDestroyed, Players, LegacyOwned
    <3>2. \A m \in Media : m \notin hostMedia[h] /\ mediaOwner[m] # h
      BY <2>1, <2>4, ThreadAssumption DEF JInv, Players, HostPlayers, PublicPlayers
    <3>3. \A s \in Hosts, m \in Media : m \in owned[s] => call[s].h # h
      BY <2>2, <2>3 DEF JInv, Players, OwnedPlayers, Releasing, DestroyPcs
    <3> QED
      BY <3>1, <3>2, <3>3 DEF Holds
  <2>7. \A g \in Handles : \A x : Holds(g, x)' <=> Holds(g, x)
    BY <2>2, HeldStays DEF Holds
  <2>8. Promise!Next
    BY <2>1, <2>2, <2>5, <2>6, <2>7, MapsVanish
  <2> QED
    BY <2>2, <2>8, OpeningsStay, PlayersStay, MediaCallsStay
    DEF OpeningsKept, PlayersKept, Faithful
<1> QED
  BY <1>1, <1>2, <1>3, <1>4, <1>5, <1>6 DEF DestroyStep


\* Every step is faithful, or changes nothing.
LEMMA FaithfulNext == ASSUME JInv, [Next]_vars PROVE Faithful
<1>1. ASSUME NEW t \in Hosts, NEW h \in Handles, Create(t, h) PROVE Faithful
  <2>1. /\ t \in Threads /\ TypeOK /\ h \notin registered
    BY <1>1 DEF Threads, JInv, IInv, Create
  <2>2. /\ PlayersKept(t) /\ MediaCall(t)' /\ pc[t] = "idle" /\ h \notin allocated
        /\ UNCHANGED <<pc, call, worker, joinable, runtime, legacy>>
        /\ startup' = [startup EXCEPT ![h] = "idle"]
        /\ registered' = registered \cup {h} /\ allocated' = allocated \cup {h}
    BY <1>1, <2>1
    DEF Create, PlayersKept, OthersStay, Releasing, JInv, MediaCalls, MediaCall, MediaOps
  <2>3. \A g \in Handles : OpeningInProgress(g)' <=> OpeningInProgress(g)
    BY <2>2 DEF OpeningInProgress
  <2>4. ~ OpeningInProgress(h)
    <3>1. worker[h] = "off"
      <4>1. h \notin joinable /\ ~ DestroyerAt(h, {"join"})
        BY <2>1, <2>2 DEF JInv, IInv, WorkersJoined, DestroyersOwn, DestroyerAt, DestroyPcs
      <4> QED
        BY <4>1 DEF JInv, IInv, WorkersJoined
    <3>2. \A s \in Hosts : pc[s] = "opening" => call[s].h \in registered
      BY DEF JInv, IInv, CallsValidated, CallPcs, Threads
    <3> QED
      BY <2>1, <3>1, <3>2 DEF OpeningInProgress
  <2>5. Openings'
    BY <2>1, <2>2, <2>3, <2>4 DEF JInv, Openings, OpenersAlone, StatesTold, TypeOK
  <2>6. \A g \in Handles : \A x : Holds(g, x)' <=> Holds(g, x)
    BY <2>1, <2>2, HeldStays DEF Holds
  <2>7. Promise!Next
    BY <2>1, <2>2, <2>6, MapsCreate
  <2> QED
    BY <2>1, <2>2, <2>5, <2>7, PlayersStay, MediaCallsStay DEF PlayersKept, Faithful
<1>2. ASSUME NEW t \in Hosts, HostCall(t) PROVE Faithful
  <2>1. PICK op \in HostOps, m \in Media \cup {None}, g \in Handles \cup {None} :
             Call(t, op, g, m) /\ (op \in MediaOps => m \in Media)
    BY <1>2 DEF HostCall
  <2>2. t \in Threads /\ TypeOK
    BY DEF Threads, JInv, IInv
  <2>3. Calm(t)
    BY <2>1, <2>2
    DEF Call, GoTo, Rest, Calm, OpeningsKept, PlayersKept, OthersStay, Publishing, Releasing,
        TypeOK
  <2>4. MediaCall(t)'
    BY <2>1, <2>2 DEF Call, GoTo, MediaCall, TypeOK
  <2> QED
    BY <2>2, <2>3, <2>4, CalmFaithful
<1>3. CASE UNCHANGED vars
  <2>1. Openings' /\ MediaCalls' /\ Players'
    BY <1>3
    DEF vars, JInv, Openings, OpenersAlone, StatesTold, OpeningInProgress, MediaCalls, MediaCall,
        Players, PublicPlayers, HostPlayers, OwnedPlayers, Accounted, LegacyOwned, DestroyerAt
  <2>2. \A g \in Handles : \A x : Holds(g, x)' <=> Holds(g, x)
    BY <1>3 DEF vars, Holds
  <2> QED
    BY <1>3, <2>1, <2>2, MapsStutter DEF vars, Faithful
<1> QED
  BY <1>1, <1>2, <1>3, FaithfulCallStep, FaithfulOpenStep, FaithfulRouteStep,
     FaithfulDestroyStep, FaithfulRuntimeStep
  DEF Next

\* Initially there is no handle, no opening and no player.
LEMMA InitJInv == Init => JInv /\ Promise!Init
<1> SUFFICES ASSUME Init PROVE JInv /\ Promise!Init
  OBVIOUS
<1>1. IInv
  BY InitIInv
<1>2. /\ \A t \in Threads : pc[t] \in {"idle", "off"} /\ call[t] = NoCall
      /\ \A t \in Hosts : owned[t] = {}
  BY ThreadAssumption DEF Init, Threads
<1>3. Openings /\ MediaCalls
  BY <1>2, ThreadAssumption
  DEF Init, Openings, OpenersAlone, StatesTold, MediaCalls, MediaCall, NoCall, MediaOps, Threads
<1>4. Players
  BY <1>2
  DEF Init, Players, PublicPlayers, HostPlayers, OwnedPlayers, Accounted, LegacyOwned
<1>5. \A h \in Handles : \A x : ~ Holds(h, x)
  BY <1>2, ThreadAssumption DEF Init, Holds
<1>6. Held = [h \in Handles |-> {}]
  <2>1. \A h \in Handles : Held[h] = {}
    BY <1>5, HeldIs
  <2> QED
    BY <2>1 DEF Held
<1>7. Phase = [h \in Handles |-> "absent"]
  BY DEF Init, Phase
<1>8. Promise!Init
  BY <1>6, <1>7 DEF Init, Promise!Init, Phase, Held, HeldBy
<1> QED
  BY <1>1, <1>3, <1>4, <1>8 DEF JInv

\* The extended inductive invariant holds in every reachable state.
THEOREM InductiveWithPlayers == Spec => []JInv
<1>1. JInv /\ [Next]_vars => JInv'
  <2>1. ASSUME JInv, [Next]_vars PROVE JInv'
    <3>1. TypeOK'
      BY <2>1, TypeNext DEF JInv, IInv
    <3>2. Owned'
      BY <2>1, <3>1, OwnedNext DEF JInv
    <3>3. Faithful
      BY <2>1, FaithfulNext
    <3> QED
      BY <3>1, <3>2, <3>3 DEF JInv, IInv, Owned, Faithful
  <2> QED
    BY <2>1
<1> QED
  BY InitJInv, <1>1, PTL DEF Spec

\* A host that polls the startup state sees RUNNING exactly while an opening of its
\* handle is in progress, and no handle has two at once.
THEOREM StartupTold == Spec => []StartupTruthful
<1>1. JInv => StartupTruthful
  <2> SUFFICES ASSUME JInv, NEW h \in Handles
               PROVE  /\ h \in allocated => (startup[h] = "running" <=> OpeningInProgress(h))
                      /\ Cardinality({t \in Hosts : pc[t] = "opening" /\ call[t].h = h})
                           + (IF worker[h] \in {"opening", "publishing"} THEN 1 ELSE 0) <= 1
    BY DEF StartupTruthful
  <2> DEFINE openers == {t \in Hosts : pc[t] = "opening" /\ call[t].h = h}
  <2>1. h \in allocated => (startup[h] = "running" <=> OpeningInProgress(h))
    BY DEF JInv, Openings, StatesTold
  <2>2. CASE openers = {}
    BY <2>1, <2>2, FS_EmptySet
  <2>3. ASSUME NEW t \in openers PROVE openers = {t} /\ ~ Publishing(h)
    BY OpenerAlone
  <2>4. CASE openers # {}
    <3>1. PICK t \in openers : TRUE
      BY <2>4
    <3>2. Cardinality(openers) = 1
      BY <2>3, <3>1, FS_Singleton
    <3>3. worker[h] \notin {"opening", "publishing"}
      BY <2>3, <3>1 DEF Publishing
    <3> QED
      BY <2>1, <3>2, <3>3
  <2> QED
    BY <2>2, <2>4
<1> QED
  BY <1>1, InductiveWithPlayers, PTL

\* A media call runs on a player that exists, and every player that exists is in the
\* charge of exactly one handle, whose legacy backend exists.
THEOREM PlayersAccounted == Spec => []PlayersInCharge
<1>1. JInv => PlayersInCharge
  <2> SUFFICES ASSUME JInv PROVE PlayersInCharge
    OBVIOUS
  <2> DEFINE Charged(g, m) == \/ m \in PlayersOf(g)
                              \/ \E t \in Hosts : call[t].h = g /\ m \in owned[t]
  <2>1. TypeOK /\ players \subseteq Media
    BY DEF JInv, IInv, TypeOK
  <2>2. ASSUME NEW t \in Threads, pc[t] = "inMedia" PROVE call[t].m \in players
    <3>1. call[t].h \in registered /\ registered \subseteq Handles
      BY <2>1, <2>2 DEF JInv, IInv, CallsValidated, CallPcs, TypeOK
    <3>2. call[t].m \in Media /\ mediaOwner[call[t].m] = call[t].h
      BY <2>2 DEF JInv, MediaCalls, MediaCall
    <3> QED
      BY <3>1, <3>2, ThreadAssumption DEF JInv, Players, PublicPlayers
  <2>3. ASSUME NEW m \in players
        PROVE  \E h \in legacy : Charged(h, m) /\ \A g \in Handles \ {h} : ~ Charged(g, m)
    <3>1. m \in Media
      BY <2>1
    <3>2. CASE mediaOwner[m] # None
      <4> DEFINE h == mediaOwner[m]
      <4>1. h \in legacy /\ Charged(h, m)
        BY <3>1, <3>2 DEF JInv, Players, PublicPlayers, PlayersOf
      <4>2. \A g \in Handles \ {h} : ~ Charged(g, m)
        BY <3>1, <3>2 DEF JInv, Players, HostPlayers, OwnedPlayers, PlayersOf
      <4> QED
        BY <4>1, <4>2
    <3>3. ASSUME NEW h \in Handles, m \in hostMedia[h] 
          PROVE  h \in legacy /\ Charged(h, m) /\ \A g \in Handles \ {h} : ~ Charged(g, m)
      BY <3>1, <3>3, ThreadAssumption DEF JInv, Players, HostPlayers, OwnedPlayers, PlayersOf
    <3>4. ASSUME NEW t \in Hosts, m \in owned[t]
          PROVE  /\ call[t].h \in legacy /\ Charged(call[t].h, m)
                 /\ \A g \in Handles \ {call[t].h} : ~ Charged(g, m)
      BY <3>1, <3>4, ThreadAssumption DEF JInv, Players, OwnedPlayers, PlayersOf
    <3> QED
      BY <3>2, <3>3, <3>4 DEF JInv, Players, Accounted
  <2> QED
    BY <2>2, <2>3 DEF PlayersInCharge
<1> QED
  BY <1>1, InductiveWithPlayers, PTL

\* What engine_api.h promises of a handle is kept through every interleaving.
THEOREM PromiseKept == Spec => KeepsPromise
<1>1. JInv /\ [Next]_vars => [Promise!Next]_(Promise!vars)
  <2>1. ASSUME JInv, [Next]_vars PROVE Promise!Next \/ UNCHANGED Promise!vars
    BY <2>1, FaithfulNext DEF Faithful
  <2> QED
    BY <2>1
<1> QED
  BY <1>1, InitJInv, InductiveWithPlayers, PTL DEF Spec, KeepsPromise, Promise!Spec

=============================================================================
