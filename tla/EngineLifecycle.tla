--------------------------- MODULE EngineLifecycle ---------------------------
(***************************************************************************)
(* What abi/include/engine_api.h promises of an engine handle, with no     *)
(* lock, thread or order of destruction: a handle is created, opens games  *)
(* one at a time and owns resources; after engine_destroy its address      *)
(* disappears only when everything it owned has been released ("Destroys   *)
(* engine handle and releases all resources") and no opening is running.   *)
(***************************************************************************)
CONSTANTS Handles,   \* engine handles
          Media      \* media players; at most one engine owns one at a time

VARIABLES phase,     \* is the handle absent, live (usable) or closing
          session,   \* the outcome of the last game opening
          held       \* the resources each handle owns

vars == <<phase, session, held>>

Resources == {"runtime", "legacy"} \cup Media

Init == /\ phase = [h \in Handles |-> "absent"]
        /\ session = [h \in Handles |-> "idle"]
        /\ held = [h \in Handles |-> {}]

Create(h) == /\ phase[h] = "absent"
             /\ phase' = [phase EXCEPT ![h] = "live"]
             /\ session' = [session EXCEPT ![h] = "idle"]
             /\ UNCHANGED held

\* A game opening never starts over one that is still running, and may be
\* refused at once.
BeginOpen(h) == /\ phase[h] = "live"
                /\ session[h] # "running"
                /\ \E begun \in {"running", "failed"} :
                      session' = [session EXCEPT ![h] = begun]
                /\ UNCHANGED <<phase, held>>

\* The outcome is published once, even while the handle is closing.
SettleOpen(h) == /\ session[h] = "running"
                 /\ \E outcome \in {"succeeded", "failed"} :
                       session' = [session EXCEPT ![h] = outcome]
                 /\ UNCHANGED <<phase, held>>

\* Opening a player may create the legacy backend that plays it.
Acquire(h) == /\ phase[h] # "absent"
              /\ \E got \in SUBSET Resources :
                    /\ \A g \in Handles : got \cap held[g] \cap Media = {}
                    /\ held' = [held EXCEPT ![h] = @ \cup got]
              /\ UNCHANGED <<phase, session>>

Release(h) == /\ phase[h] # "absent"
              /\ \E gone \in SUBSET held[h] :
                    held' = [held EXCEPT ![h] = @ \ gone]
              /\ UNCHANGED <<phase, session>>

Close(h) == /\ phase[h] = "live"
            /\ phase' = [phase EXCEPT ![h] = "closing"]
            /\ UNCHANGED <<session, held>>

Vanish(h) == /\ phase[h] = "closing"
             /\ held[h] = {}
             /\ session[h] # "running"
             /\ phase' = [phase EXCEPT ![h] = "absent"]
             /\ UNCHANGED <<session, held>>

Next == \E h \in Handles :
          \/ Create(h) \/ BeginOpen(h) \/ SettleOpen(h)
          \/ Acquire(h) \/ Release(h) \/ Close(h) \/ Vanish(h)

Spec == Init /\ [][Next]_vars

=============================================================================
