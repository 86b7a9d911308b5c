----------------------------- MODULE MCProvider -----------------------------
(* A handle's settings, one of the providers behind it, and the gate in front of *)
(* both, in one run.                                                             *)
EXTENDS ProviderSession, SiglusRuntime, PrimaryClickInput

CONSTANTS a, b, c

\* Two providers of one priority and one above them.
TwoOneAbove == (a :> 0) @@ (b :> 0) @@ (c :> 1)

\* "Not supported by me" is zero or less; two positive scores make a draw and a win.
Probes == {-1, 1, 2}

\* Bound: the models share no variable, so that a behaviour is of one of them and
\* leaves the others at rest, in an initial state.
SessionRests == Init /\ audioActive
SiglusRests  == SiglusInit
InputRests   == InputInit

ProviderInit == Init /\ SiglusInit /\ InputInit

ProviderNext ==
  \/ SiglusRests /\ InputRests /\ Next /\ UNCHANGED <<siglusVars, inputVars>>
  \/ SessionRests /\ InputRests /\ SiglusNext /\ UNCHANGED <<vars, inputVars>>
  \/ SessionRests /\ SiglusRests /\ InputNext /\ UNCHANGED <<vars, siglusVars>>

ProviderSpec == ProviderInit /\ [][ProviderNext]_<<vars, siglusVars, inputVars>>

\* What rests is asked for nothing.
ProviderFairSpec == ProviderSpec /\ Fairness /\ SiglusFairness
==============================================================================
