------------------------------ MODULE MCFrames ------------------------------
(* What passes between the shell and the runtime frame by frame, in one run: pictures *)
(* on their way to the viewport, time on its way to the runtime, and music.           *)
EXTENDS FramePresenter, RuntimeTiming

CONSTANTS t1, t2
HostDeltas == {1, 3, 7}

\* Bound: the models share no variable, so that a behaviour is of one of them and
\* leaves the other at rest, in an initial state.
FramesRest  == Init /\ inline /\ pacing /\ renderer = "native"
TimingRests == TimingInit /\ paced

FramesInit == Init /\ TimingInit /\ (FramesRest \/ TimingRests)

FramesNext ==
  \/ TimingRests /\ Next /\ UNCHANGED timingVars
  \/ FramesRest /\ TimingNext /\ UNCHANGED vars

FramesSpec == FramesInit /\ [][FramesNext]_<<vars, timingVars>>

\* Nothing that has to happen is asked of timing.
FramesFairSpec == FramesSpec /\ Fairness
==============================================================================
