---------------------------- MODULE MCRuntimeReports ----------------------------
(* What the runtime hands over and must stay in order, in one run: its lines and      *)
(* requests to the shell, and the draws of one batch to the GPU.                      *)
EXTENDS RuntimeReports, MCGpuBarriers

\* A short line, one that fills the buffer with its newline, one that never fits.
Sizes == {1, 5, 6}
Buffer == 6

\* Bound: the models share no variable, so that a behaviour is of one of them and
\* leaves the other at rest, in an initial state.
ReportsRest  == ReportsInit
BarriersRest == Init /\ raster

HandedInit == ReportsInit /\ Init

HandedNext ==
  \/ BarriersRest /\ ReportsNext /\ UNCHANGED vars
  \/ ReportsRest /\ Next /\ UNCHANGED reportsVars

HandedSpec == HandedInit /\ [][HandedNext]_<<reportsVars, vars>>

\* Nothing that has to happen is asked of the draws.
HandedFairSpec == HandedSpec /\ ReportsFairness
===============================================================================
