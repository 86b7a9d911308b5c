------------------------------ MODULE MCOnsRuntime ------------------------------
(* TLC instances of OnsRuntime. *)
EXTENDS OnsRuntime

\* Every kind of event: moves coalesce, a press is two events, a release skips a
\* movie, a key release overtakes.
AllInputs == {"move", "down", "up", "ctrlUp"}

===============================================================================
