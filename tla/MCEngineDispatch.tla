--------------------------- MODULE MCEngineDispatch ---------------------------
(* TLC instances of EngineDispatch. *)
EXTENDS EngineDispatch

=============================================================================
