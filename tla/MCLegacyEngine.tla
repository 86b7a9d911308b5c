--------------------------- MODULE MCLegacyEngine ---------------------------
(* Instances of LegacyEngine for TLC. *)
EXTENDS LegacyEngine, TLC
=============================================================================
