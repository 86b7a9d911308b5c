---------------------------- MODULE MCGpuBarriers ----------------------------
\* A surface of two columns, one of one column, and an imported one.
EXTENDS GpuBarriers, TLC
CONSTANTS wide, narrow, imported
RidsDef == {wide, narrow, imported}
WidthDef == (wide :> 2) @@ (narrow :> 1) @@ (imported :> 1)
ExternalDef == {imported}
=============================================================================
