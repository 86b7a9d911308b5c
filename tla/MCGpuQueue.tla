----------------------------- MODULE MCGpuQueue -----------------------------
\* Two callers, one of which may be the render thread itself.
EXTENDS GpuQueue, TLC
CONSTANTS w, m, r1, r2
CallersDef == {w, m}
TextureRidsDef == {r1, r2}
WorkDef == (w :> {"draw", "region", "release", "read"})
        @@ (m :> {"plain", "import", "release", "readAsync", "flush"})
Symmetry == Permutations(TextureRidsDef)
==============================================================================
