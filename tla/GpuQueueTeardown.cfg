SPECIFICATION QueueSpec
CONSTANTS
  w = w
  m = m
  r1 = r1
  r2 = r2
  Callers <- CallersDef
  Main = m
  Nobody = Nobody
  TextureRids <- TextureRidsDef
  NoRid = NoRid
  Work <- WorkDef
  MaxOps = 2
  MaxBatches = 2
  PoolLimit = 1
SYMMETRY Symmetry
INVARIANT PoolIsEmptied
