\* Two handles, one game at a time, two startup threads: a stale worker beside
\* a new one, and a second handle while the first is torn down.
SPECIFICATION FairSpec
CONSTANTS
  Handles = {h1, h2}
  Workers = {w1, w2}
  Sizes = {small}
  Nobody = Nobody
  Host = Host
  Disciplined = TRUE
  MaxSerial = 2
INVARIANTS
  HandleMemorySafe
  RuntimeIntact
  StartupTruthful
  FramesTruthful
PROPERTIES
  CallsReturn
