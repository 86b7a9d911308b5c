\* A GPU renderer and the CPU one; "bridge" takes the branches of "native" but
\* for the held texture.
SPECIFICATION FramesFairSpec
CONSTANTS
  MaxPicture = 2
  MaxFails = 1
  Renderers = {"native", "software"}
  t1 = t1
  t2 = t2
  Milli = 4
  LogicalFrame = 5
  Interval = 3
  Deltas <- HostDeltas
  MaxTime = 14
  Tracks = {t1, t2}
  Volumes = {0, 2}
  Full = 2
  MaxLoads = 3
  NoName = NoName
INVARIANTS
  RingSafe
  CacheCurrent
  ClocksAgree
  MusicInHand
PROPERTIES
  LastPictureShown
