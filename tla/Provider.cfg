SPECIFICATION ProviderFairSpec
CONSTANTS
  a = a
  b = b
  c = c
  Providers = {a, b, c}
  Priority <- TwoOneAbove
  Scores <- Probes
  Options = {o1, o2}
  Values = {v1, v2}
  Sizes = {s1}
  None = None
  Shells = {small, large}
  Game = game
  Unknown = none
  MaxFrames = 2
  MaxOpens = 3
  Pointers = {p1, p2}
  MaxGestures = 2
  MaxQueued = 5
  NoPointer = NoPointer
CHECK_DEADLOCK FALSE
INVARIANTS
  SelectionIsBest
  SettingsReachRuntime
  PausedStaysPaused
  PumpOnDevice
  HostInStep
  GateBounded
  CountsReleases
  WholeUnlessLost
PROPERTIES
  HeldResumeEnds
  PumpObeys
