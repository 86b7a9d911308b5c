SPECIFICATION FairSpec
CONSTANTS
  Hosts = {t1, t2}
  Handles = {h1}
  Media = {m1}
  HostOps = {"open", "openAsync", "route", "mediaOpen", "mediaUse", "mediaDestroy", "destroy"}
  RuntimeOps = {"mediaOpen", "mediaUse", "mediaDestroy"}
  None = None
INVARIANTS
  NothingUsedAfterFree
  PlayersInCharge
  StartupTruthful
PROPERTIES
  KeepsPromise
  CallsReturn
