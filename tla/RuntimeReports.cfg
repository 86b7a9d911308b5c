SPECIFICATION HandedFairSpec
CONSTANTS
  LineSizes <- Sizes
  BufferSize <- Buffer
  RequestFits = {TRUE, FALSE}
  MaxRequests = 2
  MaxServed = 2
  MaxLines = 1
  MaxAsked = 3
  wide = wide
  narrow = narrow
  imported = imported
  Rids <- RidsDef
  Width <- WidthDef
  External <- ExternalDef
  MaxLen = 3
CHECK_DEADLOCK FALSE
INVARIANTS
  QueuesFaithful
  EpochOrdered
  PlannerSound
PROPERTIES
  Served
  FailureNoticed
