SPECIFICATION OnsFairSpec
CONSTANTS
  MaxHostEvents = 2
  Inputs <- AllInputs
INVARIANTS
  EndIsReported
  NothingLeft
PROPERTIES
  CallsReturn
