SPECIFICATION PlayerFairSpec
CONSTANTS
  MaxUses = 2
  MaxEngines = 2
  MaxFails = 1
  MaxToggles = 2
  MaxPictures = 2
  Apart = TRUE
CHECK_DEADLOCK FALSE
INVARIANTS
  AnswersExpected
  BeliefsHold
PROPERTIES
  EveryRequestAnswered
