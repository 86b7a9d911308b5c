SPECIFICATION PlayerSpec
CONSTANTS
  MaxUses = 2
  MaxEngines = 2
  MaxFails = 0
  MaxToggles = 2
  MaxPictures = 2
  Apart = TRUE
CHECK_DEADLOCK FALSE
INVARIANT
  GamesOwnAnswers
