SPECIFICATION SiglusSpec
CONSTANTS
  Shells = {small, large}
  Game = game
  Unknown = none
  MaxFrames = 3
  MaxOpens = 3
CHECK_DEADLOCK FALSE
INVARIANT FramesOfTheGame
