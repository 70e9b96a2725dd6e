CONSTANTS
  Closes = {60, 84, 108, 132}
  Atr = 8
  SpacingMultiplier = 3
  StopMultiplier = 4
  MaxLevels = 3
  PositionSize = 2
  MaxPosition = 3
  BarCount = 6
  NoGrid = NoGrid
SPECIFICATION Spec
INVARIANTS
  EngineFollowsPlan
  StopCarriedOut
PROPERTY AlwaysInTheMarket
CHECK_DEADLOCK FALSE
