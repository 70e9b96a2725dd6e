CONSTANTS
  Prices <- MCPrices
  Atrs = {8, 16}
  SpacingMultiplier = 3
  StopMultiplier = 4
  MaxLevels = 3
  PositionSize = 1
  MaxPosition = 4
  Multiplier = 1
  NoGrid = NoGrid
SPECIFICATION Spec
INVARIANTS
  SizeLimited
  GridOnPositionSide
  LevelsEarned
  StopHonoured
PROPERTY NoNewExposure
