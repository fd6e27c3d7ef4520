SPECIFICATION Spec
CONSTANTS
  MaxTurns = 2
PROPERTIES
  CornersTurnLikeStickers
CHECK_DEADLOCK FALSE
