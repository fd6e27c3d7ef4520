SPECIFICATION Spec
CONSTANTS
  MaxTurns = 4
INVARIANTS
  TypeOK
  PiecesAreKept
  TurnsFormAGroup
  SideBitsMatchPosition
PROPERTIES
  LayersTurnAsOne
  SidesTurnLikeStickers
CHECK_DEADLOCK FALSE
