SPECIFICATION Spec
CONSTANTS
  Cubes <- MCCubes
  NumMoves = 2
  Turn <- MCTurn
  Solved = 0
  Blocks = {1, 2, 3}
  MaxDepth = 2
  CopyOutcomes = {"copied", "fault"}
PROPERTY
  ImplementsSearch
CHECK_DEADLOCK FALSE
