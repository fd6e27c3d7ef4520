SPECIFICATION Spec
CONSTANTS
  Cubes <- MCCubes
  NumMoves = 2
  Turn <- MCTurn
  Solved = 1
  NumThreads = 2
  InitCapacity = 8
  CopyOutcomes = {"copied"}
PROPERTIES
  DepthsLoweredForSameCube
