SPECIFICATION Spec
CONSTANTS
  Cubes <- MCCubes
  NumMoves <- MCNumMoves
  Turn <- MCTurn
  Solved <- MCSolved
  NumThreads = 1
  InitCapacity = 3
  CopyOutcomes = {"copied"}
INVARIANTS
  PathsReplay
  DepthsAreShortest
  SolutionIsShortest
  EachCubeStoredOnce
