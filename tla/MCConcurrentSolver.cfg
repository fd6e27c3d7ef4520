SPECIFICATION FairSpec
CONSTANTS
  Cubes <- MCCubes
  NumMoves = 2
  Turn <- MCTurn
  Solved = 1
  NumThreads = 2
  InitCapacity = 3
  CopyOutcomes = {"copied", "fault"}
INVARIANTS
  TypeOK
  OneCopyPerThread
  StorageIsSorted
  CheckedByOneThread
  WorkIsAttended
  FinalIsSolved
  UnsolvedIsUnreachable
PROPERTIES
  ImplementsSearch
  DepthsNeverRise
  Terminates
