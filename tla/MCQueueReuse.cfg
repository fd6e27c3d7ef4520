SPECIFICATION Spec
CONSTANTS
  NumThreads = 3
  Nodes = {1, 2, 3, 4, 5, 6, 7, 8}
  MaxCalls = 3
  MaxFilled = 0
  CountRange = 100
  Uses <- MCReusing
PROPERTIES
  ImplementsFifo
