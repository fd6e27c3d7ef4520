SPECIFICATION LoneSpec
CONSTANTS
  NumThreads = 3
  Nodes = {1, 2, 3, 4, 5, 6, 7, 8}
  MaxCalls = 2
  MaxFilled = 1
  CountRange = 2
  Uses <- MCUses
INVARIANTS
  TypeOK
  ChainIsInMemory
  TailIsNearEnd
  LateExchangesFail
  NothingLeaks
PROPERTIES
  ImplementsFifo
  NonBlocking
