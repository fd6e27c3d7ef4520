SPECIFICATION Spec
CONSTANTS
  NumThreads = 2
  Items = {1, 2, 3, 4}
  Hashes <- MCHashes
  Capacity = 3
  None = None
INVARIANTS
  TypeOK
  StoredOnce
  Findable
  MissesAreTrue
  OldHitsAreRight
  AccessorsAreCounted
PROPERTY
  CallsEnd
