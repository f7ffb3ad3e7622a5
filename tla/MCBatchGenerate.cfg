SPECIFICATION FairSpec
CONSTANTS
  N = 5
  BatchSizes <- MCBatchSizes
INVARIANTS
  TypeOK
  OneResultEach
  OomOnlyAlone
  FallbackIsMonotone
  RetriesBounded
PROPERTIES
  Ends
CHECK_DEADLOCK FALSE
