SPECIFICATION Spec
CONSTANTS
  N = 3
  StreamOrder <- MCStreamOrder
  Shared = "shared"
  RunIds = {r1, r2}
  MaxCrashes = 3
INVARIANTS
  CompleteHasProvenance
CHECK_DEADLOCK FALSE
