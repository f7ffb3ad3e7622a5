SPECIFICATION FairSpec
CONSTANTS
  N = 3
  StreamOrder <- MCStreamOrder
  Shared = "shared"
  RunIds = {r1, r2}
  MaxCrashes = 3
INVARIANTS
  TypeOK
  CompletedNotRegenerated
  OneCallLostPerCrash
  OneRunId
  CompleteIsComplete
PROPERTIES
  ImplementsLedger
  CompletesOrStuck
CHECK_DEADLOCK FALSE
