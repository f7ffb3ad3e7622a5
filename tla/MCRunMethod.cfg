SPECIFICATION FairSpec
CONSTANTS
  N = 2
  BatchSize = 1
  dev = dev
  test = test
  final = final
  Configs <- MCConfigs
  Stage <- MCStage
  MaxCrashes = 1
  MaxEdits = 1
INVARIANTS
  TypeOK
  ReportedOnLockedDatabases
PROPERTIES
  ConsumedIsSound
  ResumeKeepsRows
  ReportsOrBlocked
CHECK_DEADLOCK FALSE
