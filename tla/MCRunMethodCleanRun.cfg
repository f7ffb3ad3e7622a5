SPECIFICATION Spec
CONSTANTS
  N = 2
  BatchSize = 1
  dev = dev
  test = test
  final = final
  Configs <- MCConfigs
  Stage <- MCStage
  MaxCrashes = 1
  MaxEdits = 1
INVARIANT ReportedRowsAreOfConfig
CHECK_DEADLOCK FALSE
