SPECIFICATION Spec
CONSTANTS
  Ann = Ann
  Bob = Bob
  Cid = Cid
  s1 = s1
  NoOne = NoOne
  People <- MCPeople
  Samples <- MCSamples
  Contents = {0, 1, 2}
  Sound = {1, 2}
  MaxCommands = 4
  MaxAssigns = 1
  MaxCrashes = 1
SYMMETRY MCSymmetry
INVARIANTS
  TypeOK
  ApprovalHasEvidence
  FrozenIsApproved
PROPERTIES
  FrozenFilesStay
  LatestDecisionApproves
CHECK_DEADLOCK FALSE
