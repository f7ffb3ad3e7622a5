SPECIFICATION FairSpec
CONSTANTS
  N = 3
  a = a
  b = b
  c = c
  t = t
  u = u
  v = v
  x = x
  y = y
  Ids <- MCIds
  Tables <- MCTables
  Shapes <- MCShapes
  Plans <- MCPlans
INVARIANTS
  TypeOK
  ParentsFirst
  SourceOrderKept
  CycleErrorIffCyclic
  IndegreeCounts
  AllOrNothing
PROPERTIES
  Terminates
CHECK_DEADLOCK FALSE
