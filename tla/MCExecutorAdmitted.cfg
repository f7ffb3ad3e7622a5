SPECIFICATION Spec
CONSTANTS
  p = p
  c = c
  d = d
  a = a
  Rows <- MCRows
  Refs <- MCRefs
  Deferred = {d}
  Abandons = {a}
  Programs <- MCPrograms
  MaxCalls = 2
INVARIANTS
  AdmittedRuns
CHECK_DEADLOCK FALSE
