SPECIFICATION Spec
CONSTANTS
  p = p
  c = c
  d = d
  a = a
  Rows <- MCRows
  Refs <- MCRefs
  Deferred = {d}
  Abandons = {a}
  Programs <- MCPrograms
  MaxCalls = 2
INVARIANTS
  TypeOK
  NothingLeftBehind
  SuccessIsWhole
  AdmittedFailsOnlyDeferred
PROPERTIES
  ImplementsAtomicWrite
CHECK_DEADLOCK FALSE
