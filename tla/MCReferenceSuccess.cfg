SPECIFICATION Spec
CONSTANTS
  MCBlank = "blank"
  MCSpace = "space"
  Plans <- MCPlans
  Refs <- MCRefs
  Blank <- MCBlank
  Spaces = {"space"}
  CollectionOf <- MCCollectionOf
  CollectionIds = {"c1", "c2"}
  SelectorOf <- MCSelectorOf
  FieldOf <- MCFieldOf
  TableOf <- MCTableOf
  ColumnsOf <- MCColumnsOf
  Insertable <- MCInsertable
  PolicyOf <- MCPolicyOf
  Evidence <- MCEvidence
  Untimely <- MCUntimely
  LaterDates <- MCLaterDates
  Trimmed <- MCTrimmed
  NameOf <- MCNameOf
  KeyOf <- MCKeyOf
INVARIANT SuccessMeansPassed
CHECK_DEADLOCK FALSE
